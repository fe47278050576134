------------------------------ MODULE StubProofs ------------------------------
(***************************************************************************)
(* Interrupts that interrupt one another to any depth: every handler finds *)
(* the registers of what it interrupted in its structure, and every iretq  *)
(* goes back to them.                                                      *)
(***************************************************************************)
EXTENDS InterruptStubs, SequenceTheorems, TLAPS

----------------------------------------------------------------------------
(* Where a stub is                                                         *)

\* Stubs that return what they pushed.
Stubs == AllVectors \ {"invalid_opcode"}

\* The number of instructions before push_regs, and of words on the stack
\* by then: the processor's five, and an error code, its own or a zero.
Before(v) == IF v \in PushesError THEN 2 ELSE 1
Words(v) == IF v \in HasError \cup PushesError THEN 6 ELSE 5

\* The instruction r is at, counted from the first push of push_regs; 21 is
\* the C function, 23 the first pop.
Place(v, r) == r["rip"] - At(v, Before(v))
LastPlace(v) == IF Words(v) = 5 THEN 38 ELSE IF v = "gpf" THEN 40 ELSE 39

\* How many words the stub has on the stack at place p.
Depth(v, p) ==
  IF p <= 0 THEN IF v \in HasError THEN 6 ELSE 5
  ELSE IF p <= 16 THEN Words(v) + p - 1
  ELSE IF p <= 19 THEN Words(v) + p - 2
  ELSE IF p = 20 THEN Words(v) + 17
  ELSE IF p = 21 THEN Words(v) + 18
  ELSE IF p = 22 THEN Words(v) + 17
  ELSE IF p <= 38 THEN Words(v) + 38 - p
  ELSE 5

\* The address above the stub's first word.
Base(v, r) == r["rsp"] + Depth(v, Place(v, r))

\* Registers that are in their place on the stack, and registers that have
\* their old value, at place p.
OnStack(p, j) == j < p /\ j <= 38 - p
InPlace(p, j) == p <= 16 \/ j > 38 - p

\* Stub v at place p, with the registers r and its words below base, will go
\* back to t.
LevelAt(v, p, base, r, t, mem) ==
  /\ p \in 1 - Before(v) .. LastPlace(v)
  /\ r["cs"] = KERNEL_CS /\ r["rflags"] \in {0, 1}
  /\ v = "sync_time" => r["rflags"] = 0
  /\ \A j \in 1 .. 5 : mem[base - 6 + j] = t[Frame[j]]
  /\ \A j \in 1 .. 15 : OnStack(p, j) => mem[base - Words(v) - j] = t[Pushed[j]]
  /\ \A j \in 1 .. 15 : InPlace(p, j) => r[Pushed[j]] = t[Pushed[j]]
  /\ p <= 0 /\ v \in HasError => mem[base - 6] # KERNEL_CS
  /\ p = 20 => r["rdi"] = r["rsp"]
  /\ p = 21 => r["rdi"] = r["rsp"] + 1 /\ mem[r["rsp"]] = r["rip"] + 1

Level(v, r, t, mem) == LevelAt(v, Place(v, r), Base(v, r), r, t, mem)

----------------------------------------------------------------------------
(* The invariant                                                           *)

\* The registers stub k has, or had when the next one interrupted it.  o
\* stands for owed, r for reg and mem for ram.
Regs(o, r, k) == IF k = Len(o) THEN r ELSE o[k + 1].to

\* A switch to another task above stub k means it is never returned to.
Alive(o, k) == \A j \in k + 1 .. Len(o) : o[j].to["cs"] = KERNEL_CS

BaseOf(o, r, k) == Base(o[k].vector, Regs(o, r, k))

\* What is interrupted outside of any stub.
Outside == {Idle, User(1), User(2)}

Owing == [vector : Vectors, to : [Registers -> Int]]

OwedInv(o, r, mem) ==
  /\ o \in Seq(Owing) /\ Len(o) <= MaxDepth
  /\ r \in [Registers -> Int] /\ mem \in [Address -> Int]
  /\ o = << >> => r \in Outside
  /\ \A k \in 1 .. Len(o) :
       /\ o[k].to["cs"] \in {KERNEL_CS, USER_CS} /\ o[k].to["rip"] # KERNEL_CS
       /\ k = 1 \/ o[k].to["cs"] = USER_CS => o[k].to \in Outside
       /\ k < Len(o) => o[k].vector # "sync_time"

LevelsInv(o, r, mem) ==
  \A k \in 1 .. Len(o) :
    Alive(o, k) => Level(o[k].vector, Regs(o, r, k), o[k].to, mem)

\* On the stack below b, each stub below the ones it interrupts.
Placed(b, o, r, k) ==
  IF o[k].vector = "sync_time" THEN BaseOf(o, r, k) = IST1
  ELSE /\ BaseOf(o, r, k) \in b - 26 * (k - 1) - 2 .. b
       /\ \A j \in 1 .. k - 1 : Alive(o, j) => BaseOf(o, r, k) <= Regs(o, r, j)["rsp"]

PlacesInv(o, r) ==
  \E b \in {RSP0, IST4, BOOT} : \A k \in 1 .. Len(o) : Alive(o, k) => Placed(b, o, r, k)

StacksInv(o, r, mem) == OwedInv(o, r, mem) /\ LevelsInv(o, r, mem) /\ PlacesInv(o, r)

StubInv == StacksInv(owed, reg, ram) /\ HandlerSeesFrame

----------------------------------------------------------------------------
(* The code of a stub                                                      *)

Opcodes == {"check_cpl", "check_cpl_err", "push", "pushc", "pop", "cr2", "rdi", "add", "sti",
            "call", "handler", "iretq"}
Instructions == [op : Opcodes, r : GPR \cup {"none"}, n : Int]

\* Fifteen registers are pushed, and five by the processor.
LEMMA PushedRegisters ==
  /\ DOMAIN Pushed = 1 .. 15 /\ Len(Pushed) = 15
  /\ \A j \in 1 .. 15 : Pushed[j] \in GPR
  /\ "rax" \in GPR /\ "rdi" \in GPR
<1>1. DOMAIN Pushed = 1 .. 15 /\ Len(Pushed) = 15
  BY DEF Pushed
<1>2. \A j \in 1 .. 15 : Pushed[j] \in GPR
  BY <1>1 DEF GPR, Range
<1>3. Pushed[1] = "rax" /\ Pushed[7] = "rdi"
  BY DEF Pushed
<1>4. 1 \in 1 .. 15 /\ 7 \in 1 .. 15
  OBVIOUS
<1> QED
  BY <1>1, <1>2, <1>3, <1>4

\* An error code is the processor's, the stub's or neither, and skipped if
\* there is one.
LEMMA StubKinds ==
  ASSUME NEW v \in Stubs
  PROVE  /\ Before(v) \in {1, 2} /\ Words(v) \in {5, 6}
         /\ LastPlace(v) \in {38, 39, 40}
         /\ Number[v] \in 0 .. 8
         /\ v \in SkipsError <=> Words(v) = 6
         /\ v \in PushesError <=> Before(v) = 2
         /\ v \in PushesError => v \notin HasError
         /\ v = "gpf" => Words(v) = 6
         /\ v \in HasError => Words(v) = 6
         /\ v \in PushesError => Words(v) = 6
         /\ v \in AllVectors
<1>1. v \in {"timer", "sync_time", "keyboard", "ahci", "floppy", "isr80", "gpf", "page_fault"}
  BY DEF Stubs, AllVectors, IRQs
<1> QED
  BY <1>1 DEF Before, Words, LastPlace, Number, SkipsError, PushesError, HasError, AllVectors, IRQs

\* c is s followed by t.
IsJoin(c, s, t, S, m, k) ==
  /\ c \in Seq(S) /\ Len(c) = m + k
  /\ \A i \in 1 .. m : c[i] = s[i]
  /\ \A j \in 1 .. k : c[m + j] = t[j]

IsPart(s, S, m) == s \in Seq(S) /\ Len(s) = m

\* A sequence followed by another.
LEMMA Joined ==
  ASSUME NEW S, NEW s, NEW t, NEW m, NEW k, IsPart(s, S, m), IsPart(t, S, k)
  PROVE  IsJoin(s \o t, s, t, S, m, k)
<1>0. PICK c : c = s \o t
  OBVIOUS
<1>1. m \in Nat /\ k \in Nat
  BY LenProperties DEF IsPart
<1>2. /\ c \in Seq(S) /\ Len(c) = m + k
      /\ \A i \in 1 .. m + k : c[i] = IF i <= m THEN s[i] ELSE t[i - m]
  BY <1>0, ConcatProperties, Zenon DEF IsPart
<1>3. ASSUME NEW i \in 1 .. m PROVE c[i] = s[i]
  <2>1. i \in 1 .. m + k /\ i <= m
    BY <1>1
  <2> QED
    BY <1>2, <2>1, Zenon
<1>4. ASSUME NEW j \in 1 .. k PROVE c[m + j] = t[j]
  <2>1. m + j \in 1 .. m + k /\ ~(m + j <= m) /\ (m + j) - m = j
    BY <1>1
  <2> QED
    BY <1>2, <2>1, Zenon
<1>5. IsJoin(c, s, t, S, m, k)
  BY <1>2, <1>3, <1>4, Zenon DEF IsJoin
<1> QED
  BY <1>0, <1>5, Zenon

\* The instructions of each stub, one part after the other.
LEMMA CodeParts ==
  ASSUME NEW v \in Stubs
  PROVE  LET b == Before(v)
             code == Code(v)
         IN  /\ Len(code) = b + LastPlace(v)
             /\ code[1] = Op(IF v \in HasError THEN "check_cpl_err" ELSE "check_cpl")
             /\ b = 2 => code[2] = OpN("pushc", 0)
             /\ \A j \in 1 .. 15 : code[b + j] = OpR("push", Pushed[j])
             /\ code[b + 16] = Op("cr2") /\ code[b + 17] = OpR("push", "rax")
             /\ code[b + 18] = OpN("pushc", Number[v]) /\ code[b + 19] = Op("rdi")
             /\ code[b + 20] = Op("call") /\ code[b + 21] = Op("handler")
             /\ code[b + 22] = OpN("add", 2)
             /\ \A j \in 1 .. 15 : code[b + 22 + j] = OpR("pop", Pushed[16 - j])
             /\ Words(v) = 6 => code[b + 38] = OpN("add", 1)
             /\ v = "gpf" => code[b + 39] = Op("sti")
             /\ code[b + LastPlace(v)] = Op("iretq")
<1> DEFINE a1 == << Op(IF v \in HasError THEN "check_cpl_err" ELSE "check_cpl") >>
           a2 == IF v \in PushesError THEN << OpN("pushc", 0) >> ELSE << >>
           a4 == << Op("cr2"), OpR("push", "rax"), OpN("pushc", Number[v]), Op("rdi"),
                    Op("call"), Op("handler"), OpN("add", 2) >>
           a6 == IF v \in SkipsError THEN << OpN("add", 1) >> ELSE << >>
           a7 == IF v = "gpf" THEN << Op("sti") >> ELSE << >>
           a8 == << Op("iretq") >>
           I == Instructions
<1>1. \A o \in Opcodes, r \in GPR, n \in Int : Op(o) \in I /\ OpR(o, r) \in I /\ OpN(o, n) \in I
  <2> TAKE o \in Opcodes, r \in GPR, n \in Int
  <2>1. r \in GPR \cup {"none"} /\ "none" \in GPR \cup {"none"} /\ 0 \in Int
    OBVIOUS
  <2> QED
    BY <2>1 DEF Op, OpR, OpN, Instructions
<1>2. Number[v] \in Int
  BY StubKinds
<1>3. a1 \in Seq(I) /\ Len(a1) = 1 /\ a1[1] = Op(IF v \in HasError THEN "check_cpl_err" ELSE "check_cpl")
  <2>1. Op(IF v \in HasError THEN "check_cpl_err" ELSE "check_cpl") \in I
    BY <1>1, PushedRegisters DEF Opcodes
  <2> HIDE DEF I
  <2> QED
    BY <2>1
<1>4. a2 \in Seq(I) /\ Len(a2) = Before(v) - 1 /\ (Before(v) = 2 => a2[1] = OpN("pushc", 0))
  <2>1. OpN("pushc", 0) \in I
    BY <1>1, PushedRegisters DEF Opcodes
  <2> HIDE DEF I
  <2> QED
    BY <2>1 DEF Before
<1>5. push_regs \in Seq(I) /\ Len(push_regs) = 15
      /\ \A j \in 1 .. 15 : push_regs[j] = OpR("push", Pushed[j])
  <2>1. \A j \in 1 .. 15 : OpR("push", Pushed[j]) \in I
    BY <1>1, PushedRegisters DEF Opcodes
  <2> HIDE DEF I
  <2> QED
    BY <2>1 DEF push_regs
<1>6. a4 \in Seq(I) /\ Len(a4) = 7 /\ a4[1] = Op("cr2") /\ a4[2] = OpR("push", "rax")
      /\ a4[3] = OpN("pushc", Number[v]) /\ a4[4] = Op("rdi") /\ a4[5] = Op("call")
      /\ a4[6] = Op("handler") /\ a4[7] = OpN("add", 2)
  <2>1. Op("cr2") \in I /\ OpR("push", "rax") \in I /\ OpN("pushc", Number[v]) \in I
        /\ Op("rdi") \in I /\ Op("call") \in I /\ Op("handler") \in I /\ OpN("add", 2) \in I
    BY <1>1, <1>2, PushedRegisters DEF Opcodes
  <2> HIDE DEF I
  <2> QED
    BY <2>1
<1>7. pop_regs \in Seq(I) /\ Len(pop_regs) = 15
      /\ \A j \in 1 .. 15 : pop_regs[j] = OpR("pop", Pushed[16 - j])
  <2>1. \A j \in 1 .. 15 : OpR("pop", Pushed[16 - j]) \in I
    <3>1. \A j \in 1 .. 15 : 16 - j \in 1 .. 15
      OBVIOUS
    <3> QED
      BY <1>1, <3>1, PushedRegisters DEF Opcodes
  <2> HIDE DEF I
  <2> QED
    BY <2>1 DEF pop_regs
<1>8. a6 \in Seq(I) /\ Len(a6) = Words(v) - 5 /\ (Words(v) = 6 => a6[1] = OpN("add", 1))
  <2>1. OpN("add", 1) \in I
    BY <1>1, PushedRegisters DEF Opcodes
  <2> HIDE DEF I
  <2> QED
    BY <2>1, StubKinds
<1>9. a7 \in Seq(I) /\ Len(a7) = (IF v = "gpf" THEN 1 ELSE 0) /\ (v = "gpf" => a7[1] = Op("sti"))
  <2>1. Op("sti") \in I
    BY <1>1, PushedRegisters DEF Opcodes
  <2> HIDE DEF I
  <2> QED
    BY <2>1
<1>10. a8 \in Seq(I) /\ Len(a8) = 1 /\ a8[1] = Op("iretq")
  <2>1. Op("iretq") \in I
    BY <1>1, PushedRegisters DEF Opcodes
  <2> HIDE DEF I
  <2> QED
    BY <2>1
<1> DEFINE c2 == a1 \o a2
           c3 == c2 \o push_regs
           c4 == c3 \o a4
           c5 == c4 \o pop_regs
           c6 == c5 \o a6
           c7 == c6 \o a7
           c8 == c7 \o a8
<1>11. Code(v) = c8
  BY DEF Code
<1> HIDE DEF a1, a2, a4, a6, a7, a8, I
<1>0. PICK b \in {1, 2}, w \in {5, 6}, g \in {0, 1}, l \in Nat :
         /\ b = Before(v) /\ w = Words(v) /\ l = LastPlace(v)
         /\ g = (IF v = "gpf" THEN 1 ELSE 0) /\ l = 33 + w + g /\ (g = 1 => w = 6)
  <2>1. Before(v) \in {1, 2} /\ Words(v) \in {5, 6} /\ (v = "gpf" => Words(v) = 6)
    BY StubKinds
  <2> QED
    BY <2>1 DEF LastPlace
<1>12. c2 \in Seq(I) /\ Len(c2) = 1 + (b - 1) /\ (\A i \in 1 .. 1 : c2[i] = a1[i])
       /\ \A j \in 1 .. (b - 1) : c2[1 + j] = a2[j]
  <2>1. IsPart(a1, I, 1) /\ IsPart(a2, I, b - 1)
    BY <1>0, <1>3, <1>4 DEF IsPart
  <2>2. IsJoin(c2, a1, a2, I, 1, b - 1)
    BY <2>1, Joined, Zenon
  <2> HIDE DEF c2
  <2> QED
    BY <2>2, Zenon DEF IsJoin
<1> HIDE DEF c2
<1>31. Len(c2) = b
  BY <1>12
<1>13. /\ c3 \in Seq(I) /\ Len(c3) = b + 15
       /\ \A i \in 1 .. b : c3[i] = c2[i]
       /\ \A j \in 1 .. 15 : c3[b + j] = push_regs[j]
  <2>1. IsPart(c2, I, b) /\ IsPart(push_regs, I, 15)
    BY <1>0, <1>5, <1>12, <1>31 DEF IsPart
  <2>2. IsJoin(c3, c2, push_regs, I, b, 15)
    BY <2>1, Joined, Zenon
  <2> HIDE DEF c3
  <2> QED
    BY <2>2, Zenon DEF IsJoin
<1> HIDE DEF c3
<1>14. /\ c4 \in Seq(I) /\ Len(c4) = b + 15 + 7
       /\ \A i \in 1 .. b + 15 : c4[i] = c3[i]
       /\ \A j \in 1 .. 7 : c4[b + 15 + j] = a4[j]
  <2>1. IsPart(c3, I, b + 15) /\ IsPart(a4, I, 7)
    BY <1>0, <1>6, <1>13 DEF IsPart
  <2>2. IsJoin(c4, c3, a4, I, b + 15, 7)
    BY <2>1, Joined, Zenon
  <2> HIDE DEF c4
  <2> QED
    BY <2>2, Zenon DEF IsJoin
<1> HIDE DEF c4
<1>15. /\ c5 \in Seq(I) /\ Len(c5) = b + 15 + 7 + 15
       /\ \A i \in 1 .. b + 15 + 7 : c5[i] = c4[i]
       /\ \A j \in 1 .. 15 : c5[b + 15 + 7 + j] = pop_regs[j]
  <2>1. IsPart(c4, I, b + 15 + 7) /\ IsPart(pop_regs, I, 15)
    BY <1>0, <1>7, <1>14 DEF IsPart
  <2>2. IsJoin(c5, c4, pop_regs, I, b + 15 + 7, 15)
    BY <2>1, Joined, Zenon
  <2> HIDE DEF c5
  <2> QED
    BY <2>2, Zenon DEF IsJoin
<1> HIDE DEF c5
<1>16. /\ c6 \in Seq(I) /\ Len(c6) = b + 15 + 7 + 15 + (w - 5)
       /\ \A i \in 1 .. b + 15 + 7 + 15 : c6[i] = c5[i]
       /\ \A j \in 1 .. (w - 5) : c6[b + 15 + 7 + 15 + j] = a6[j]
  <2>1. IsPart(c5, I, b + 15 + 7 + 15) /\ IsPart(a6, I, (w - 5))
    BY <1>0, <1>8, <1>15 DEF IsPart
  <2>2. IsJoin(c6, c5, a6, I, b + 15 + 7 + 15, (w - 5))
    BY <2>1, Joined, Zenon
  <2> HIDE DEF c6
  <2> QED
    BY <2>2, Zenon DEF IsJoin
<1> HIDE DEF c6
<1>17. /\ c7 \in Seq(I) /\ Len(c7) = b + 15 + 7 + 15 + (w - 5) + g
       /\ \A i \in 1 .. b + 15 + 7 + 15 + (w - 5) : c7[i] = c6[i]
       /\ \A j \in 1 .. g : c7[b + 15 + 7 + 15 + (w - 5) + j] = a7[j]
  <2>1. IsPart(c6, I, b + 15 + 7 + 15 + (w - 5)) /\ IsPart(a7, I, g)
    BY <1>0, <1>9, <1>16 DEF IsPart
  <2>2. IsJoin(c7, c6, a7, I, b + 15 + 7 + 15 + (w - 5), g)
    BY <2>1, Joined, Zenon
  <2> HIDE DEF c7
  <2> QED
    BY <2>2, Zenon DEF IsJoin
<1> HIDE DEF c7
<1>18. /\ c8 \in Seq(I) /\ Len(c8) = b + 15 + 7 + 15 + (w - 5) + g + 1
       /\ \A i \in 1 .. b + 15 + 7 + 15 + (w - 5) + g : c8[i] = c7[i]
       /\ \A j \in 1 .. 1 : c8[b + 15 + 7 + 15 + (w - 5) + g + j] = a8[j]
  <2>1. IsPart(c7, I, b + 15 + 7 + 15 + (w - 5) + g) /\ IsPart(a8, I, 1)
    BY <1>0, <1>10, <1>17 DEF IsPart
  <2>2. IsJoin(c8, c7, a8, I, b + 15 + 7 + 15 + (w - 5) + g, 1)
    BY <2>1, Joined, Zenon
  <2> HIDE DEF c8
  <2> QED
    BY <2>2, Zenon DEF IsJoin
<1> HIDE DEF c8
<1>19. ASSUME NEW i \in 1 .. b + 15 + 7 + 15 PROVE c8[i] = c5[i]
  <2>1. i \in 1 .. b + 15 + 7 + 15 + (w - 5) /\ i \in 1 .. b + 15 + 7 + 15 + (w - 5) + g
    OBVIOUS
  <2> QED
    BY <1>16, <1>17, <1>18, <2>1, Zenon
<1>20. ASSUME NEW i \in 1 .. b + 15 + 7 PROVE c8[i] = c4[i]
  <2>1. i \in 1 .. b + 15 + 7 + 15
    OBVIOUS
  <2> QED
    BY <1>15, <1>19, <2>1, Zenon
<1>21. ASSUME NEW i \in 1 .. b + 15 PROVE c8[i] = c3[i]
  <2>1. i \in 1 .. b + 15 + 7
    OBVIOUS
  <2> QED
    BY <1>14, <1>20, <2>1, Zenon
<1>22. c8[1] = a1[1] /\ (b = 2 => c8[2] = a2[1])
  <2>1. c8[1] = c2[1] /\ c2[1] = a1[1]
    <3>1. 1 \in 1 .. b /\ 1 \in 1 .. b + 15 /\ 1 \in 1 .. 1
      OBVIOUS
    <3>2. c2[1] = a1[1]
      BY <1>12, <3>1
    <3>3. c3[1] = c2[1]
      BY <1>13, <3>1
    <3> QED
      BY <1>21, <3>1, <3>2, <3>3
  <2>2. ASSUME b = 2 PROVE c8[2] = a2[1]
    <3>1. 2 \in 1 .. b /\ 2 \in 1 .. b + 15 /\ 1 \in 1 .. (b - 1) /\ 1 + 1 = 2
      BY <2>2
    <3>2. c2[1 + 1] = a2[1]
      BY <1>12, <3>1
    <3>3. c3[2] = c2[2]
      BY <1>13, <3>1
    <3> QED
      BY <1>21, <3>1, <3>2, <3>3
  <2> QED
    BY <2>1, <2>2
<1>23. ASSUME NEW j \in 1 .. 15 PROVE c8[b + j] = OpR("push", Pushed[j])
  <2>1. b + j \in 1 .. b + 15
    OBVIOUS
  <2> QED
    BY <1>5, <1>13, <1>21, <2>1, ZenonT(60)
<1>24. ASSUME NEW j \in 1 .. 7 PROVE c8[b + 15 + j] = a4[j]
  <2>1. b + 15 + j \in 1 .. b + 15 + 7
    OBVIOUS
  <2> QED
    BY <1>14, <1>20, <2>1, Zenon
<1>25. ASSUME NEW j \in 1 .. 15 PROVE c8[b + 22 + j] = OpR("pop", Pushed[16 - j])
  <2>1. b + 15 + 7 + j \in 1 .. b + 15 + 7 + 15 /\ b + 22 + j = b + 15 + 7 + j
    OBVIOUS
  <2>2. c8[b + 15 + 7 + j] = OpR("pop", Pushed[16 - j])
    BY <1>7, <1>15, <1>19, <2>1, ZenonT(60)
  <2> QED
    BY <2>1, <2>2, Zenon
<1>26. ASSUME w = 6 PROVE c8[b + 38] = OpN("add", 1)
  <2>1. /\ 1 \in 1 .. (w - 5) /\ b + 38 = b + 15 + 7 + 15 + 1
        /\ b + 15 + 7 + 15 + 1 \in 1 .. b + 15 + 7 + 15 + (w - 5)
        /\ b + 15 + 7 + 15 + 1 \in 1 .. b + 15 + 7 + 15 + (w - 5) + g
    BY <1>26
  <2>2. c8[b + 15 + 7 + 15 + 1] = a6[1]
    BY <1>16, <1>17, <1>18, <2>1, ZenonT(60)
  <2> QED
    BY <1>0, <1>8, <1>26, <2>1, <2>2, Zenon
<1>27. ASSUME g = 1 PROVE c8[b + 39] = Op("sti")
  <2>1. w = 6 /\ v = "gpf"
    BY <1>0, <1>27
  <2>2. /\ 1 \in 1 .. g /\ b + 39 = b + 15 + 7 + 15 + (w - 5) + 1
        /\ b + 15 + 7 + 15 + (w - 5) + 1 \in 1 .. b + 15 + 7 + 15 + (w - 5) + g
    BY <1>27, <2>1
  <2>3. c8[b + 15 + 7 + 15 + (w - 5) + 1] = a7[1]
    BY <1>17, <1>18, <2>2, Zenon
  <2> QED
    BY <1>9, <2>1, <2>2, <2>3, Zenon
<1>28. /\ c8[b + 16] = Op("cr2") /\ c8[b + 17] = OpR("push", "rax")
       /\ c8[b + 18] = OpN("pushc", Number[v]) /\ c8[b + 19] = Op("rdi")
       /\ c8[b + 20] = Op("call") /\ c8[b + 21] = Op("handler")
       /\ c8[b + 22] = OpN("add", 2)
  <2>1. /\ b + 16 = b + 15 + 1 /\ b + 17 = b + 15 + 2 /\ b + 18 = b + 15 + 3
        /\ b + 19 = b + 15 + 4 /\ b + 20 = b + 15 + 5 /\ b + 21 = b + 15 + 6
        /\ b + 22 = b + 15 + 7
    OBVIOUS
  <2>2. 1 \in 1 .. 7 /\ 2 \in 1 .. 7 /\ 3 \in 1 .. 7 /\ 4 \in 1 .. 7 /\ 5 \in 1 .. 7
        /\ 6 \in 1 .. 7 /\ 7 \in 1 .. 7
    OBVIOUS
  <2> QED
    BY <1>6, <1>24, <2>1, <2>2, Zenon
<1>29. Len(c8) = b + l /\ c8[b + l] = Op("iretq")
  <2>1. b + l = b + 15 + 7 + 15 + (w - 5) + g + 1 /\ 1 \in 1 .. 1
    BY <1>0
  <2> QED
    BY <1>10, <1>18, <2>1, Zenon
<1>30. v = "gpf" => g = 1
  BY <1>0
<1> QED
  BY <1>0, <1>3, <1>4, <1>11, <1>22, <1>23, <1>25, <1>26, <1>27, <1>28, <1>29, <1>30, Zenon
----------------------------------------------------------------------------
(* Registers                                                               *)

\* Each register is pushed once, by push_regs or by the processor.
LEMMA RegisterNames ==
  /\ Frame[1] = "rip" /\ Frame[2] = "cs" /\ Frame[3] = "rflags"
  /\ Frame[4] = "rsp" /\ Frame[5] = "ss"
  /\ Registers = GPR \cup {"rip", "cs", "rflags", "rsp", "ss"}
  /\ \A x \in GPR : \E j \in 1 .. 15 : x = Pushed[j]
<1>1. DOMAIN Frame = 1 .. 5
  BY DEF Frame
<1>2. /\ Frame[1] = "rip" /\ Frame[2] = "cs" /\ Frame[3] = "rflags"
      /\ Frame[4] = "rsp" /\ Frame[5] = "ss"
  BY DEF Frame
<1>3. Range(Frame) = {"rip", "cs", "rflags", "rsp", "ss"}
  <2>1. \A j \in 1 .. 5 : j = 1 \/ j = 2 \/ j = 3 \/ j = 4 \/ j = 5
    OBVIOUS
  <2>2. 1 \in 1 .. 5 /\ 2 \in 1 .. 5 /\ 3 \in 1 .. 5 /\ 4 \in 1 .. 5 /\ 5 \in 1 .. 5
    OBVIOUS
  <2>3. Range(Frame) = {Frame[j] : j \in 1 .. 5}
    BY <1>1 DEF Range
  <2> QED
    BY <1>2, <2>1, <2>2, <2>3
<1>4. \A x \in GPR : \E j \in 1 .. 15 : x = Pushed[j]
  BY PushedRegisters DEF GPR, Range
<1> QED
  BY <1>2, <1>3, <1>4 DEF Registers

\* push_regs has no register twice, and none of those the processor pushes.
LEMMA PushedOnce ==
  /\ \A i \in 1 .. 15, j \in 1 .. 15 : Pushed[i] = Pushed[j] => i = j
  /\ \A j \in 1 .. 15 : Pushed[j] \notin {"rip", "cs", "rflags", "rsp", "ss"}
<1>1. /\ Pushed[1] = "rax" /\ Pushed[2] = "rcx" /\ Pushed[3] = "rdx" /\ Pushed[4] = "rbx"
      /\ Pushed[5] = "rbp" /\ Pushed[6] = "rsi" /\ Pushed[7] = "rdi" /\ Pushed[8] = "r8"
      /\ Pushed[9] = "r9" /\ Pushed[10] = "r10" /\ Pushed[11] = "r11" /\ Pushed[12] = "r12"
      /\ Pushed[13] = "r13" /\ Pushed[14] = "r14" /\ Pushed[15] = "r15"
  BY DEF Pushed
<1>2. \A j \in 1 .. 15 : \/ j = 1 \/ j = 2 \/ j = 3 \/ j = 4 \/ j = 5 \/ j = 6 \/ j = 7 \/ j = 8
                         \/ j = 9 \/ j = 10 \/ j = 11 \/ j = 12 \/ j = 13 \/ j = 14 \/ j = 15
  OBVIOUS
<1>3. \A j \in 1 .. 15 : Pushed[j] \notin {"rip", "cs", "rflags", "rsp", "ss"}
  BY <1>1, <1>2
<1>4. ASSUME NEW i \in 1 .. 15, NEW j \in 1 .. 15, Pushed[i] = Pushed[j] PROVE i = j
  BY <1>1, <1>2, <1>4, SMT
<1> QED
  BY <1>3, <1>4

\* GPR is apart from the five registers of the processor's frame.
LEMMA FrameNotGPR ==
  /\ "rip" \notin GPR /\ "cs" \notin GPR /\ "rflags" \notin GPR /\ "rsp" \notin GPR /\ "ss" \notin GPR
  /\ GPR \subseteq Registers
  /\ "rip" \in Registers /\ "cs" \in Registers /\ "rflags" \in Registers
  /\ "rsp" \in Registers /\ "ss" \in Registers /\ "rdi" \in Registers /\ "rax" \in Registers
<1>1. \A x \in GPR : x \notin {"rip", "cs", "rflags", "rsp", "ss"}
  BY PushedOnce, RegisterNames, Zenon
<1> QED
  BY <1>1, RegisterNames, PushedRegisters

----------------------------------------------------------------------------
(* Where the processor is                                                  *)

\* No two gates have the same number.
LEMMA NumbersDiffer ==
  ASSUME NEW u \in AllVectors, NEW v \in AllVectors, Number[u] = Number[v]
  PROVE  u = v
<1>1. /\ Number["isr80"] = 0 /\ Number["gpf"] = 1 /\ Number["page_fault"] = 2
      /\ Number["invalid_opcode"] = 3 /\ Number["timer"] = 4 /\ Number["sync_time"] = 5
      /\ Number["keyboard"] = 6 /\ Number["ahci"] = 7 /\ Number["floppy"] = 8
  BY DEF Number
<1>2. AllVectors = {"isr80", "gpf", "page_fault", "invalid_opcode", "timer", "sync_time",
                    "keyboard", "ahci", "floppy"}
  BY DEF AllVectors, IRQs
<1> QED
  BY <1>1, <1>2

\* At place p of stub v the processor is at instruction Before(v) + p of it.
LEMMA HereIs ==
  ASSUME NEW v \in Stubs, NEW p, p = Place(v, reg), p \in 1 - Before(v) .. LastPlace(v),
         reg \in [Registers -> Int]
  PROVE  /\ InStub /\ Here = v
         /\ reg["rip"] % 100 = Before(v) + p
         /\ Instruction = Code(v)[Before(v) + p]
         /\ reg["rip"] = At(v, Before(v) + p)
<1>1. PICK b \in {1, 2}, l \in {38, 39, 40}, n \in 0 .. 8 :
        b = Before(v) /\ l = LastPlace(v) /\ n = Number[v]
  BY StubKinds
<1>2. PICK rip \in Int : rip = reg["rip"]
  BY FrameNotGPR
<1>3. p = rip - (1000 + 100 * n + b)
  BY <1>1, <1>2 DEF Place, At
<1>4. p \in 1 - b .. l
  BY <1>1
<1>5. rip >= 1000 /\ (rip - 1000) \div 100 = n /\ rip % 100 = b + p /\ rip = 1000 + 100 * n + (b + p)
  BY <1>3, <1>4
<1>6. Here = v
  <2>1. v \in AllVectors /\ Number[v] = (reg["rip"] - 1000) \div 100
    BY <1>1, <1>2, <1>5, StubKinds
  <2>2. Here \in AllVectors /\ Number[Here] = (reg["rip"] - 1000) \div 100
    BY <2>1 DEF Here
  <2>3. Number[Here] = Number[v]
    BY <2>1, <2>2
  <2> HIDE DEF Here
  <2> QED
    BY <2>1, <2>2, <2>3, NumbersDiffer
<1>7. reg["rip"] % 100 = Before(v) + p /\ reg["rip"] = At(v, Before(v) + p)
  BY <1>1, <1>2, <1>5 DEF At
<1>8. InStub
  BY <1>2, <1>5 DEF InStub
<1> QED
  BY <1>6, <1>7, <1>8, Zenon DEF Instruction
----------------------------------------------------------------------------
(* A stub's words                                                          *)

\* A stub has 5 to 24 words on the stack, the registers it has pushed among them.
LEMMA Depths ==
  ASSUME NEW v \in Stubs, NEW p \in 1 - Before(v) .. LastPlace(v)
  PROVE  /\ Depth(v, p) \in 5 .. 24
         /\ \A j \in 1 .. 15 : OnStack(p, j) => Words(v) + j <= Depth(v, p)
         /\ p <= 0 /\ v \in HasError => Depth(v, p) = 6
<1>1. PICK b \in {1, 2}, l \in {38, 39, 40}, w \in {5, 6} :
        b = Before(v) /\ l = LastPlace(v) /\ w = Words(v)
  BY StubKinds
<1>2. p \in Int /\ p >= -1 /\ p <= 40
  BY <1>1
<1>3. Depth(v, p) \in 5 .. 24
  BY <1>1, <1>2 DEF Depth
<1>4. \A j \in 1 .. 15 : OnStack(p, j) => w + j <= Depth(v, p)
  BY <1>1, <1>2 DEF Depth, OnStack
<1>5. p <= 0 /\ v \in HasError => Depth(v, p) = 6
  BY <1>2 DEF Depth
<1> QED
  BY <1>1, <1>3, <1>4, <1>5

\* A stub's stack pointer is 5 to 24 words below its base.
LEMMA BaseIs ==
  ASSUME NEW v \in Stubs, NEW r \in [Registers -> Int],
         Place(v, r) \in 1 - Before(v) .. LastPlace(v)
  PROVE  /\ Place(v, r) \in Int /\ Base(v, r) \in Int /\ r["rsp"] \in Int /\ r["rip"] \in Int
         /\ r["rsp"] = Base(v, r) - Depth(v, Place(v, r))
         /\ Depth(v, Place(v, r)) \in 5 .. 24
<1>1. r["rsp"] \in Int /\ r["rip"] \in Int
  BY FrameNotGPR
<1>2. Place(v, r) \in Int
  BY <1>1, StubKinds DEF Place, At
<1>3. Depth(v, Place(v, r)) \in 5 .. 24
  BY Depths
<1>4. PICK d \in 5 .. 24 : d = Depth(v, Place(v, r))
  BY <1>3
<1> QED
  BY <1>1, <1>2, <1>3, <1>4 DEF Base

\* What is written elsewhere does not matter to a stub.
LEMMA LevelKept ==
  ASSUME NEW v \in Stubs, NEW r \in [Registers -> Int], NEW t, NEW mem, NEW mem2,
         Level(v, r, t, mem),
         \A a \in Int : r["rsp"] <= a /\ a < Base(v, r) => mem2[a] = mem[a]
  PROVE  Level(v, r, t, mem2)
<1>0. PICK p \in Int, base \in Int, rsp \in Int, d \in 5 .. 24 :
        /\ p = Place(v, r) /\ base = Base(v, r) /\ rsp = r["rsp"] /\ d = Depth(v, p)
        /\ rsp = base - d
        /\ p \in 1 - Before(v) .. LastPlace(v)
  <2>1. Place(v, r) \in 1 - Before(v) .. LastPlace(v)
    BY DEF Level, LevelAt
  <2> QED
    BY <2>1, BaseIs
<1>1. PICK w \in {5, 6} : w = Words(v)
  BY StubKinds
<1>2. LevelAt(v, p, base, r, t, mem)
  BY <1>0, Zenon DEF Level
<1>3. \A a \in rsp .. base - 1 : mem2[a] = mem[a]
  BY <1>0
<1>4. ASSUME NEW j \in 1 .. 5 PROVE mem2[base - 6 + j] = t[Frame[j]]
  <2>1. base - 6 + j \in rsp .. base - 1
    BY <1>0
  <2> QED
    BY <1>2, <1>3, <2>1, Zenon DEF LevelAt
<1>5. ASSUME NEW j \in 1 .. 15, OnStack(p, j) PROVE mem2[base - Words(v) - j] = t[Pushed[j]]
  <2>1. w + j <= d
    BY <1>0, <1>1, <1>5, Depths
  <2>2. base - w - j \in rsp .. base - 1
    BY <1>0, <2>1
  <2>3. mem[base - Words(v) - j] = t[Pushed[j]]
    BY <1>2, <1>5, Zenon DEF LevelAt
  <2> QED
    BY <1>1, <1>3, <2>2, <2>3, Zenon
<1>6. ASSUME p <= 0, v \in HasError PROVE mem2[base - 6] # KERNEL_CS
  <2>1. d = 6
    BY <1>0, <1>6, Depths
  <2>2. base - 6 \in rsp .. base - 1
    BY <1>0, <2>1
  <2>3. mem[base - 6] # KERNEL_CS
    BY <1>2, <1>6, Zenon DEF LevelAt
  <2> QED
    BY <1>3, <2>2, <2>3, Zenon
<1>7. ASSUME p = 21 PROVE mem2[r["rsp"]] = r["rip"] + 1
  <2>1. rsp \in rsp .. base - 1
    BY <1>0
  <2>2. mem[r["rsp"]] = r["rip"] + 1
    BY <1>2, <1>7, Zenon DEF LevelAt
  <2> QED
    BY <1>0, <1>3, <2>1, <2>2, Zenon
<1>8. LevelAt(v, p, base, r, t, mem2)
  BY <1>2, <1>4, <1>5, <1>6, <1>7, Zenon DEF LevelAt
<1> QED
  BY <1>0, <1>8, Zenon DEF Level

\* From r to r2 the stack pointer moved by d, and only the registers X changed.
Moved(r, r2, d, X) ==
  /\ r2 \in [Registers -> Int]
  /\ r2["rip"] = r["rip"] + 1 /\ r2["rsp"] = r["rsp"] + d
  /\ \A x \in Registers \ X : x # "rip" /\ x # "rsp" => r2[x] = r[x]

\* From mem to mem2 only the word a changed.
Wrote(mem, mem2, a) ==
  /\ mem2 \in [Address -> Int]
  /\ \A x \in Address : x # a => mem2[x] = mem[x]

\* A stack with room for a stub below base.
Fits(base) == base \in Int /\ base - 25 >= 0 /\ base <= BOOT

\* What an instruction at place p has to do so that the next one finds its
\* registers where it expects them.
Advances(v, p, base, r2, t, mem2, X) ==
  /\ p + 1 <= LastPlace(v)
  /\ \A j \in 1 .. 15 : OnStack(p + 1, j) /\ ~OnStack(p, j) => mem2[base - Words(v) - j] = t[Pushed[j]]
  /\ \A j \in 1 .. 15 : InPlace(p + 1, j) /\ (~InPlace(p, j) \/ Pushed[j] \in X) => r2[Pushed[j]] = t[Pushed[j]]
  /\ r2["cs"] = KERNEL_CS /\ r2["rflags"] \in {0, 1} /\ (v = "sync_time" => r2["rflags"] = 0)
  /\ p + 1 = 20 => r2["rdi"] = r2["rsp"]
  /\ p + 1 = 21 => r2["rdi"] = r2["rsp"] + 1 /\ mem2[r2["rsp"]] = r2["rip"] + 1
\* An instruction that advances leaves the stub as it should be, at its next place.
LEMMA LevelAdvances ==
  ASSUME NEW v \in Stubs, NEW r \in [Registers -> Int], NEW t, NEW mem, NEW mem2, NEW r2,
         NEW d \in Int, NEW X, NEW p, NEW base,
         Level(v, r, t, mem), p = Place(v, r), base = Base(v, r), Fits(base),
         Moved(r, r2, d, X), Wrote(mem, mem2, r["rsp"] - 1),
         Depth(v, p + 1) = Depth(v, p) - d,
         Advances(v, p, base, r2, t, mem2, X)
  PROVE  Level(v, r2, t, mem2) /\ Place(v, r2) = p + 1 /\ Base(v, r2) = base
<1>0. PICK rsp \in Int, rip \in Int, e \in 5 .. 24 :
        /\ rsp = r["rsp"] /\ rip = r["rip"] /\ e = Depth(v, p)
        /\ rsp = base - e /\ p \in Int /\ base \in Int
        /\ p \in 1 - Before(v) .. LastPlace(v)
  <2>1. p \in 1 - Before(v) .. LastPlace(v)
    BY DEF Level, LevelAt
  <2> QED
    BY <2>1, BaseIs
<1>1. PICK w \in {5, 6}, b \in {1, 2}, l \in {38, 39, 40} :
        w = Words(v) /\ b = Before(v) /\ l = LastPlace(v)
  BY StubKinds
<1>2. LevelAt(v, p, base, r, t, mem)
  BY Zenon DEF Level
<1>3. \A a \in rsp .. base - 1 : mem2[a] = mem[a]
  <2>1. \A a \in rsp .. base - 1 : a \in Address /\ a # rsp - 1
    <3>1. PICK m \in Int : m = BOOT /\ base <= m
      BY InterruptStubsAssumption DEF Fits, BOOT
    <3>2. rsp >= 0
      BY <1>0 DEF Fits
    <3> QED
      BY <1>0, <3>1, <3>2 DEF Address
  <2> QED
    BY <1>0, <2>1, Zenon DEF Wrote
<1>4. /\ r2["rip"] = rip + 1 /\ r2["rsp"] = rsp + d
  BY <1>0, Zenon DEF Moved
<1>5. Place(v, r2) = p + 1
  <2>1. PICK n \in 0 .. 8 : n = Number[v]
    BY StubKinds
  <2>2. p = rip - (1000 + 100 * n + b)
    BY <1>0, <1>1, <2>1 DEF Place, At
  <2>3. Place(v, r2) = (rip + 1) - (1000 + 100 * n + b)
    BY <1>1, <1>4, <2>1 DEF Place, At
  <2> QED
    BY <2>2, <2>3
<1>6. Base(v, r2) = base
  <2>1. Base(v, r2) = (rsp + d) + (e - d)
    BY <1>0, <1>4, <1>5, Zenon DEF Base
  <2> QED
    BY <1>0, <2>1
<1>7. p + 1 \in 1 - Before(v) .. LastPlace(v)
  BY <1>0, <1>1 DEF Advances
<1>8. ASSUME NEW j \in 1 .. 5 PROVE mem2[base - 6 + j] = t[Frame[j]]
  <2>1. base - 6 + j \in rsp .. base - 1
    BY <1>0
  <2> QED
    BY <1>2, <1>3, <2>1, Zenon DEF LevelAt
<1>9. ASSUME NEW j \in 1 .. 15, OnStack(p + 1, j) PROVE mem2[base - Words(v) - j] = t[Pushed[j]]
  <2>1. CASE ~OnStack(p, j)
    BY <1>9, <2>1, Zenon DEF Advances
  <2>2. CASE OnStack(p, j)
    <3>1. w + j <= e
      BY <1>0, <1>1, <2>2, Depths
    <3>2. base - w - j \in rsp .. base - 1
      BY <1>0, <3>1
    <3>3. mem[base - Words(v) - j] = t[Pushed[j]]
      BY <1>2, <2>2, Zenon DEF LevelAt
    <3> QED
      BY <1>1, <1>3, <3>2, <3>3, Zenon
  <2> QED
    BY <2>1, <2>2
<1>10. ASSUME NEW j \in 1 .. 15, InPlace(p + 1, j) PROVE r2[Pushed[j]] = t[Pushed[j]]
  <2>1. CASE ~InPlace(p, j) \/ Pushed[j] \in X
    BY <1>10, <2>1, Zenon DEF Advances
  <2>2. CASE InPlace(p, j) /\ Pushed[j] \notin X
    <3>1. Pushed[j] \in Registers /\ Pushed[j] # "rip" /\ Pushed[j] # "rsp"
      BY PushedRegisters, PushedOnce, FrameNotGPR
    <3>2. r2[Pushed[j]] = r[Pushed[j]]
      BY <2>2, <3>1, Zenon DEF Moved
    <3> QED
      BY <1>2, <2>2, <3>2, Zenon DEF LevelAt
  <2> QED
    BY <2>1, <2>2
<1>11. ASSUME p + 1 <= 0, v \in HasError PROVE mem2[base - 6] # KERNEL_CS
  <2>1. p <= 0
    BY <1>0, <1>11
  <2>2. e = 6
    BY <1>0, <1>11, <2>1, Depths
  <2>3. base - 6 \in rsp .. base - 1
    BY <1>0, <2>2
  <2>4. mem[base - 6] # KERNEL_CS
    BY <1>2, <1>11, <2>1, Zenon DEF LevelAt
  <2> QED
    BY <1>3, <2>3, <2>4, Zenon
<1>12. LevelAt(v, p + 1, base, r2, t, mem2)
  BY <1>7, <1>8, <1>9, <1>10, <1>11, Zenon DEF LevelAt, Advances
<1> QED
  BY <1>5, <1>6, <1>12, Zenon DEF Level
----------------------------------------------------------------------------
(* What the instructions do                                                *)

Machine(r, mem) == [reg |-> r, ram |-> mem]

\* E is the machine r, mem with w pushed, at the next instruction.
Pushes(r, mem, E, w) ==
  /\ Moved(r, E.reg, -1, {})
  /\ Wrote(mem, E.ram, r["rsp"] - 1)
  /\ r["rsp"] - 1 \in Address => E.ram[r["rsp"] - 1] = w

\* E is the machine r, mem with the register x set to val and the stack
\* pointer moved by d, at the next instruction.
Sets(r, mem, E, d, x, val) ==
  /\ Moved(r, E.reg, d, {x})
  /\ Wrote(mem, E.ram, r["rsp"] - 1)
  /\ E.ram = mem
  /\ x # "none" => E.reg[x] = val

\* A push.
LEMMA PushEffect ==
  ASSUME NEW r \in [Registers -> Int], NEW mem \in [Address -> Int], NEW w \in Int,
         NEW next, next.reg = [r EXCEPT !["rip"] = @ + 1], next.ram = mem
  PROVE  Pushes(r, mem, Push(next, w), w)
<1> DEFINE E == Push(next, w)
<1>1. PICK rsp \in Int, rip \in Int : rsp = r["rsp"] /\ rip = r["rip"]
  BY FrameNotGPR
<1>2. next.reg \in [Registers -> Int] /\ next.reg["rsp"] = rsp /\ next.reg["rip"] = rip + 1
      /\ \A x \in Registers : x # "rip" => next.reg[x] = r[x]
  BY <1>1, FrameNotGPR
<1>3. E.reg = [next.reg EXCEPT !["rsp"] = rsp - 1] /\ E.ram = [mem EXCEPT ![rsp - 1] = w]
  BY <1>2 DEF Push
<1> HIDE DEF E
<1>4. PICK s \in Int : s = rsp - 1
  BY <1>1
<1>5. E.reg = [next.reg EXCEPT !["rsp"] = s] /\ E.ram = [mem EXCEPT ![s] = w]
  BY <1>3, <1>4, Zenon
<1>6. E.reg \in [Registers -> Int] /\ E.reg["rsp"] = s /\ E.reg["rip"] = rip + 1
      /\ \A x \in Registers : x # "rip" /\ x # "rsp" => E.reg[x] = r[x]
  BY <1>2, <1>5, FrameNotGPR
<1>7. E.ram \in [Address -> Int] /\ (s \in Address => E.ram[s] = w)
      /\ \A a \in Address : a # s => E.ram[a] = mem[a]
  BY <1>5
<1>8. s = r["rsp"] + (-1) /\ s = r["rsp"] - 1
  BY <1>1, <1>4
<1>9. Moved(r, E.reg, -1, {})
  BY <1>1, <1>6, <1>8 DEF Moved
<1>10. Wrote(mem, E.ram, r["rsp"] - 1) /\ (r["rsp"] - 1 \in Address => E.ram[r["rsp"] - 1] = w)
  BY <1>7, <1>8, Zenon DEF Wrote
<1>11. Pushes(r, mem, E, w)
  BY <1>9, <1>10, Zenon DEF Pushes
<1> QED
  BY <1>11 DEF E

\* push and call.
LEMMA PushEffects ==
  ASSUME NEW r \in [Registers -> Int], NEW mem \in [Address -> Int]
  PROVE  /\ \A x \in Registers :
              Pushes(r, mem, Executed(Machine(r, mem), OpR("push", x)), r[x])
         /\ \A n \in Int :
              Pushes(r, mem, Executed(Machine(r, mem), OpN("pushc", n)), n)
         /\ Pushes(r, mem, Executed(Machine(r, mem), Op("call")), r["rip"] + 2)
<1> DEFINE m == Machine(r, mem)
           next == [m EXCEPT !.reg["rip"] = @ + 1]
<1>1. next.reg = [r EXCEPT !["rip"] = @ + 1] /\ next.ram = mem /\ m.reg = r
  BY DEF Machine
<1>2. next.reg["rip"] + 1 = r["rip"] + 2 /\ r["rip"] + 2 \in Int
  BY <1>1, FrameNotGPR
<1>3. /\ \A x \in Registers : Executed(m, OpR("push", x)) = Push(next, m.reg[x])
      /\ \A n \in Int : Executed(m, OpN("pushc", n)) = Push(next, n)
      /\ Executed(m, Op("call")) = Push(next, next.reg["rip"] + 1)
  <2> HIDE DEF m
  <2>1. \A x \in Registers : Executed(m, OpR("push", x)) = Push(next, m.reg[x])
    BY DEF Executed, OpR
  <2>2. \A n \in Int : Executed(m, OpN("pushc", n)) = Push(next, n)
    BY DEF Executed, OpN
  <2>3. Executed(m, Op("call")) = Push(next, next.reg["rip"] + 1)
    BY DEF Executed, Op
  <2> QED
    BY <2>1, <2>2, <2>3
<1> HIDE DEF next
<1>4. \A w \in Int : Pushes(r, mem, Push(next, w), w)
  BY <1>1, PushEffect, Zenon
<1>5. \A x \in Registers : r[x] \in Int
  OBVIOUS
<1> HIDE DEF m
<1>6. \A x \in Registers : Pushes(r, mem, Executed(m, OpR("push", x)), r[x])
  BY <1>1, <1>3, <1>4, <1>5, Zenon
<1>7. \A n \in Int : Pushes(r, mem, Executed(m, OpN("pushc", n)), n)
  BY <1>3, <1>4, Zenon
<1>8. Pushes(r, mem, Executed(m, Op("call")), r["rip"] + 2)
  BY <1>2, <1>3, <1>4, Zenon
<1> QED
  BY <1>6, <1>7, <1>8 DEF m
\* q is r at the next instruction, with x set to val if it is a register, and
\* the stack pointer moved by d.
NextRegisters(r, q, d, x, val) ==
  \/ x # "none" /\ q = [r EXCEPT !["rip"] = r["rip"] + 1, ![x] = val, !["rsp"] = r["rsp"] + d]
  \/ x # "none" /\ d = 0 /\ q = [r EXCEPT !["rip"] = r["rip"] + 1, ![x] = val]
  \/ x = "none" /\ q = [r EXCEPT !["rip"] = r["rip"] + 1, !["rsp"] = r["rsp"] + d]
  \/ x = "none" /\ d = 0 /\ q = [r EXCEPT !["rip"] = r["rip"] + 1]

\* An instruction that sets one register, and may move the stack pointer.
LEMMA SetEffect ==
  ASSUME NEW r \in [Registers -> Int], NEW mem \in [Address -> Int], NEW d \in Int,
         NEW x \in GPR \cup {"rflags", "none"}, NEW val \in Int, NEW E,
         E.ram = mem, NextRegisters(r, E.reg, d, x, val)
  PROVE  Sets(r, mem, E, d, x, val)
<1>1. PICK rsp \in Int, rip \in Int : rsp = r["rsp"] /\ rip = r["rip"]
  BY FrameNotGPR
<1>2. PICK s \in Int, i \in Int : s = rsp + d /\ i = rip + 1
  BY <1>1
<1>3. "rip" \in Registers /\ "rsp" \in Registers /\ "rflags" \in Registers
      /\ x # "rip" /\ x # "rsp" /\ (x # "none" => x \in Registers)
  BY FrameNotGPR
<1>4. \/ x # "none" /\ E.reg = [r EXCEPT !["rip"] = i, ![x] = val, !["rsp"] = s]
      \/ x # "none" /\ d = 0 /\ E.reg = [r EXCEPT !["rip"] = i, ![x] = val]
      \/ x = "none" /\ E.reg = [r EXCEPT !["rip"] = i, !["rsp"] = s]
      \/ x = "none" /\ d = 0 /\ E.reg = [r EXCEPT !["rip"] = i]
  BY <1>1, <1>2, Zenon DEF NextRegisters
<1>5. d = 0 => s = rsp
  BY <1>1, <1>2
<1>6. /\ E.reg \in [Registers -> Int] /\ E.reg["rip"] = i /\ E.reg["rsp"] = s
      /\ x # "none" => E.reg[x] = val
      /\ \A y \in Registers : y # x /\ y # "rip" /\ y # "rsp" => E.reg[y] = r[y]
  <2>1. CASE x # "none" /\ E.reg = [r EXCEPT !["rip"] = i, ![x] = val, !["rsp"] = s]
    BY <1>3, <2>1
  <2>2. CASE x # "none" /\ d = 0 /\ E.reg = [r EXCEPT !["rip"] = i, ![x] = val]
    BY <1>1, <1>3, <1>5, <2>2
  <2>3. CASE x = "none" /\ E.reg = [r EXCEPT !["rip"] = i, !["rsp"] = s]
    BY <1>3, <2>3
  <2>4. CASE x = "none" /\ d = 0 /\ E.reg = [r EXCEPT !["rip"] = i]
    BY <1>1, <1>3, <1>5, <2>4
  <2> QED
    BY <1>4, <2>1, <2>2, <2>3, <2>4, Zenon
<1>7. Moved(r, E.reg, d, {x})
  BY <1>1, <1>2, <1>6, Zenon DEF Moved
<1>8. Wrote(mem, E.ram, r["rsp"] - 1)
  BY Zenon DEF Wrote
<1> QED
  BY <1>6, <1>7, <1>8, Zenon DEF Sets

\* The other instructions; check_cpl when the word on top is not the kernel's
\* code segment.
LEMMA SetEffects ==
  ASSUME NEW r \in [Registers -> Int], NEW mem \in [Address -> Int]
  PROVE  /\ mem[r["rsp"]] \in Int => \A x \in GPR :
              Sets(r, mem, Executed(Machine(r, mem), OpR("pop", x)), 1, x, mem[r["rsp"]])
         /\ \A n \in Int : Sets(r, mem, Executed(Machine(r, mem), OpN("add", n)), n, "none", 0)
         /\ Sets(r, mem, Executed(Machine(r, mem), Op("cr2")), 0, "rax", 0)
         /\ Sets(r, mem, Executed(Machine(r, mem), Op("rdi")), 0, "rdi", r["rsp"])
         /\ Sets(r, mem, Executed(Machine(r, mem), Op("sti")), 0, "rflags", 1)
         /\ mem[r["rsp"]] # KERNEL_CS =>
              \A c \in {"check_cpl", "check_cpl_err"} :
                Sets(r, mem, Executed(Machine(r, mem), Op(c)), 0, "none", 0)
<1> DEFINE m == Machine(r, mem)
           next == [m EXCEPT !.reg["rip"] = @ + 1]
<1>0. PICK rsp \in Int : rsp = r["rsp"]
  BY FrameNotGPR
<1>1. /\ next.reg = [r EXCEPT !["rip"] = r["rip"] + 1] /\ next.ram = mem
      /\ m.reg = r /\ m.ram = mem /\ next = [reg |-> next.reg, ram |-> next.ram]
  BY DEF Machine
<1>2. next.reg["rsp"] = rsp /\ Top(m, 0) = mem[r["rsp"]] /\ Top(next, 0) = mem[r["rsp"]]
  <2>1. next.reg["rsp"] = rsp
    BY <1>0, <1>1, FrameNotGPR
  <2>2. rsp + 0 = rsp
    BY <1>0
  <2> HIDE DEF m, next
  <2> QED
    BY <1>0, <1>1, <2>1, <2>2, Zenon DEF Top
<1>3. ASSUME NEW x \in GPR, mem[r["rsp"]] \in Int
      PROVE  Sets(r, mem, Executed(m, OpR("pop", x)), 1, x, mem[r["rsp"]])
  <2> DEFINE E == Executed(m, OpR("pop", x))
  <2>1. E = [next EXCEPT !.reg[x] = Top(m, 0), !.reg["rsp"] = @ + 1]
    <3> HIDE DEF m
    <3> QED
      BY DEF Executed, OpR
  <2>2. x # "rsp" /\ x # "rip"
    BY <1>3, FrameNotGPR
  <2>3. E.ram = mem /\ E.reg = [next.reg EXCEPT ![x] = Top(m, 0), !["rsp"] = rsp + 1]
    <3> HIDE DEF m, next, E
    <3> QED
      BY <1>1, <1>2, <2>1
  <2>4. E.reg = [r EXCEPT !["rip"] = r["rip"] + 1, ![x] = mem[r["rsp"]], !["rsp"] = r["rsp"] + 1]
    <3> HIDE DEF m, next, E
    <3> QED
      BY <1>0, <1>1, <1>2, <2>3
  <2>5. x \in GPR \cup {"rflags", "none"} /\ x # "none"
    <3>1. "none" \notin GPR
      BY RegisterNames, PushedRegisters DEF Pushed, GPR, Range
    <3> QED
      BY <3>1
  <2> HIDE DEF E
  <2>8. NextRegisters(r, E.reg, 1, x, mem[r["rsp"]])
    BY <2>4, <2>5, Zenon DEF NextRegisters
  <2>9. 1 \in Int
    OBVIOUS
  <2>6. Sets(r, mem, E, 1, x, mem[r["rsp"]])
    BY <1>3, <2>3, <2>5, <2>8, <2>9, SetEffect, Zenon
  <2> QED
    BY <2>6 DEF E
<1>4. ASSUME NEW n \in Int PROVE Sets(r, mem, Executed(m, OpN("add", n)), n, "none", 0)
  <2> DEFINE E == Executed(m, OpN("add", n))
  <2>1. E = [next EXCEPT !.reg["rsp"] = @ + n]
    <3> HIDE DEF m
    <3> QED
      BY DEF Executed, OpN
  <2>2. E.ram = mem /\ E.reg = [r EXCEPT !["rip"] = r["rip"] + 1, !["rsp"] = r["rsp"] + n]
    <3> HIDE DEF m, next, E
    <3> QED
      BY <1>0, <1>1, <1>2, <2>1
  <2> HIDE DEF E
  <2>8. NextRegisters(r, E.reg, n, "none", 0)
    BY <2>2, Zenon DEF NextRegisters
  <2>9. n \in Int /\ "none" \in GPR \cup {"rflags", "none"} /\ 0 \in Int
    BY <1>0, PushedRegisters
  <2>3. Sets(r, mem, E, n, "none", 0)
    BY <2>2, <2>8, <2>9, SetEffect, Zenon
  <2> QED
    BY <2>3 DEF E
<1>5. Sets(r, mem, Executed(m, Op("cr2")), 0, "rax", 0)
  <2> DEFINE E == Executed(m, Op("cr2"))
  <2>1. E = [next EXCEPT !.reg["rax"] = 0]
    <3> HIDE DEF m
    <3> QED
      BY DEF Executed, Op
  <2>2. E.ram = mem /\ E.reg = [r EXCEPT !["rip"] = r["rip"] + 1, !["rax"] = 0]
    <3> HIDE DEF m, next, E
    <3> QED
      BY <1>1, <2>1
  <2> HIDE DEF E
  <2>8. NextRegisters(r, E.reg, 0, "rax", 0)
    BY <2>2, Zenon DEF NextRegisters
  <2>9. 0 \in Int /\ "rax" \in GPR \cup {"rflags", "none"} /\ 0 \in Int
    BY <1>0, PushedRegisters
  <2>3. Sets(r, mem, E, 0, "rax", 0)
    BY <2>2, <2>8, <2>9, SetEffect, Zenon
  <2> QED
    BY <2>3 DEF E
<1>6. Sets(r, mem, Executed(m, Op("rdi")), 0, "rdi", r["rsp"])
  <2> DEFINE E == Executed(m, Op("rdi"))
  <2>1. E = [next EXCEPT !.reg["rdi"] = m.reg["rsp"]]
    <3> HIDE DEF m
    <3> QED
      BY DEF Executed, Op
  <2>2. E.ram = mem /\ E.reg = [r EXCEPT !["rip"] = r["rip"] + 1, !["rdi"] = r["rsp"]]
    <3> HIDE DEF m, next, E
    <3> QED
      BY <1>1, <2>1
  <2> HIDE DEF E
  <2>8. NextRegisters(r, E.reg, 0, "rdi", r["rsp"])
    BY <2>2, Zenon DEF NextRegisters
  <2>9. 0 \in Int /\ "rdi" \in GPR \cup {"rflags", "none"} /\ r["rsp"] \in Int
    BY <1>0, PushedRegisters
  <2>3. Sets(r, mem, E, 0, "rdi", r["rsp"])
    BY <2>2, <2>8, <2>9, SetEffect, Zenon
  <2> QED
    BY <2>3 DEF E
<1>7. Sets(r, mem, Executed(m, Op("sti")), 0, "rflags", 1)
  <2> DEFINE E == Executed(m, Op("sti"))
  <2>1. E = [next EXCEPT !.reg["rflags"] = 1]
    <3> HIDE DEF m
    <3> QED
      BY DEF Executed, Op
  <2>2. E.ram = mem /\ E.reg = [r EXCEPT !["rip"] = r["rip"] + 1, !["rflags"] = 1]
    <3> HIDE DEF m, next, E
    <3> QED
      BY <1>1, <2>1
  <2> HIDE DEF E
  <2>8. NextRegisters(r, E.reg, 0, "rflags", 1)
    BY <2>2, Zenon DEF NextRegisters
  <2>9. 0 \in Int /\ "rflags" \in GPR \cup {"rflags", "none"} /\ 1 \in Int
    BY <1>0, PushedRegisters
  <2>3. Sets(r, mem, E, 0, "rflags", 1)
    BY <2>2, <2>8, <2>9, SetEffect, Zenon
  <2> QED
    BY <2>3 DEF E
<1>8. ASSUME mem[r["rsp"]] # KERNEL_CS, NEW c \in {"check_cpl", "check_cpl_err"}
      PROVE  Sets(r, mem, Executed(m, Op(c)), 0, "none", 0)
  <2> DEFINE E == Executed(m, Op(c))
  <2>1. E = check_cpl(next, FALSE) \/ E = check_cpl(next, TRUE)
    <3> HIDE DEF m
    <3> QED
      BY <1>8 DEF Executed, Op
  <2>2. E = next
    <3> HIDE DEF m, next, E
    <3> QED
      BY <1>2, <1>8, <2>1, Zenon DEF check_cpl, FromKernel
  <2>3. E.ram = mem /\ E.reg = [r EXCEPT !["rip"] = r["rip"] + 1]
    <3> HIDE DEF m, next, E
    <3> QED
      BY <1>1, <2>2, Zenon
  <2> HIDE DEF E
  <2>8. NextRegisters(r, E.reg, 0, "none", 0)
    BY <2>3, Zenon DEF NextRegisters
  <2>9. 0 \in Int /\ "none" \in GPR \cup {"rflags", "none"} /\ 0 \in Int
    BY <1>0, PushedRegisters
  <2>4. Sets(r, mem, E, 0, "none", 0)
    BY <2>3, <2>8, <2>9, SetEffect, Zenon
  <2> QED
    BY <2>4 DEF E
<1> QED
  BY <1>3, <1>4, <1>5, <1>6, <1>7, <1>8
----------------------------------------------------------------------------
(* A stub runs on                                                          *)

\* Stub v, that goes back to t, goes on from r, mem to E.
Continues(v, r, t, mem, E) ==
  /\ E.reg \in [Registers -> Int]
  /\ Level(v, E.reg, t, E.ram)
  /\ Base(v, E.reg) = Base(v, r)
  /\ Wrote(mem, E.ram, r["rsp"] - 1)

\* After a push.
LEMMA PushContinues ==
  ASSUME NEW v \in Stubs, NEW r \in [Registers -> Int], NEW t, NEW mem, NEW p, NEW w, NEW E,
         Level(v, r, t, mem), p = Place(v, r), Fits(Base(v, r)),
         Pushes(r, mem, E, w), Depth(v, p + 1) = Depth(v, p) - (-1),
         p + 1 <= LastPlace(v), p # 19, p = 20 => w = r["rip"] + 2,
         \A j \in 1 .. 15 : OnStack(p + 1, j) /\ ~OnStack(p, j) =>
            j = p /\ Base(v, r) - Words(v) - j = r["rsp"] - 1 /\ w = t[Pushed[j]],
         \A j \in 1 .. 15 : InPlace(p + 1, j) => InPlace(p, j)
  PROVE  Continues(v, r, t, mem, E)
<1>0. PICK rsp \in Int, rip \in Int, e \in 5 .. 24, base \in Int :
        /\ rsp = r["rsp"] /\ rip = r["rip"] /\ e = Depth(v, p) /\ base = Base(v, r)
        /\ rsp = base - e /\ p \in Int
  <2>1. p \in 1 - Before(v) .. LastPlace(v)
    BY DEF Level, LevelAt
  <2> QED
    BY <2>1, BaseIs
<1>1. LevelAt(v, p, base, r, t, mem)
  BY <1>0, Zenon DEF Level
<1>2. rsp - 1 \in Address
  <2>1. PICK m \in Int : m = BOOT /\ base <= m
    BY <1>0, InterruptStubsAssumption DEF Fits, BOOT
  <2> QED
    BY <1>0, <2>1 DEF Fits, Address
<1>3. Moved(r, E.reg, -1, {}) /\ Wrote(mem, E.ram, r["rsp"] - 1) /\ E.ram[rsp - 1] = w
  BY <1>0, <1>2, Zenon DEF Pushes
<1> DEFINE r2 == E.reg
           mem2 == E.ram
<1>4. r2["cs"] = r["cs"] /\ r2["rflags"] = r["rflags"] /\ r2["rdi"] = r["rdi"]
      /\ r2["rsp"] = rsp + (-1) /\ r2["rip"] = rip + 1
  <2>1. "cs" # "rip" /\ "cs" # "rsp" /\ "rflags" # "rip" /\ "rflags" # "rsp"
        /\ "rdi" # "rip" /\ "rdi" # "rsp"
    OBVIOUS
  <2> QED
    BY <1>0, <1>3, <2>1, FrameNotGPR, Zenon DEF Moved
<1> HIDE DEF r2, mem2
<1>5. \A j \in 1 .. 15 : OnStack(p + 1, j) /\ ~OnStack(p, j) => mem2[base - Words(v) - j] = t[Pushed[j]]
  <2>1. mem2[rsp - 1] = w
    BY <1>3 DEF mem2
  <2> QED
    BY <1>0, <2>1, Zenon
<1>6. \A j \in 1 .. 15 : InPlace(p + 1, j) /\ (~InPlace(p, j) \/ Pushed[j] \in {}) => r2[Pushed[j]] = t[Pushed[j]]
  OBVIOUS
<1>7. p + 1 # 20
  BY <1>0
<1>8. ASSUME p + 1 = 21 PROVE r2["rdi"] = r2["rsp"] + 1 /\ mem2[r2["rsp"]] = r2["rip"] + 1
  <2>1. p = 20
    BY <1>0, <1>8
  <2>2. r["rdi"] = rsp /\ w = rip + 2
    BY <1>0, <1>1, <2>1, Zenon DEF LevelAt
  <2>3. rsp + (-1) = rsp - 1 /\ rsp = (rsp + (-1)) + 1 /\ rip + 2 = (rip + 1) + 1
    BY <1>0
  <2>4. mem2[rsp - 1] = w
    BY <1>3 DEF mem2
  <2> QED
    BY <1>4, <2>2, <2>3, <2>4
<1>9. r2["cs"] = KERNEL_CS /\ r2["rflags"] \in {0, 1} /\ (v = "sync_time" => r2["rflags"] = 0)
  BY <1>1, <1>4, Zenon DEF LevelAt
<1>10. Advances(v, p, base, r2, t, mem2, {})
  BY <1>5, <1>6, <1>7, <1>8, <1>9, Zenon DEF Advances
<1>11. -1 \in Int
  OBVIOUS
<1>12. Moved(r, r2, -1, {}) /\ Wrote(mem, mem2, r["rsp"] - 1)
  BY <1>3 DEF r2, mem2
<1>15. Fits(base) /\ base = Base(v, r)
  BY <1>0, Zenon
<1>13. Level(v, r2, t, mem2) /\ Base(v, r2) = base
  BY <1>10, <1>11, <1>12, <1>15, LevelAdvances
<1>14. r2 \in [Registers -> Int]
  BY <1>12 DEF Moved
<1> QED
  BY <1>0, <1>12, <1>13, <1>14 DEF Continues, r2, mem2

\* After an instruction that sets a register.
LEMMA SetContinues ==
  ASSUME NEW v \in Stubs, NEW r \in [Registers -> Int], NEW t, NEW mem, NEW p, NEW val, NEW E,
         NEW d \in Int, NEW x \in GPR \cup {"rflags", "none"},
         Level(v, r, t, mem), p = Place(v, r), Fits(Base(v, r)),
         Sets(r, mem, E, d, x, val), Depth(v, p + 1) = Depth(v, p) - d,
         p + 1 <= LastPlace(v), p # 20, p = 19 => x = "rdi" /\ val = r["rsp"] /\ d = 0,
         x = "rflags" => v = "gpf" /\ val = 1,
         \A j \in 1 .. 15 : OnStack(p + 1, j) => OnStack(p, j),
         \A j \in 1 .. 15 : InPlace(p + 1, j) =>
            (InPlace(p, j) /\ Pushed[j] # x) \/ (Pushed[j] = x /\ val = t[Pushed[j]])
  PROVE  Continues(v, r, t, mem, E)
<1>0. PICK rsp \in Int, rip \in Int, e \in 5 .. 24, base \in Int :
        /\ rsp = r["rsp"] /\ rip = r["rip"] /\ e = Depth(v, p) /\ base = Base(v, r)
        /\ rsp = base - e /\ p \in Int
  <2>1. p \in 1 - Before(v) .. LastPlace(v)
    BY DEF Level, LevelAt
  <2> QED
    BY <2>1, BaseIs
<1>1. LevelAt(v, p, base, r, t, mem)
  BY <1>0, Zenon DEF Level
<1>2. Moved(r, E.reg, d, {x}) /\ Wrote(mem, E.ram, r["rsp"] - 1) /\ (x # "none" => E.reg[x] = val)
  BY Zenon DEF Sets
<1> DEFINE r2 == E.reg
           mem2 == E.ram
<1>3. r2["cs"] = r["cs"] /\ r2["rsp"] = rsp + d /\ r2["rip"] = rip + 1
  <2>1. "cs" # "rip" /\ "cs" # "rsp" /\ "cs" # x
    BY FrameNotGPR
  <2> QED
    BY <1>0, <1>2, <2>1, FrameNotGPR, Zenon DEF Moved
<1>4. r2["rflags"] \in {0, 1} /\ (v = "sync_time" => r2["rflags"] = 0)
  <2>1. CASE x = "rflags"
    <3>1. "rflags" # "none" /\ "gpf" # "sync_time"
      OBVIOUS
    <3> QED
      BY <1>2, <2>1, <3>1, Zenon
  <2>2. CASE x # "rflags"
    <3>1. "rflags" # "rip" /\ "rflags" # "rsp"
      OBVIOUS
    <3>2. r2["rflags"] = r["rflags"]
      BY <1>2, <2>2, <3>1, FrameNotGPR, Zenon DEF Moved
    <3> QED
      BY <1>1, <3>2, Zenon DEF LevelAt
  <2> QED
    BY <2>1, <2>2
<1> HIDE DEF r2, mem2
<1>5. ASSUME NEW j \in 1 .. 15, InPlace(p + 1, j), ~InPlace(p, j) \/ Pushed[j] \in {x}
      PROVE  r2[Pushed[j]] = t[Pushed[j]]
  <2>1. Pushed[j] = x /\ val = t[Pushed[j]]
    BY <1>5, Zenon
  <2>2. Pushed[j] # "none"
    <3>1. Pushed[j] \in GPR
      BY PushedRegisters
    <3> QED
      BY <3>1 DEF GPR, Pushed, Range
  <2> QED
    BY <1>2, <2>1, <2>2 DEF r2
<1>6. ASSUME p + 1 = 20 PROVE r2["rdi"] = r2["rsp"]
  <2>1. p = 19
    BY <1>0, <1>6
  <2>2. x = "rdi" /\ val = rsp /\ d = 0 /\ "rdi" # "none"
    BY <1>0, <2>1
  <2>3. rsp + d = rsp
    BY <1>0, <2>2
  <2> QED
    BY <1>2, <1>3, <2>2, <2>3, Zenon DEF r2
<1>7. p + 1 # 21
  BY <1>0
<1>9. r2["cs"] = KERNEL_CS
  BY <1>1, <1>3, Zenon DEF LevelAt
<1>10. Advances(v, p, base, r2, t, mem2, {x})
  BY <1>4, <1>5, <1>6, <1>7, <1>9, Zenon DEF Advances, r2
<1>12. Moved(r, r2, d, {x}) /\ Wrote(mem, mem2, r["rsp"] - 1)
  BY <1>2 DEF r2, mem2
<1>15. Fits(base) /\ base = Base(v, r)
  BY <1>0, Zenon
<1>13. Level(v, r2, t, mem2) /\ Base(v, r2) = base
  BY <1>10, <1>12, <1>15, LevelAdvances
<1>14. r2 \in [Registers -> Int]
  BY <1>12 DEF Moved
<1> QED
  BY <1>0, <1>12, <1>13, <1>14 DEF Continues, r2, mem2
\* Every instruction of a stub but the C function and iretq leaves the
\* words and registers as the next one expects them.
LEMMA StubContinues ==
  ASSUME NEW v \in Stubs, NEW r \in [Registers -> Int], NEW mem \in [Address -> Int],
         NEW t \in [Registers -> Int], NEW p, NEW c, NEW E,
         Level(v, r, t, mem), p = Place(v, r), Fits(Base(v, r)), t["rip"] # KERNEL_CS,
         c = Code(v)[Before(v) + p], c.op \notin {"handler", "iretq"},
         E = Executed(Machine(r, mem), c)
  PROVE  Continues(v, r, t, mem, E)
<1>0. PICK rsp \in Int, rip \in Int, e \in 5 .. 24, base \in Int :
        /\ rsp = r["rsp"] /\ rip = r["rip"] /\ e = Depth(v, p) /\ base = Base(v, r)
        /\ rsp = base - e /\ p \in Int /\ p \in 1 - Before(v) .. LastPlace(v)
  <2>1. p \in 1 - Before(v) .. LastPlace(v)
    BY DEF Level, LevelAt
  <2> QED
    BY <2>1, BaseIs
<1>1. LevelAt(v, p, base, r, t, mem)
  BY <1>0, Zenon DEF Level
<1>2. PICK w \in {5, 6}, b \in {1, 2}, l \in {38, 39, 40} :
        /\ w = Words(v) /\ b = Before(v) /\ l = LastPlace(v)
        /\ l = (IF w = 5 THEN 38 ELSE IF v = "gpf" THEN 40 ELSE 39)
  BY StubKinds DEF LastPlace
<1>3. p \in 1 - b .. l /\ rsp \in Address
  <2>1. PICK m \in Int : m = BOOT /\ base <= m
    BY <1>0, InterruptStubsAssumption DEF Fits, BOOT
  <2>2. base - 25 >= 0
    BY <1>0 DEF Fits
  <2>3. 0 <= rsp /\ rsp <= m - 1
    BY <1>0, <2>1, <2>2
  <2>4. rsp \in Address
    BY <2>1, <2>3 DEF Address
  <2>5. p \in 1 - b .. l
    BY <1>0, <1>2, Zenon
  <2> QED
    BY <2>4, <2>5
<1>4. mem[rsp] \in Int
  BY <1>3
<1>5. CASE p = 1 - b
  <2>1. c = Op(IF v \in HasError THEN "check_cpl_err" ELSE "check_cpl")
    <3>1. b + p = 1
      BY <1>2, <1>5
    <3> QED
      BY <1>2, <3>1, CodeParts, Zenon
  <2>2. mem[r["rsp"]] # KERNEL_CS
    <3>1. p <= 0
      BY <1>2, <1>5
    <3>2. CASE v \in HasError
      <4>1. e = 6
        BY <1>0, <3>1, <3>2 DEF Depth
      <4>2. mem[base - 6] # KERNEL_CS
        BY <1>1, <3>1, <3>2, Zenon DEF LevelAt
      <4> QED
        BY <1>0, <4>1, <4>2 DEF KERNEL_CS
    <3>3. CASE v \notin HasError
      <4>1. e = 5
        BY <1>0, <3>1, <3>3 DEF Depth
      <4>2. 1 \in 1 .. 5 /\ base - 6 + 1 = rsp
        BY <1>0, <4>1
      <4>3. mem[rsp] = t["rip"]
        BY <1>1, <4>2, RegisterNames, Zenon DEF LevelAt
      <4> QED
        BY <1>0, <4>3, Zenon
    <3> QED
      BY <3>2, <3>3
  <2>3. Sets(r, mem, E, 0, "none", 0)
    BY <2>1, <2>2, SetEffects, Zenon
  <2>4. Depth(v, p + 1) = Depth(v, p) - 0
    <3>1. v \in PushesError <=> b = 2
      BY <1>2, StubKinds
    <3>2. w = IF v \in HasError \cup PushesError THEN 6 ELSE 5
      BY <1>2 DEF Words
    <3>3. v \in PushesError => v \notin HasError
      BY StubKinds
    <3> QED
      BY <1>2, <1>5, <3>1, <3>2, <3>3 DEF Depth
  <2>5. /\ p + 1 <= LastPlace(v) /\ p # 20 /\ p # 19
        /\ \A j \in 1 .. 15 : OnStack(p + 1, j) => OnStack(p, j)
    BY <1>2, <1>5 DEF OnStack
  <2>6. \A j \in 1 .. 15 : InPlace(p, j) /\ Pushed[j] # "none"
    <3>1. p <= 16
      BY <1>2, <1>5
    <3>2. \A j \in 1 .. 15 : Pushed[j] # "none"
      BY PushedRegisters DEF Pushed
    <3> QED
      BY <3>1, <3>2 DEF InPlace
  <2>7. 0 \in Int /\ "none" \in GPR \cup {"rflags", "none"} /\ "none" # "rflags"
    OBVIOUS
  <2> QED
    BY <2>3, <2>4, <2>5, <2>6, <2>7, SetContinues
<1>6. CASE b = 2 /\ p = 0
  <2>1. c = OpN("pushc", 0)
    <3>1. b + p = 2
      BY <1>6
    <3> QED
      BY <1>2, <1>6, <3>1, CodeParts, ZenonT(60)
  <2>2. Pushes(r, mem, E, 0)
    <3>1. 0 \in Int
      OBVIOUS
    <3> QED
      BY <2>1, <3>1, PushEffects, Zenon
  <2>4. Depth(v, p + 1) = Depth(v, p) - (-1)
    <3>1. v \in PushesError /\ v \notin HasError
      BY <1>2, <1>6, StubKinds
    <3> QED
      BY <1>6, <3>1 DEF Depth, Words
  <2>5. /\ p + 1 <= LastPlace(v) /\ p # 20 /\ p # 19
        /\ \A j \in 1 .. 15 : ~OnStack(p + 1, j)
        /\ \A j \in 1 .. 15 : InPlace(p, j)
    BY <1>2, <1>6 DEF OnStack, InPlace
  <2> QED
    BY <2>2, <2>4, <2>5, PushContinues
<1>7. CASE p \in 1 .. 15
  <2>1. c = OpR("push", Pushed[p])
    BY <1>7, CodeParts, Zenon
  <2>2. Pushes(r, mem, E, r[Pushed[p]])
    <3>1. Pushed[p] \in Registers
      BY <1>7, PushedRegisters, FrameNotGPR
    <3> QED
      BY <2>1, <3>1, PushEffects, Zenon
  <2>3. r[Pushed[p]] = t[Pushed[p]]
    <3>1. InPlace(p, p)
      BY <1>7 DEF InPlace
    <3> QED
      BY <1>1, <1>7, <3>1, Zenon DEF LevelAt
  <2>4. Depth(v, p + 1) = Depth(v, p) - (-1) /\ e = w + p - 1
    BY <1>0, <1>2, <1>7 DEF Depth
  <2>5. /\ p + 1 <= LastPlace(v) /\ p # 20 /\ p # 19
        /\ \A j \in 1 .. 15 : OnStack(p + 1, j) /\ ~OnStack(p, j) => j = p
        /\ \A j \in 1 .. 15 : InPlace(p, j)
    BY <1>2, <1>7 DEF OnStack, InPlace
  <2>6. Base(v, r) - Words(v) - p = r["rsp"] - 1
    BY <1>0, <1>2, <2>4
  <2>7. \A j \in 1 .. 15 : OnStack(p + 1, j) /\ ~OnStack(p, j) =>
          j = p /\ Base(v, r) - Words(v) - j = r["rsp"] - 1 /\ r[Pushed[p]] = t[Pushed[j]]
    BY <2>3, <2>5, <2>6, Zenon
  <2>8. p = 20 => r[Pushed[p]] = r["rip"] + 2
    BY <2>5
  <2> QED
    BY <2>2, <2>4, <2>5, <2>7, <2>8, PushContinues
<1>8. CASE p = 16
  <2>1. c = Op("cr2")
    BY <1>8, CodeParts, Zenon
  <2>2. Sets(r, mem, E, 0, "rax", 0)
    BY <2>1, SetEffects, Zenon
  <2>4. Depth(v, p + 1) = Depth(v, p) - 0
    BY <1>2, <1>8 DEF Depth
  <2>5. /\ p + 1 <= LastPlace(v) /\ p # 20 /\ p # 19
        /\ \A j \in 1 .. 15 : OnStack(p + 1, j) => OnStack(p, j)
        /\ \A j \in 1 .. 15 : ~InPlace(p + 1, j)
    BY <1>2, <1>8 DEF OnStack, InPlace
  <2>6. 0 \in Int /\ "rax" \in GPR \cup {"rflags", "none"} /\ "rax" # "rflags"
    BY PushedRegisters
  <2> QED
    BY <2>2, <2>4, <2>5, <2>6, SetContinues
<1>9. CASE p \in {17, 18}
  <2>1. PICK u \in Int : Pushes(r, mem, E, u)
    <3>1. CASE p = 17
      <4>1. c = OpR("push", "rax")
        BY <3>1, CodeParts, Zenon
      <4>2. Pushes(r, mem, E, r["rax"])
        BY <4>1, FrameNotGPR, PushEffects, Zenon
      <4> QED
        BY <4>2, FrameNotGPR
    <3>2. CASE p = 18
      <4>1. c = OpN("pushc", Number[v])
        BY <3>2, CodeParts, Zenon
      <4>2. Number[v] \in Int
        BY StubKinds
      <4>3. Pushes(r, mem, E, Number[v])
        BY <4>1, <4>2, PushEffects, Zenon
      <4> QED
        BY <4>2, <4>3
    <3> QED
      BY <1>9, <3>1, <3>2
  <2>4. Depth(v, p + 1) = Depth(v, p) - (-1)
    BY <1>2, <1>9 DEF Depth
  <2>5. /\ p + 1 <= LastPlace(v) /\ p # 20 /\ p # 19
        /\ \A j \in 1 .. 15 : OnStack(p + 1, j) => OnStack(p, j)
        /\ \A j \in 1 .. 15 : ~InPlace(p + 1, j)
    BY <1>2, <1>9 DEF OnStack, InPlace
  <2> QED
    BY <2>1, <2>4, <2>5, PushContinues
<1>10. CASE p = 19
  <2>1. c = Op("rdi")
    BY <1>10, CodeParts, Zenon
  <2>2. Sets(r, mem, E, 0, "rdi", r["rsp"])
    BY <2>1, SetEffects, Zenon
  <2>4. Depth(v, p + 1) = Depth(v, p) - 0
    BY <1>2, <1>10 DEF Depth
  <2>5. /\ p + 1 <= LastPlace(v) /\ p # 20
        /\ \A j \in 1 .. 15 : OnStack(p + 1, j) => OnStack(p, j)
        /\ \A j \in 1 .. 15 : ~InPlace(p + 1, j)
    BY <1>2, <1>10 DEF OnStack, InPlace
  <2>6. 0 \in Int /\ "rdi" \in GPR \cup {"rflags", "none"} /\ "rdi" # "rflags"
    BY PushedRegisters
  <2> QED
    BY <2>2, <2>4, <2>5, <2>6, SetContinues
<1>11. CASE p = 20
  <2>1. c = Op("call")
    BY <1>11, CodeParts, Zenon
  <2>2. Pushes(r, mem, E, r["rip"] + 2)
    BY <2>1, PushEffects, Zenon
  <2>4. Depth(v, p + 1) = Depth(v, p) - (-1)
    BY <1>2, <1>11 DEF Depth
  <2>5. /\ p + 1 <= LastPlace(v) /\ p # 19
        /\ \A j \in 1 .. 15 : OnStack(p + 1, j) => OnStack(p, j)
        /\ \A j \in 1 .. 15 : ~InPlace(p + 1, j)
    BY <1>2, <1>11 DEF OnStack, InPlace
  <2> QED
    BY <2>2, <2>4, <2>5, PushContinues
<1>12. CASE p = 22
  <2>1. c = OpN("add", 2)
    BY <1>12, CodeParts, Zenon
  <2>2. Sets(r, mem, E, 2, "none", 0)
    <3>1. 2 \in Int
      OBVIOUS
    <3> QED
      BY <2>1, <3>1, SetEffects, Zenon
  <2>4. Depth(v, p + 1) = Depth(v, p) - 2
    BY <1>2, <1>12 DEF Depth
  <2>5. /\ p + 1 <= LastPlace(v) /\ p # 20 /\ p # 19
        /\ \A j \in 1 .. 15 : OnStack(p + 1, j) => OnStack(p, j)
        /\ \A j \in 1 .. 15 : ~InPlace(p + 1, j)
    BY <1>2, <1>12 DEF OnStack, InPlace
  <2>6. 2 \in Int /\ "none" \in GPR \cup {"rflags", "none"} /\ "none" # "rflags"
    OBVIOUS
  <2> QED
    BY <2>2, <2>4, <2>5, <2>6, SetContinues
<1>13. CASE p \in 23 .. 37
  <2>0. PICK k \in 1 .. 15, i \in 1 .. 15 : k = p - 22 /\ i = 38 - p /\ i = 16 - k
    BY <1>13
  <2>1. c = OpR("pop", Pushed[i])
    <3>1. b + p = b + 22 + k
      BY <2>0
    <3> QED
      BY <1>2, <2>0, <3>1, CodeParts, ZenonT(60)
  <2>2. Sets(r, mem, E, 1, Pushed[i], mem[r["rsp"]])
    <3>1. Pushed[i] \in GPR
      BY PushedRegisters
    <3> QED
      BY <1>0, <1>4, <2>1, <3>1, SetEffects, Zenon
  <2>3. mem[r["rsp"]] = t[Pushed[i]]
    <3>1. OnStack(p, i) /\ e = w + 38 - p
      BY <1>0, <1>2, <1>13, <2>0 DEF OnStack, Depth
    <3>2. base - w - i = rsp
      BY <1>0, <2>0, <3>1
    <3>3. mem[base - Words(v) - i] = t[Pushed[i]]
      BY <1>1, <3>1, Zenon DEF LevelAt
    <3> QED
      BY <1>0, <1>2, <3>2, <3>3, Zenon
  <2>4. Depth(v, p + 1) = Depth(v, p) - 1
    BY <1>2, <1>13 DEF Depth
  <2>5. /\ p + 1 <= LastPlace(v) /\ p # 20 /\ p # 19
        /\ \A j \in 1 .. 15 : OnStack(p + 1, j) => OnStack(p, j)
        /\ \A j \in 1 .. 15 : InPlace(p + 1, j) => j = i \/ (InPlace(p, j) /\ j # i)
    BY <1>2, <1>13, <2>0 DEF OnStack, InPlace
  <2>6. 1 \in Int /\ Pushed[i] \in GPR \cup {"rflags", "none"} /\ Pushed[i] # "rflags"
    BY PushedRegisters, PushedOnce
  <2>7. ASSUME NEW j \in 1 .. 15, InPlace(p + 1, j)
        PROVE  \/ InPlace(p, j) /\ Pushed[j] # Pushed[i]
               \/ Pushed[j] = Pushed[i] /\ mem[r["rsp"]] = t[Pushed[j]]
    BY <2>3, <2>5, <2>7, PushedOnce, Zenon
  <2> QED
    BY <2>2, <2>4, <2>5, <2>6, <2>7, SetContinues
<1>14. CASE p = 38 /\ w = 6
  <2>1. c = OpN("add", 1)
    BY <1>2, <1>14, CodeParts, ZenonT(60)
  <2>2. Sets(r, mem, E, 1, "none", 0)
    <3>1. 1 \in Int
      OBVIOUS
    <3> QED
      BY <2>1, <3>1, SetEffects, Zenon
  <2>4. Depth(v, p + 1) = Depth(v, p) - 1
    BY <1>2, <1>14 DEF Depth
  <2>5. /\ p + 1 <= LastPlace(v) /\ p # 20 /\ p # 19
        /\ \A j \in 1 .. 15 : OnStack(p + 1, j) => OnStack(p, j)
        /\ \A j \in 1 .. 15 : InPlace(p, j)
    BY <1>2, <1>14 DEF OnStack, InPlace
  <2>6. 1 \in Int /\ "none" \in GPR \cup {"rflags", "none"} /\ "none" # "rflags"
    OBVIOUS
  <2>7. \A j \in 1 .. 15 : Pushed[j] # "none"
    BY PushedRegisters DEF Pushed
  <2> QED
    BY <2>2, <2>4, <2>5, <2>6, <2>7, SetContinues
<1>15. CASE p = 39 /\ v = "gpf"
  <2>1. c = Op("sti")
    BY <1>15, CodeParts, Zenon
  <2>2. Sets(r, mem, E, 0, "rflags", 1)
    BY <2>1, SetEffects, Zenon
  <2>4. Depth(v, p + 1) = Depth(v, p) - 0
    BY <1>15 DEF Depth
  <2>5. /\ p + 1 <= LastPlace(v) /\ p # 20 /\ p # 19
        /\ \A j \in 1 .. 15 : OnStack(p + 1, j) => OnStack(p, j)
        /\ \A j \in 1 .. 15 : InPlace(p, j)
    BY <1>2, <1>15, StubKinds DEF OnStack, InPlace
  <2>6. 0 \in Int /\ "rflags" \in GPR \cup {"rflags", "none"}
    OBVIOUS
  <2>7. \A j \in 1 .. 15 : Pushed[j] # "rflags"
    BY PushedOnce
  <2> QED
    BY <1>15, <2>2, <2>4, <2>5, <2>6, <2>7, SetContinues, ZenonT(60)
<1>16. p # 21 /\ p # l
  <2>1. p # 21
    <3>1. ASSUME p = 21 PROVE c = Op("handler")
      BY <3>1, CodeParts
    <3> QED
      BY <3>1 DEF Op
  <2>2. p # l
    <3>0. Code(v)[Before(v) + LastPlace(v)] = Op("iretq")
      BY CodeParts, Zenon
    <3>1. ASSUME p = l PROVE c = Op("iretq")
      BY <1>2, <3>0, <3>1, Zenon
    <3> QED
      BY <3>1 DEF Op
  <2> QED
    BY <2>1, <2>2
<1>17. \/ p = 1 - b \/ (b = 2 /\ p = 0) \/ p \in 1 .. 15 \/ p = 16 \/ p \in {17, 18} \/ p = 19
       \/ p = 20 \/ p = 22 \/ p \in 23 .. 37 \/ (p = 38 /\ w = 6) \/ (p = 39 /\ v = "gpf")
  BY <1>2, <1>3, <1>16
<1> QED
  BY <1>5, <1>6, <1>7, <1>8, <1>9, <1>10, <1>11, <1>12, <1>13, <1>14, <1>15, <1>17
----------------------------------------------------------------------------
(* The stubs in progress                                                   *)

\* A stack holds MaxDepth stubs.
LEMMA StackSizes ==
  \E s \in Nat, d \in Nat :
    /\ s = STACK /\ d = MaxDepth /\ d >= 1 /\ 26 * d + 2 <= s /\ s % 2 = 0
    /\ RSP0 = s /\ IST1 = 2 * s /\ IST4 = 3 * s /\ BOOT = 4 * s /\ Address = 0 .. 4 * s - 1
BY InterruptStubsAssumption DEF RSP0, IST1, IST4, BOOT, Address

\* Programs and the kernel's loop are no stubs; only the loop runs in the
\* kernel and with interrupts on.
LEMMA OutsideRegisters ==
  ASSUME NEW x \in Outside
  PROVE  /\ x \in [Registers -> Int] /\ x["rip"] \in 1 .. 3
         /\ x["cs"] \in {KERNEL_CS, USER_CS} /\ x["rflags"] \in {0, 1}
         /\ x["cs"] = KERNEL_CS => x["rsp"] = BOOT - 1
         /\ x["cs"] # USER_CS => x["cs"] = KERNEL_CS
<1>1. \A n \in 1 .. 3 : /\ User(n) \in [Registers -> Int] /\ User(n)["rip"] = n
                        /\ User(n)["cs"] = USER_CS /\ User(n)["rflags"] = 0
  <2> TAKE n \in 1 .. 3
  <2>1. ASSUME NEW y \in Registers PROVE User(n)[y] \in Int
    <3>1. CASE y \in {"rip", "cs", "rflags", "rsp", "ss"}
      BY <3>1 DEF User, USER_CS
    <3>2. CASE y \in GPR
      <4>1. \E i \in 1 .. 15 : Pushed[i] = y
        BY <3>2, RegisterNames
      <4>2. (CHOOSE i \in 1 .. 15 : Pushed[i] = y) \in 1 .. 15
        BY <4>1
      <4>3. PICK i \in 1 .. 15 : i = CHOOSE k \in 1 .. 15 : Pushed[k] = y
        BY <4>2
      <4>4. User(n)[y] = 100 * n + i
        <5>1. y \in Registers /\ y # "rip" /\ y # "cs" /\ y # "rflags" /\ y # "rsp" /\ y # "ss"
          BY <3>2, FrameNotGPR
        <5> QED
          BY <4>3, <5>1 DEF User
      <4> QED
        BY <4>4
    <3> QED
      BY <3>1, <3>2, RegisterNames
  <2>2. User(n)["rip"] = n /\ User(n)["cs"] = USER_CS /\ User(n)["rflags"] = 0
    BY FrameNotGPR DEF User
  <2>3. User(n) = [y \in Registers |-> User(n)[y]]
    BY DEF User
  <2> QED
    BY <2>1, <2>2, <2>3, Zenon
<1>2. Idle = [User(3) EXCEPT !["cs"] = KERNEL_CS, !["rflags"] = 1, !["rsp"] = BOOT - 1, !["ss"] = 16]
  BY DEF Idle
<1>3. BOOT - 1 \in Int
  BY StackSizes
<1>4. /\ Idle \in [Registers -> Int] /\ Idle["rip"] = 3 /\ Idle["cs"] = KERNEL_CS
      /\ Idle["rflags"] = 1 /\ Idle["rsp"] = BOOT - 1
  <2>0. PICK top \in Int : top = BOOT - 1
    BY <1>3
  <2>1. Idle = [User(3) EXCEPT !["cs"] = 8, !["rflags"] = 1, !["rsp"] = top, !["ss"] = 16]
    BY <1>2, <2>0 DEF KERNEL_CS
  <2>2. User(3) \in [Registers -> Int] /\ User(3)["rip"] = 3
    BY <1>1
  <2> HIDE DEF Idle
  <2> QED
    BY <2>0, <2>1, <2>2, FrameNotGPR DEF KERNEL_CS
<1>5. CASE x = Idle
  <2>1. 3 \in 1 .. 3 /\ KERNEL_CS # USER_CS
    BY DEF KERNEL_CS, USER_CS
  <2> QED
    BY <1>4, <1>5, <2>1
<1>6. ASSUME NEW n \in {1, 2}, x = User(n) PROVE x \in [Registers -> Int] /\ x["rip"] \in 1 .. 3
                 /\ x["cs"] = USER_CS /\ x["rflags"] = 0
  <2>1. n \in 1 .. 3
    OBVIOUS
  <2> QED
    BY <1>1, <1>6, <2>1
<1>7. USER_CS # KERNEL_CS
  BY DEF KERNEL_CS, USER_CS
<1>8. x = Idle \/ x = User(1) \/ x = User(2)
  BY DEF Outside
<1> QED
  BY <1>5, <1>6, <1>7, <1>8

\* The handlers' stubs return what they pushed.
LEMMA VectorsReturn ==
  ASSUME Returning
  PROVE  Vectors \subseteq Stubs
BY InterruptStubsAssumption DEF Returning, Stubs

\* What is known of a stub that will be returned to.
StubAt(o, r, mem, k) ==
  /\ o[k].vector \in Stubs /\ o[k].to \in [Registers -> Int]
  /\ Regs(o, r, k) \in [Registers -> Int]
  /\ Level(o[k].vector, Regs(o, r, k), o[k].to, mem)
  /\ Fits(BaseOf(o, r, k))
  /\ BaseOf(o, r, k) \in Int /\ Regs(o, r, k)["rsp"] \in Int
  /\ Regs(o, r, k)["rsp"] <= BaseOf(o, r, k) - 5
  /\ Regs(o, r, k)["rsp"] >= BaseOf(o, r, k) - 24
  /\ o[k].to["rip"] # KERNEL_CS

\* The entries of owed are records.
LEMMA OwedAt ==
  ASSUME NEW o, NEW r, NEW mem, OwedInv(o, r, mem), Returning
  PROVE  /\ Len(o) \in Nat
         /\ \A k \in 1 .. Len(o) :
              o[k].vector \in Stubs /\ o[k].vector \in Vectors /\ o[k].to \in [Registers -> Int]
         /\ \A k \in 1 .. Len(o) : Regs(o, r, k) \in [Registers -> Int]
         /\ o # << >> => Len(o) >= 1
<1>1. o \in Seq(Owing) /\ r \in [Registers -> Int]
  BY DEF OwedInv
<1>2. Len(o) \in Nat /\ (o # << >> => Len(o) >= 1)
  BY <1>1, LenProperties, EmptySeq
<1>3. \A k \in 1 .. Len(o) : o[k] \in Owing
  BY <1>1, ElementOfSeq, Zenon
<1>4. \A k \in 1 .. Len(o) : o[k].vector \in Vectors /\ o[k].to \in [Registers -> Int]
  BY <1>3 DEF Owing
<1>5. \A k \in 1 .. Len(o) : o[k].vector \in Stubs
  BY <1>4, VectorsReturn
<1>6. ASSUME NEW k \in 1 .. Len(o) PROVE Regs(o, r, k) \in [Registers -> Int]
  <2>1. CASE k = Len(o)
    BY <1>1, <2>1, Zenon DEF Regs
  <2>2. CASE k # Len(o)
    <3>1. k + 1 \in 1 .. Len(o)
      BY <1>2, <2>2
    <3> QED
      BY <1>4, <2>2, <3>1, Zenon DEF Regs
  <2> QED
    BY <2>1, <2>2
<1> QED
  BY <1>2, <1>4, <1>5, <1>6

\* A stub that will be returned to has its words on one of the stacks.
LEMMA AliveStub ==
  ASSUME NEW o, NEW r, NEW mem, StacksInv(o, r, mem), Returning,
         NEW k \in 1 .. Len(o), Alive(o, k)
  PROVE  StubAt(o, r, mem, k)
<1> DEFINE v == o[k].vector
           q == Regs(o, r, k)
<1>1. Len(o) \in Nat /\ v \in Stubs /\ o[k].to \in [Registers -> Int] /\ q \in [Registers -> Int]
      /\ Len(o) <= MaxDepth
  BY OwedAt DEF StacksInv, OwedInv
<1>2. Level(v, q, o[k].to, mem)
  BY DEF StacksInv, LevelsInv
<1>3. o[k].to["rip"] # KERNEL_CS
  BY DEF StacksInv, OwedInv
<1> HIDE DEF v, q
<1>4. PICK base \in Int, rsp \in Int, e \in 5 .. 24 : base = Base(v, q) /\ rsp = q["rsp"] /\ rsp = base - e
  <2>1. Place(v, q) \in 1 - Before(v) .. LastPlace(v)
    BY <1>2 DEF Level, LevelAt
  <2> QED
    BY <1>1, <2>1, BaseIs, ZenonT(60)
<1>5. base = BaseOf(o, r, k)
  BY <1>4 DEF BaseOf, v, q
<1>6. PICK b \in {RSP0, IST4, BOOT} : Placed(b, o, r, k)
  BY DEF StacksInv, PlacesInv
<1>7. base - 25 >= 0 /\ base <= BOOT
  <2>0. PICK s \in Nat, d \in Nat :
          /\ s = STACK /\ d = MaxDepth /\ d >= 1 /\ 26 * d + 2 <= s
          /\ RSP0 = s /\ IST1 = 2 * s /\ IST4 = 3 * s /\ BOOT = 4 * s
    BY StackSizes
  <2>1. k \in Nat /\ k <= d
    BY <1>1, <2>0
  <2>2. CASE o[k].vector = "sync_time"
    <3>1. base = 2 * s
      BY <1>5, <1>6, <2>0, <2>2 DEF Placed
    <3> QED
      BY <2>0, <3>1
  <2>3. CASE o[k].vector # "sync_time"
    <3>1. base \in b - 26 * (k - 1) - 2 .. b
      BY <1>5, <1>6, <2>3 DEF Placed
    <3>2. b \in {s, 3 * s, 4 * s}
      BY <2>0
    <3> QED
      BY <1>4, <2>0, <2>1, <3>1, <3>2
  <2> QED
    BY <2>2, <2>3
<1>8. Fits(base)
  BY <1>7 DEF Fits
<1>9. rsp <= base - 5 /\ rsp >= base - 24
  BY <1>4
<1> QED
  BY <1>1, <1>2, <1>3, <1>4, <1>5, <1>8, <1>9 DEF StubAt, v, q

\* The words of the stub on top, or of one that interrupts it, are not those of a stub
\* below it: a is one of them.
LEMMA WordsApart ==
  ASSUME NEW o, NEW r, NEW mem, StacksInv(o, r, mem), Returning,
         NEW n, n = Len(o), NEW k \in 1 .. n - 1, Alive(o, k), NEW a \in Int,
         a >= BaseOf(o, r, n) - 25, a < BaseOf(o, r, n),
         Regs(o, r, k)["rsp"] <= a
  PROVE  a >= BaseOf(o, r, k)
<1>0. n \in Nat /\ k \in 1 .. n /\ n \in 1 .. n /\ k # n /\ n <= MaxDepth /\ k < n
  BY OwedAt DEF StacksInv, OwedInv
<1>1. Alive(o, n)
  BY <1>0 DEF Alive
<1>2. StubAt(o, r, mem, k) /\ StubAt(o, r, mem, n)
  BY <1>0, <1>1, AliveStub
<1>3. PICK base \in Int, rsp \in Int, top \in Int :
        /\ base = BaseOf(o, r, k) /\ rsp = Regs(o, r, k)["rsp"] /\ top = BaseOf(o, r, n)
        /\ rsp <= base - 5 /\ rsp >= base - 24
  BY <1>2 DEF StubAt
<1>4. PICK b \in {RSP0, IST4, BOOT} : Placed(b, o, r, k) /\ Placed(b, o, r, n)
  BY <1>0, <1>1 DEF StacksInv, PlacesInv
<1>5. CASE o[n].vector # "sync_time"
  <2>1. top <= rsp
    BY <1>0, <1>3, <1>4, <1>5 DEF Placed
  <2> QED
    BY <1>3, <2>1, SMTT(40)
<1>6. CASE o[n].vector = "sync_time"
  <2>0. PICK s \in Nat, d \in Nat :
          /\ s = STACK /\ d = MaxDepth /\ d >= 1 /\ 26 * d + 2 <= s
          /\ RSP0 = s /\ IST1 = 2 * s /\ IST4 = 3 * s /\ BOOT = 4 * s
    BY StackSizes
  <2>1. o[k].vector # "sync_time"
    BY <1>0 DEF StacksInv, OwedInv
  <2>2. top = 2 * s
    BY <1>3, <1>4, <1>6, <2>0 DEF Placed
  <2>3. base \in b - 26 * (k - 1) - 2 .. b
    BY <1>3, <1>4, <2>1 DEF Placed
  <2>4. b \in {s, 3 * s, 4 * s} /\ k \in Nat /\ k <= d
    BY <1>0, <2>0
  <2> QED
    BY <1>3, <2>0, <2>2, <2>3, <2>4, SMTT(40)
<1> QED
  BY <1>5, <1>6
\* When the stub on top runs on and writes only words of its own, the stubs
\* it interrupted keep theirs.
LEMMA TopChanges ==
  ASSUME NEW o, NEW r, NEW mem, NEW r2, NEW mem2, StacksInv(o, r, mem), Returning,
         NEW n, n = Len(o), n >= 1, r2 \in [Registers -> Int], mem2 \in [Address -> Int],
         Level(o[n].vector, r2, o[n].to, mem2),
         Base(o[n].vector, r2) = Base(o[n].vector, r),
         \A a \in Address :
           mem2[a] = mem[a] \/ (BaseOf(o, r, n) - 25 <= a /\ a < BaseOf(o, r, n))
  PROVE  StacksInv(o, r2, mem2)
<1>0. n \in Nat /\ n \in 1 .. n /\ Alive(o, n)
  <2>1. n \in Nat
    BY OwedAt DEF StacksInv
  <2> QED
    BY <2>1 DEF Alive
<1>1. \A k \in 1 .. n - 1 : Regs(o, r2, k) = Regs(o, r, k) /\ BaseOf(o, r2, k) = BaseOf(o, r, k)
  <2> TAKE k \in 1 .. n - 1
  <2>1. k # n
    BY <1>0
  <2>2. Regs(o, r2, k) = Regs(o, r, k)
    BY <2>1, Zenon DEF Regs
  <2> QED
    BY <2>2, Zenon DEF BaseOf
<1>2. Regs(o, r2, n) = r2 /\ Regs(o, r, n) = r /\ BaseOf(o, r2, n) = BaseOf(o, r, n)
  <2>1. Regs(o, r2, n) = r2 /\ Regs(o, r, n) = r
    BY Zenon DEF Regs
  <2> QED
    BY <2>1, Zenon DEF BaseOf
<1>3. \A k \in 1 .. n : k = n \/ k \in 1 .. n - 1
  BY <1>0
<1>4. OwedInv(o, r2, mem2)
  <2>1. o # << >>
    BY EmptySeq DEF StacksInv, OwedInv
  <2> QED
    BY <2>1, Zenon DEF StacksInv, OwedInv
<1>5. ASSUME NEW k \in 1 .. n - 1, Alive(o, k)
      PROVE  Level(o[k].vector, Regs(o, r2, k), o[k].to, mem2)
  <2>1. k \in 1 .. n
    BY <1>0
  <2>2. StubAt(o, r, mem, k)
    BY <1>5, <2>1, AliveStub
  <2>3. ASSUME NEW a \in Int, Regs(o, r, k)["rsp"] <= a, a < BaseOf(o, r, k)
        PROVE  mem2[a] = mem[a]
    <3>1. a \in Address
      <4>1. PICK s \in Nat : BOOT = 4 * s /\ Address = 0 .. 4 * s - 1
        BY StackSizes
      <4>2. PICK base \in Int, rsp \in Int :
              /\ base = BaseOf(o, r, k) /\ rsp = Regs(o, r, k)["rsp"]
              /\ rsp >= base - 24 /\ base - 25 >= 0 /\ base <= BOOT
        BY <2>2 DEF StubAt, Fits
      <4>3. rsp <= a /\ a < base
        BY <2>3, <4>2, Zenon
      <4>5. base <= 4 * s
        BY <4>1, <4>2, Zenon
      <4>6. rsp >= base - 24 /\ base - 25 >= 0
        BY <4>2
      <4>4. a \in 0 .. 4 * s - 1
        BY <4>3, <4>5, <4>6
      <4> QED
        BY <4>1, <4>4, Zenon
    <3>2. ~(BaseOf(o, r, n) - 25 <= a /\ a < BaseOf(o, r, n))
      <4>1. PICK top \in Int : top = BaseOf(o, r, n)
        BY <1>0, AliveStub DEF StubAt
      <4>2. PICK base \in Int : base = BaseOf(o, r, k)
        BY <2>2 DEF StubAt
      <4>3. a >= top - 25 /\ a < top => a >= base
        BY <1>5, <2>3, <4>1, <4>2, WordsApart
      <4> QED
        BY <2>3, <4>1, <4>2, <4>3
    <3> QED
      BY <3>1, <3>2, Zenon
  <2>4. Level(o[k].vector, Regs(o, r, k), o[k].to, mem2)
    <3>1. o[k].vector \in Stubs /\ Regs(o, r, k) \in [Registers -> Int]
          /\ Level(o[k].vector, Regs(o, r, k), o[k].to, mem)
          /\ BaseOf(o, r, k) = Base(o[k].vector, Regs(o, r, k))
      BY <2>2, Zenon DEF StubAt, BaseOf
    <3>2. \A a \in Int : Regs(o, r, k)["rsp"] <= a /\ a < Base(o[k].vector, Regs(o, r, k)) => mem2[a] = mem[a]
      BY <2>3, <3>1, Zenon
    <3> QED
      BY <3>1, <3>2, LevelKept
  <2> QED
    BY <1>1, <2>4, Zenon
<1>6. LevelsInv(o, r2, mem2)
  BY <1>2, <1>3, <1>5, Zenon DEF LevelsInv
<1>7. PlacesInv(o, r2)
  <2>1. PICK b \in {RSP0, IST4, BOOT} : \A k \in 1 .. n : Alive(o, k) => Placed(b, o, r, k)
    BY DEF StacksInv, PlacesInv
  <2>2. ASSUME NEW k \in 1 .. n, Alive(o, k) PROVE Placed(b, o, r2, k)
    <3>1. \A j \in 1 .. k - 1 : j \in 1 .. n - 1
      BY <1>0
    <3>2. BaseOf(o, r2, k) = BaseOf(o, r, k)
      BY <1>1, <1>2, <1>3, Zenon
    <3>3. \A j \in 1 .. k - 1 : Regs(o, r2, j) = Regs(o, r, j)
      BY <1>1, <3>1, Zenon
    <3>4. Placed(b, o, r, k)
      BY <2>1, <2>2, Zenon
    <3> QED
      BY <3>2, <3>3, <3>4, Zenon DEF Placed
  <2> QED
    BY <2>1, <2>2, Zenon DEF PlacesInv
<1> QED
  BY <1>4, <1>6, <1>7, Zenon DEF StacksInv

\* In a stub the interrupt on top is the one it serves.
LEMMA TopStub ==
  ASSUME StacksInv(owed, reg, ram), Returning, owed # << >>,
         NEW n, n = Len(owed), NEW v, v = owed[n].vector, NEW p, p = Place(v, reg)
  PROVE  /\ n \in Nat /\ n >= 1 /\ n \in 1 .. n /\ Alive(owed, n) /\ Last(owed) = owed[n]
         /\ v \in Stubs /\ v \in Vectors /\ reg \in [Registers -> Int] /\ ram \in [Address -> Int]
         /\ BaseOf(owed, reg, n) = Base(v, reg)
         /\ Level(v, reg, owed[n].to, ram) /\ Fits(Base(v, reg))
         /\ owed[n].to \in [Registers -> Int] /\ owed[n].to["rip"] # KERNEL_CS
         /\ p \in 1 - Before(v) .. LastPlace(v) /\ p \in Int
         /\ InStub /\ Here = v /\ Instruction = Code(v)[Before(v) + p]
         /\ reg["cs"] = KERNEL_CS
<1>1. n \in Nat /\ n >= 1 /\ n \in 1 .. n
  <2>1. n \in Nat /\ n >= 1
    BY OwedAt DEF StacksInv
  <2> QED
    BY <2>1
<1>2. Alive(owed, n)
  BY <1>1 DEF Alive
<1>3. Regs(owed, reg, n) = reg
  BY Zenon DEF Regs
<1>4. StubAt(owed, reg, ram, n)
  BY <1>1, <1>2, AliveStub
<1>5. BaseOf(owed, reg, n) = Base(v, reg)
  BY <1>3, Zenon DEF BaseOf
<1>6. /\ v \in Stubs /\ reg \in [Registers -> Int]
      /\ Level(v, reg, owed[n].to, ram) /\ Fits(Base(v, reg))
      /\ owed[n].to \in [Registers -> Int] /\ owed[n].to["rip"] # KERNEL_CS
  BY <1>3, <1>4, <1>5, Zenon DEF StubAt
<1>7. p \in 1 - Before(v) .. LastPlace(v) /\ reg["cs"] = KERNEL_CS
  BY <1>6, Zenon DEF Level, LevelAt
<1>8. p \in Int
  BY <1>6, <1>7, BaseIs
<1>9. InStub /\ Here = v /\ Instruction = Code(v)[Before(v) + p]
  BY <1>6, <1>7, HereIs
<1>10. v \in Vectors
  BY <1>1, OwedAt DEF StacksInv
<1>11. ram \in [Address -> Int]
  BY DEF StacksInv, OwedInv
<1>12. Last(owed) = owed[n]
  BY DEF Last
<1> QED
  BY <1>1, <1>2, <1>5, <1>6, <1>7, <1>8, <1>9, <1>10, <1>11, <1>12, Zenon

\* Outside of the stubs no interrupt is in progress, and the other way round.
LEMMA InStubOwed ==
  ASSUME StacksInv(owed, reg, ram), InStub
  PROVE  owed # << >>
<1> SUFFICES ASSUME owed = << >> PROVE FALSE
  OBVIOUS
<1>1. reg \in Outside
  BY DEF StacksInv, OwedInv
<1>2. reg["rip"] \in 1 .. 3
  BY <1>1, OutsideRegisters
<1> QED
  BY <1>2 DEF InStub
----------------------------------------------------------------------------
(* The structure                                                           *)

\* InterruptRegisters has the registers in the order they are pushed, the
\* last one first.
LEMMA StructFields ==
  /\ Len(Struct) = 23
  /\ \A i \in 3 .. 17 : Struct[i] = Pushed[18 - i]
  /\ \A i \in 19 .. 23 : Struct[i] = Frame[i - 18]
  /\ \A i \in 1 .. 23 : Struct[i] \in Registers => i \in 3 .. 17 \/ i \in 19 .. 23
<1>1. /\ Pushed[1] = "rax" /\ Pushed[2] = "rcx" /\ Pushed[3] = "rdx" /\ Pushed[4] = "rbx"
      /\ Pushed[5] = "rbp" /\ Pushed[6] = "rsi" /\ Pushed[7] = "rdi" /\ Pushed[8] = "r8"
      /\ Pushed[9] = "r9" /\ Pushed[10] = "r10" /\ Pushed[11] = "r11" /\ Pushed[12] = "r12"
      /\ Pushed[13] = "r13" /\ Pushed[14] = "r14" /\ Pushed[15] = "r15"
  BY DEF Pushed
<1>2. /\ Struct[3] = "r15" /\ Struct[4] = "r14" /\ Struct[5] = "r13" /\ Struct[6] = "r12"
      /\ Struct[7] = "r11" /\ Struct[8] = "r10" /\ Struct[9] = "r9" /\ Struct[10] = "r8"
      /\ Struct[11] = "rdi" /\ Struct[12] = "rsi" /\ Struct[13] = "rbp" /\ Struct[14] = "rbx"
      /\ Struct[15] = "rdx" /\ Struct[16] = "rcx" /\ Struct[17] = "rax"
  BY DEF Struct
<1>3. /\ Struct[19] = "rip" /\ Struct[20] = "cs" /\ Struct[21] = "rflags" /\ Struct[22] = "rsp"
      /\ Struct[23] = "ss" /\ Struct[1] = "int_no" /\ Struct[2] = "cr2" /\ Struct[18] = "error_code"
      /\ Len(Struct) = 23
  BY DEF Struct
<1>4. \A i \in 3 .. 17 : Struct[i] = Pushed[18 - i]
  <2> TAKE i \in 3 .. 17
  <2>1. \/ i = 3 \/ i = 4 \/ i = 5 \/ i = 6 \/ i = 7 \/ i = 8 \/ i = 9 \/ i = 10 \/ i = 11
        \/ i = 12 \/ i = 13 \/ i = 14 \/ i = 15 \/ i = 16 \/ i = 17
    OBVIOUS
  <2> QED
    BY <1>1, <1>2, <2>1
<1>5. \A i \in 19 .. 23 : Struct[i] = Frame[i - 18]
  <2> TAKE i \in 19 .. 23
  <2>1. i = 19 \/ i = 20 \/ i = 21 \/ i = 22 \/ i = 23
    OBVIOUS
  <2> QED
    BY <1>3, <2>1, RegisterNames
<1>6. "int_no" \notin Registers /\ "cr2" \notin Registers /\ "error_code" \notin Registers
  <2>1. \A j \in 1 .. 15 : Pushed[j] # "int_no" /\ Pushed[j] # "cr2" /\ Pushed[j] # "error_code"
    <3> TAKE j \in 1 .. 15
    <3>1. \/ j = 1 \/ j = 2 \/ j = 3 \/ j = 4 \/ j = 5 \/ j = 6 \/ j = 7 \/ j = 8
          \/ j = 9 \/ j = 10 \/ j = 11 \/ j = 12 \/ j = 13 \/ j = 14 \/ j = 15
      OBVIOUS
    <3> QED
      BY <1>1, <3>1
  <2> QED
    BY <2>1, RegisterNames
<1>7. \A i \in 1 .. 23 : i = 1 \/ i = 2 \/ i = 18 \/ i \in 3 .. 17 \/ i \in 19 .. 23
  OBVIOUS
<1> QED
  BY <1>3, <1>4, <1>5, <1>6, <1>7

\* At the call the structure in memory has the registers the stub goes back to.
LEMMA CallSees ==
  ASSUME NEW v \in Stubs, NEW t, reg \in [Registers -> Int], Level(v, reg, t, ram),
         Place(v, reg) = 20, Words(v) = 6, Fits(Base(v, reg)),
         NEW i \in 1 .. Len(Struct), Struct[i] \in Registers
  PROVE  StructAt(reg["rdi"])[i] = t[Struct[i]]
<1>0. PICK base \in Int, rsp \in Int : base = Base(v, reg) /\ rsp = reg["rsp"] /\ rsp = base - 23
  <2>1. Place(v, reg) \in 1 - Before(v) .. LastPlace(v)
    BY DEF Level, LevelAt
  <2>2. Depth(v, 20) = 23
    BY DEF Depth
  <2> QED
    BY <2>1, <2>2, BaseIs
<1>1. LevelAt(v, 20, base, reg, t, ram)
  BY <1>0, Zenon DEF Level
<1>2. reg["rdi"] = rsp
  BY <1>0, <1>1, Zenon DEF LevelAt
<1>3. i \in 1 .. 23 /\ (i \in 3 .. 17 \/ i \in 19 .. 23)
  BY StructFields
<1>4. rsp + i - 1 \in Address
  <2>1. PICK s \in Nat : BOOT = 4 * s /\ Address = 0 .. 4 * s - 1
    BY StackSizes
  <2>2. base - 25 >= 0 /\ base <= 4 * s
    BY <1>0, <2>1 DEF Fits
  <2>3. rsp + i - 1 \in 0 .. 4 * s - 1
    BY <1>0, <1>3, <2>2, SMTT(40)
  <2> QED
    BY <2>1, <2>3, Zenon
<1>5. StructAt(reg["rdi"])[i] = ram[rsp + i - 1]
  BY <1>2, <1>4 DEF StructAt
<1>6. CASE i \in 3 .. 17
  <2>1. PICK j \in 1 .. 15 : j = 18 - i
    BY <1>6
  <2>2. OnStack(20, j) /\ base - 6 - j = rsp + i - 1
    BY <1>0, <1>6, <2>1 DEF OnStack
  <2>3. ram[base - Words(v) - j] = t[Pushed[j]]
    BY <1>1, <2>2, Zenon DEF LevelAt
  <2>4. Struct[i] = Pushed[j]
    BY <1>6, <2>1, StructFields
  <2> QED
    BY <1>5, <2>2, <2>3, <2>4, Zenon
<1>7. CASE i \in 19 .. 23
  <2>1. PICK j \in 1 .. 5 : j = i - 18
    BY <1>7
  <2>2. base - 6 + j = rsp + i - 1
    BY <1>0, <1>7, <2>1
  <2>3. ram[base - 6 + j] = t[Frame[j]]
    BY <1>1, Zenon DEF LevelAt
  <2>4. Struct[i] = Frame[j]
    BY <1>7, <2>1, StructFields
  <2> QED
    BY <1>5, <2>2, <2>3, <2>4, Zenon
<1> QED
  BY <1>3, <1>6, <1>7

----------------------------------------------------------------------------
(* The actions                                                             *)

\* Stubs whose handlers read the structure have an error code in it.
LEMMA ReadersWords ==
  ASSUME Returning, NEW v \in Readers
  PROVE  Words(v) = 6 /\ v # "sync_time"
<1>1. v \in {"timer", "keyboard", "isr80", "gpf", "page_fault"}
  BY InterruptStubsAssumption DEF Returning, Readers, AllVectors, IRQs
<1> QED
  BY <1>1 DEF Words, HasError, PushesError

\* Where a stub's call and its C function are.
LEMMA CallPlace ==
  ASSUME NEW v \in Stubs, NEW p \in 1 - Before(v) .. LastPlace(v)
  PROVE  /\ Code(v)[Before(v) + p].op = "call" => p = 20
         /\ Code(v)[Before(v) + p].op = "handler" => p = 21
         /\ Code(v)[Before(v) + p].op = "iretq" => p = LastPlace(v)
<1> DEFINE c == Code(v)[Before(v) + p]
<1>2. PICK w \in {5, 6}, b \in {1, 2}, l \in {38, 39, 40} :
        /\ w = Words(v) /\ b = Before(v) /\ l = LastPlace(v)
        /\ l = (IF w = 5 THEN 38 ELSE IF v = "gpf" THEN 40 ELSE 39)
  BY StubKinds DEF LastPlace
<1>1. c = Code(v)[b + p]
  BY <1>2
<1> HIDE DEF c
<1>3. p \in 1 - b .. l
  BY <1>2
<1>4. CASE p = 1 - b
  <2>1. b + p = 1
    BY <1>2, <1>4
  <2>2. c = Op(IF v \in HasError THEN "check_cpl_err" ELSE "check_cpl")
    BY <1>1, <2>1, CodeParts, Zenon
  <2>3. c.op \in {"check_cpl", "check_cpl_err"}
    BY <2>2 DEF Op
  <2> QED
    BY <2>3 DEF c
<1>5. CASE b = 2 /\ p = 0
  <2>1. b + p = 2
    BY <1>5
  <2>2. c = OpN("pushc", 0)
    BY <1>1, <1>2, <1>5, <2>1, CodeParts, Zenon
  <2>3. c.op = "pushc"
    BY <2>2 DEF OpN
  <2> QED
    BY <2>3 DEF c
<1>6. CASE p \in 1 .. 15
  <2>1. c = OpR("push", Pushed[p])
    BY <1>1, <1>2, <1>6, CodeParts, Zenon
  <2>2. c.op = "push"
    BY <2>1 DEF OpR
  <2> QED
    BY <2>2 DEF c
<1>7. CASE p \in {16, 17, 18, 19, 22}
  <2>1. \/ c = Op("cr2") \/ c = OpR("push", "rax") \/ c = OpN("pushc", Number[v])
        \/ c = Op("rdi") \/ c = OpN("add", 2)
    BY <1>1, <1>2, <1>7, CodeParts
  <2>2. c.op \in {"cr2", "push", "pushc", "rdi", "add"}
    BY <2>1 DEF Op, OpR, OpN
  <2> QED
    BY <2>2 DEF c
<1>8. CASE p = 20
  <2>1. c = Op("call")
    BY <1>1, <1>2, <1>8, CodeParts, Zenon
  <2>2. c.op = "call"
    BY <2>1 DEF Op
  <2> QED
    BY <1>8, <2>2 DEF c
<1>9. CASE p = 21
  <2>1. c = Op("handler")
    BY <1>1, <1>2, <1>9, CodeParts, Zenon
  <2>2. c.op = "handler"
    BY <2>1 DEF Op
  <2> QED
    BY <1>9, <2>2 DEF c
<1>10. CASE p \in 23 .. 37
  <2>0. PICK k \in 1 .. 15 : k = p - 22 /\ b + p = b + 22 + k
    BY <1>2, <1>10
  <2>1. c = OpR("pop", Pushed[16 - k])
    BY <1>1, <1>2, <2>0, CodeParts, ZenonT(60)
  <2>2. c.op = "pop"
    BY <2>1 DEF OpR
  <2> QED
    BY <2>2 DEF c
<1>11. CASE p = 38 /\ w = 6
  <2>1. c = OpN("add", 1)
    BY <1>1, <1>2, <1>11, CodeParts, Zenon
  <2>2. c.op = "add"
    BY <2>1 DEF OpN
  <2> QED
    BY <2>2 DEF c
<1>12. CASE p = 39 /\ v = "gpf"
  <2>1. c = Op("sti")
    BY <1>1, <1>2, <1>12, CodeParts, Zenon
  <2>2. c.op = "sti"
    BY <2>1 DEF Op
  <2> QED
    BY <2>2 DEF c
<1>13. CASE p = l
  <2>0. Code(v)[Before(v) + LastPlace(v)] = Op("iretq")
    BY CodeParts, Zenon
  <2>1. c = Op("iretq")
    BY <1>2, <1>13, <2>0, Zenon DEF c
  <2>2. c.op = "iretq"
    BY <2>1 DEF Op
  <2> QED
    BY <1>2, <1>13, <2>2 DEF c
<1>14. \/ p = 1 - b \/ (b = 2 /\ p = 0) \/ p \in 1 .. 15 \/ p \in {16, 17, 18, 19, 22} \/ p = 20
       \/ p = 21 \/ p \in 23 .. 37 \/ (p = 38 /\ w = 6) \/ (p = 39 /\ v = "gpf") \/ p = l
  BY <1>2, <1>3
<1> QED
  BY <1>4, <1>5, <1>6, <1>7, <1>8, <1>9, <1>10, <1>11, <1>12, <1>13, <1>14

\* An instruction of a stub.
LEMMA StepKeeps ==
  ASSUME StubInv, Returning, Step
  PROVE  StubInv'
<1>1. StacksInv(owed, reg, ram) /\ InStub
  BY DEF StubInv, Step
<1>2. owed # << >>
  BY <1>1, InStubOwed
<1>3. PICK n, v, p : n = Len(owed) /\ v = owed[n].vector /\ p = Place(v, reg)
  OBVIOUS
<1>4. /\ n \in Nat /\ n >= 1 /\ n \in 1 .. n /\ Last(owed) = owed[n]
      /\ v \in Stubs /\ v \in Vectors /\ reg \in [Registers -> Int] /\ ram \in [Address -> Int]
      /\ BaseOf(owed, reg, n) = Base(v, reg)
      /\ Level(v, reg, owed[n].to, ram) /\ Fits(Base(v, reg))
      /\ owed[n].to \in [Registers -> Int] /\ owed[n].to["rip"] # KERNEL_CS
      /\ p \in 1 - Before(v) .. LastPlace(v) /\ p \in Int
      /\ Here = v /\ Instruction = Code(v)[Before(v) + p]
  BY <1>1, <1>2, <1>3, TopStub
<1>5. PICK E : E = Executed(Machine(reg, ram), Instruction)
  OBVIOUS
<1>6. reg' = E.reg /\ ram' = E.ram /\ owed' = owed /\ Instruction.op \notin {"handler", "iretq"}
  BY <1>5, Zenon DEF Step, Machine
<1>7. Continues(v, reg, owed[n].to, ram, E)
  BY <1>3, <1>4, <1>5, <1>6, StubContinues
<1>8. /\ E.reg \in [Registers -> Int] /\ Level(v, E.reg, owed[n].to, E.ram)
      /\ Base(v, E.reg) = Base(v, reg) /\ E.ram \in [Address -> Int]
      /\ \A a \in Address : a # reg["rsp"] - 1 => E.ram[a] = ram[a]
  BY <1>7, Zenon DEF Continues, Wrote
<1>9. ASSUME NEW a \in Address
      PROVE  E.ram[a] = ram[a] \/ (BaseOf(owed, reg, n) - 25 <= a /\ a < BaseOf(owed, reg, n))
  <2>1. PICK base \in Int, rsp \in Int, e \in 5 .. 24 :
          base = BaseOf(owed, reg, n) /\ rsp = reg["rsp"] /\ rsp = base - e
    <3>1. Place(v, reg) \in 1 - Before(v) .. LastPlace(v)
      BY <1>3, <1>4, Zenon
    <3>2. PICK base \in Int, rsp \in Int, e \in 5 .. 24 :
            base = Base(v, reg) /\ rsp = reg["rsp"] /\ rsp = base - e
      BY <1>4, <3>1, BaseIs
    <3> QED
      BY <1>4, <3>2, Zenon
  <2>2. CASE a # rsp - 1
    BY <1>8, <2>1, <2>2, Zenon
  <2>3. CASE a = rsp - 1
    <3>1. base - 25 <= a /\ a < base
      BY <2>1, <2>3
    <3> QED
      BY <2>1, <3>1, Zenon
  <2> QED
    BY <2>2, <2>3
<1>10. StacksInv(owed, E.reg, E.ram)
  BY <1>1, <1>3, <1>4, <1>8, <1>9, TopChanges
<1>11. HandlerSeesFrame'
  <2>1. CASE Instruction.op = "call" /\ Here \in Readers
    <3>1. called' = << StructAt(reg["rdi"]), owed[n].to >>
      BY <1>4, <2>1, Zenon DEF Step
    <3>2. p = 20 /\ Words(v) = 6
      BY <1>4, <2>1, CallPlace, ReadersWords
    <3>3. \A i \in 1 .. Len(Struct) : Struct[i] \in Registers => StructAt(reg["rdi"])[i] = (owed[n].to)[Struct[i]]
      <4>1. PICK t : t = owed[n].to
        OBVIOUS
      <4>2. Level(v, reg, t, ram) /\ Place(v, reg) = 20
        BY <1>3, <1>4, <3>2, <4>1, Zenon
      <4> QED
        BY <1>4, <3>2, <4>1, <4>2, CallSees, ZenonT(60)
    <3>4. called'[1] = StructAt(reg["rdi"]) /\ called'[2] = owed[n].to
      BY <3>1
    <3> QED
      BY <3>3, <3>4, Zenon DEF HandlerSeesFrame
  <2>2. CASE ~(Instruction.op = "call" /\ Here \in Readers)
    <3>1. called' = << >>
      BY <2>2, Zenon DEF Step
    <3> QED
      BY <3>1, Zenon DEF HandlerSeesFrame
  <2> QED
    BY <2>1, <2>2
<1> QED
  BY <1>6, <1>10, <1>11, Zenon DEF StubInv
\* mem_set_cr3 turns interrupts on in a handler.
LEMMA TurnOnKeeps ==
  ASSUME StubInv, Returning, TurnOn
  PROVE  StubInv'
<1>1. StacksInv(owed, reg, ram) /\ InStub
  BY DEF StubInv, TurnOn
<1>2. owed # << >>
  BY <1>1, InStubOwed
<1>3. PICK n, v, p, t : n = Len(owed) /\ v = owed[n].vector /\ p = Place(v, reg) /\ t = owed[n].to
  OBVIOUS
<1>4. /\ n \in Nat /\ n >= 1 /\ v \in Stubs /\ reg \in [Registers -> Int] /\ ram \in [Address -> Int]
      /\ Level(v, reg, t, ram)
      /\ p \in 1 - Before(v) .. LastPlace(v)
      /\ Here = v /\ Instruction = Code(v)[Before(v) + p]
  BY <1>1, <1>2, <1>3, TopStub
<1>5. p = 21 /\ v # "sync_time"
  BY <1>4, CallPlace, ReadersWords DEF TurnOn
<1>6. PICK r2 : r2 = [reg EXCEPT !["rflags"] = 1]
  OBVIOUS
<1>7. reg' = r2 /\ ram' = ram /\ owed' = owed /\ called' = << >>
  BY <1>6, Zenon DEF TurnOn
<1>8. /\ r2 \in [Registers -> Int] /\ r2["rip"] = reg["rip"] /\ r2["rsp"] = reg["rsp"]
      /\ r2["cs"] = reg["cs"] /\ r2["rdi"] = reg["rdi"] /\ r2["rflags"] = 1
  BY <1>4, <1>6, FrameNotGPR
<1>9. Place(v, r2) = p /\ Base(v, r2) = Base(v, reg)
  BY <1>3, <1>8, Zenon DEF Place, Base
<1>10. Level(v, r2, t, ram)
  <2>1. LevelAt(v, p, Base(v, reg), reg, t, ram)
    BY <1>3, <1>4, Zenon DEF Level
  <2>2. \A j \in 1 .. 15 : ~InPlace(p, j)
    BY <1>5 DEF InPlace
  <2>3. LevelAt(v, p, Base(v, reg), r2, t, ram)
    BY <1>5, <1>8, <2>1, <2>2, Zenon DEF LevelAt
  <2> QED
    BY <1>9, <2>3, Zenon DEF Level
<1>11. StacksInv(owed, r2, ram)
  BY <1>1, <1>3, <1>4, <1>8, <1>9, <1>10, TopChanges
<1>12. HandlerSeesFrame'
  BY <1>7, Zenon DEF HandlerSeesFrame
<1> QED
  BY <1>7, <1>11, <1>12, Zenon DEF StubInv

\* The registers after the C function; the words of a stub that goes back to t.
Returned(r, mem, r2) ==
  /\ r2 \in [Registers -> Int] /\ r2["rip"] = mem[r["rsp"]] /\ r2["rsp"] = r["rsp"] + 1
  /\ r2["cs"] = r["cs"] /\ r2["rflags"] = r["rflags"]

Holds(v, base, t, mem) ==
  /\ \A j \in 1 .. 5 : mem[base - 6 + j] = t[Frame[j]]
  /\ \A j \in 1 .. 15 : mem[base - Words(v) - j] = t[Pushed[j]]

\* The structure of the stub on top has been replaced by t.
Replaced(o, o2, t) == o2 = [o EXCEPT ![Len(o)].to = t]

\* What the C function leaves behind: the stub goes back to t2.
LEMMA HandlerLevel ==
  ASSUME NEW v \in Stubs, NEW r \in [Registers -> Int], NEW mem, NEW t, NEW t2, NEW r2, NEW mem2,
         Level(v, r, t, mem), Place(v, r) = 21,
         Returned(r, mem, r2), Holds(v, Base(v, r), t2, mem2)
  PROVE  Level(v, r2, t2, mem2) /\ Base(v, r2) = Base(v, r)
<1>0. PICK rsp \in Int, rip \in Int, base \in Int, w \in {5, 6} :
        /\ rsp = r["rsp"] /\ rip = r["rip"] /\ base = Base(v, r) /\ w = Words(v)
        /\ rsp = base - (w + 18)
  <2>1. Place(v, r) \in 1 - Before(v) .. LastPlace(v)
    BY DEF Level, LevelAt
  <2>2. PICK w \in {5, 6} : w = Words(v)
    BY StubKinds
  <2>3. Depth(v, 21) = w + 18
    BY <2>2 DEF Depth
  <2> QED
    BY <2>1, <2>2, <2>3, BaseIs
<1>1. LevelAt(v, 21, base, r, t, mem)
  BY <1>0, Zenon DEF Level
<1>2. r2["rip"] = rip + 1 /\ r2["rsp"] = rsp + 1
  BY <1>0, <1>1, Zenon DEF LevelAt, Returned
<1>3. Place(v, r2) = 22
  <2>1. PICK n \in 0 .. 8, b \in {1, 2} : n = Number[v] /\ b = Before(v)
    BY StubKinds
  <2>2. 21 = rip - (1000 + 100 * n + b)
    BY <1>0, <2>1 DEF Place, At
  <2>3. Place(v, r2) = (rip + 1) - (1000 + 100 * n + b)
    BY <1>2, <2>1 DEF Place, At
  <2> QED
    BY <2>2, <2>3
<1>4. Base(v, r2) = base
  <2>1. Depth(v, 22) = w + 17
    BY <1>0 DEF Depth
  <2>2. Base(v, r2) = (rsp + 1) + (w + 17)
    BY <1>2, <1>3, <2>1, Zenon DEF Base
  <2> QED
    BY <1>0, <2>2
<1>5. 22 \in 1 - Before(v) .. LastPlace(v)
  BY StubKinds
<1>6. \A j \in 1 .. 15 : ~InPlace(22, j)
  BY DEF InPlace
<1>7. ~(22 <= 0) /\ 22 # 20 /\ 22 # 21
  OBVIOUS
<1>8. LevelAt(v, 22, base, r2, t2, mem2)
  BY <1>0, <1>1, <1>5, <1>6, <1>7, Zenon DEF LevelAt, Returned, Holds
<1> QED
  BY <1>0, <1>3, <1>4, <1>8, Zenon DEF Level

\* The stub on top goes back to another task: the ones it interrupted are not
\* returned to.
LEMMA TopSwitches ==
  ASSUME NEW o, NEW r, NEW mem, NEW r2, NEW mem2, StacksInv(o, r, mem), Returning,
         NEW n, n = Len(o), n >= 1, r2 \in [Registers -> Int], mem2 \in [Address -> Int],
         NEW t \in Outside, t["cs"] = USER_CS,
         Level(o[n].vector, r2, t, mem2),
         Base(o[n].vector, r2) = Base(o[n].vector, r),
         NEW o2, Replaced(o, o2, t)
  PROVE  StacksInv(o2, r2, mem2)
<1>0. /\ n \in Nat /\ o \in Seq(Owing) /\ n <= MaxDepth
      /\ \A k \in 1 .. n : o[k].vector \in Vectors /\ o[k].to \in [Registers -> Int]
  BY OwedAt DEF StacksInv, OwedInv
<1>1. n \in 1 .. n
  BY <1>0
<1>2. t \in [Registers -> Int] /\ t["rip"] # KERNEL_CS /\ KERNEL_CS # USER_CS
  <2>1. t \in [Registers -> Int] /\ t["rip"] \in 1 .. 3
    BY OutsideRegisters
  <2> QED
    BY <2>1 DEF KERNEL_CS, USER_CS
<1>3. PICK e : e = [o[n] EXCEPT !.to = t]
  OBVIOUS
<1>4. o[n] \in Owing
  BY <1>0, <1>1, ElementOfSeq
<1>5. e \in Owing /\ e.vector = o[n].vector /\ e.to = t
  BY <1>2, <1>3, <1>4 DEF Owing
<1>6. o2 = [o EXCEPT ![n] = e]
  BY <1>3 DEF Replaced
<1>7. /\ o2 \in Seq(Owing) /\ Len(o2) = n
      /\ \A j \in 1 .. n : o2[j] = IF j = n THEN e ELSE o[j]
  <2>1. o \in [1 .. n -> Owing]
    BY <1>0, LenProperties, ElementOfSeq
  <2>2. o2 \in [1 .. n -> Owing] /\ \A j \in 1 .. n : o2[j] = IF j = n THEN e ELSE o[j]
    BY <1>1, <1>5, <1>6, <2>1
  <2>3. o2 \in Seq(Owing)
    BY <1>0, <2>2, SMTT(40)
  <2>4. Len(o2) = n
    BY <1>0, <2>2, <2>3, LenProperties
  <2> QED
    BY <2>2, <2>3, <2>4
<1>8. o2[n] = e /\ \A j \in 1 .. n - 1 : j \in 1 .. n /\ o2[j] = o[j]
  BY <1>0, <1>1, <1>7
<1>9. \A k \in 1 .. n : k = n \/ k \in 1 .. n - 1
  BY <1>0
<1>10. \A k \in 1 .. n - 1 : ~Alive(o2, k)
  <2> TAKE k \in 1 .. n - 1
  <2>1. n \in k + 1 .. n
    BY <1>0
  <2>2. o2[n].to["cs"] # KERNEL_CS
    BY <1>2, <1>5, <1>8, Zenon
  <2> QED
    BY <1>7, <2>1, <2>2, Zenon DEF Alive
<1>11. Regs(o2, r2, n) = r2 /\ Regs(o, r, n) = r
  BY <1>7, Zenon DEF Regs
<1>12. OwedInv(o2, r2, mem2)
  <2>1. o2 # << >>
    BY <1>0, <1>7, EmptySeq
  <2>2. ASSUME NEW k \in 1 .. n
        PROVE  /\ o2[k].to["cs"] \in {KERNEL_CS, USER_CS} /\ o2[k].to["rip"] # KERNEL_CS
               /\ k = 1 \/ o2[k].to["cs"] = USER_CS => o2[k].to \in Outside
               /\ k < n => o2[k].vector # "sync_time"
    <3>1. CASE k = n
      <4>1. ~(k < n)
        BY <1>0, <3>1
      <4> QED
        BY <1>2, <1>5, <1>8, <3>1, <4>1, Zenon
    <3>2. CASE k \in 1 .. n - 1
      BY <1>8, <3>2, Zenon DEF StacksInv, OwedInv
    <3> QED
      BY <1>9, <3>1, <3>2
  <2> QED
    BY <1>0, <1>7, <2>1, <2>2, Zenon DEF OwedInv
<1>13. LevelsInv(o2, r2, mem2)
  BY <1>5, <1>7, <1>8, <1>9, <1>10, <1>11, Zenon DEF LevelsInv
<1>14. PlacesInv(o2, r2)
  <2>1. Alive(o, n)
    BY <1>0 DEF Alive
  <2>2. PICK b \in {RSP0, IST4, BOOT} : Placed(b, o, r, n)
    BY <1>1, <2>1, Zenon DEF StacksInv, PlacesInv
  <2>3. BaseOf(o2, r2, n) = BaseOf(o, r, n)
    BY <1>5, <1>8, <1>11, Zenon DEF BaseOf
  <2>4. Placed(b, o2, r2, n)
    BY <1>5, <1>8, <1>10, <2>2, <2>3, Zenon DEF Placed
  <2> QED
    BY <1>7, <1>9, <1>10, <2>4, Zenon DEF PlacesInv
<1> QED
  BY <1>12, <1>13, <1>14, Zenon DEF StacksInv
\* Programs run in user mode.
LEMMA UserMode == User(2) \in Outside /\ User(2)["cs"] = USER_CS
BY FrameNotGPR DEF Outside, User

\* The C function returns, with the structure as it was or another task's.
LEMMA HandlerKeeps ==
  ASSUME StubInv, Returning, owed # << >>,
         NEW to \in {User(2), Last(owed).to}, Handler(to)
  PROVE  StubInv' /\ Len(owed') = Len(owed)
<1>1. StacksInv(owed, reg, ram)
  BY DEF StubInv
<1>3. PICK n, v, p, t : n = Len(owed) /\ v = owed[n].vector /\ p = Place(v, reg) /\ t = owed[n].to
  OBVIOUS
<1>4. /\ n \in Nat /\ n >= 1 /\ n \in 1 .. n /\ v \in Stubs /\ reg \in [Registers -> Int]
      /\ ram \in [Address -> Int] /\ Last(owed) = owed[n]
      /\ Level(v, reg, t, ram) /\ Fits(Base(v, reg)) /\ BaseOf(owed, reg, n) = Base(v, reg)
      /\ p \in 1 - Before(v) .. LastPlace(v) /\ t \in [Registers -> Int]
      /\ Here = v /\ Instruction = Code(v)[Before(v) + p]
  BY <1>1, <1>3, TopStub
<1>5. p = 21
  BY <1>4, CallPlace DEF Handler
<1>6. PICK rsp \in Int, base \in Int, w \in {5, 6} :
        /\ rsp = reg["rsp"] /\ base = Base(v, reg) /\ w = Words(v)
        /\ rsp = base - (w + 18)
  <2>1. Place(v, reg) \in 1 - Before(v) .. LastPlace(v)
    BY <1>3, <1>4, Zenon
  <2>2. PICK w \in {5, 6} : w = Words(v)
    BY <1>4, StubKinds
  <2>3. Depth(v, 21) = w + 18
    BY <2>2 DEF Depth
  <2>4. PICK e : e = Depth(v, Place(v, reg)) /\ e = w + 18
    BY <1>3, <1>5, <2>3, Zenon
  <2>5. PICK rsp \in Int, base \in Int : rsp = reg["rsp"] /\ base = Base(v, reg) /\ rsp = base - e
    BY <1>4, <2>1, <2>4, BaseIs
  <2> QED
    BY <2>2, <2>4, <2>5, Zenon
<1>16. Place(v, reg) = 21
  BY <1>3, <1>5, Zenon
<1>7. LevelAt(v, 21, base, reg, t, ram)
  BY <1>3, <1>4, <1>5, <1>6, Zenon DEF Level
<1>8. \A a \in Int : base - 25 <= a /\ a < base => a \in Address
  <2>1. PICK s \in Nat : BOOT = 4 * s /\ Address = 0 .. 4 * s - 1
    BY StackSizes
  <2>2. base - 25 >= 0 /\ base <= 4 * s
    BY <1>4, <1>6, <2>1 DEF Fits
  <2>3. \A a \in Int : base - 25 <= a /\ a < base => a \in 0 .. 4 * s - 1
    BY <2>2
  <2> QED
    BY <2>1, <2>3, Zenon
<1>9. ram[rsp] \in Int
  <2>1. base - 25 <= rsp /\ rsp < base
    BY <1>6
  <2>2. rsp \in Address
    BY <1>8, <2>1, Zenon
  <2> QED
    BY <1>4, <2>2
<1>10. PICK r2 : r2 = [reg EXCEPT !["rip"] = ram[rsp], !["rsp"] = rsp + 1,
                            !["rax"] = 0, !["rcx"] = 0, !["rdx"] = 0, !["rdi"] = 0]
  OBVIOUS
<1>11. reg' = r2 /\ owed' = [owed EXCEPT ![n].to = to] /\ called' = << >>
  <2>1. reg' = [reg EXCEPT !["rip"] = ram[reg["rsp"]], !["rsp"] = reg["rsp"] + 1,
                            !["rax"] = 0, !["rcx"] = 0, !["rdx"] = 0, !["rdi"] = 0]
    BY Zenon DEF Handler
  <2>2. owed' = [owed EXCEPT ![n].to = to] /\ called' = << >>
    BY <1>3, Zenon DEF Handler
  <2> QED
    BY <1>6, <1>10, <2>1, <2>2, Zenon
<1>12. /\ r2 \in [Registers -> Int] /\ r2["rip"] = ram[reg["rsp"]] /\ r2["rsp"] = reg["rsp"] + 1
       /\ r2["cs"] = reg["cs"] /\ r2["rflags"] = reg["rflags"]
  <2>1. PICK x \in Int, y \in Int : x = ram[rsp] /\ y = rsp + 1
    BY <1>9
  <2>2. r2 = [reg EXCEPT !["rip"] = x, !["rsp"] = y,
                            !["rax"] = 0, !["rcx"] = 0, !["rdx"] = 0, !["rdi"] = 0]
    BY <1>10, <2>1, Zenon
  <2>3. /\ r2 \in [Registers -> Int] /\ r2["rip"] = x /\ r2["rsp"] = y
        /\ r2["cs"] = reg["cs"] /\ r2["rflags"] = reg["rflags"]
    <3>1. PICK r1 : r1 = [reg EXCEPT !["rip"] = x, !["rsp"] = y]
      OBVIOUS
    <3>2. /\ r1 \in [Registers -> Int] /\ r1["rip"] = x /\ r1["rsp"] = y
          /\ r1["cs"] = reg["cs"] /\ r1["rflags"] = reg["rflags"]
      BY <1>4, <3>1, FrameNotGPR
    <3>3. r2 = [r1 EXCEPT !["rax"] = 0, !["rcx"] = 0, !["rdx"] = 0, !["rdi"] = 0]
      BY <2>2, <3>1, Zenon
    <3> QED
      BY <3>2, <3>3, FrameNotGPR, SMTT(40)
  <2> QED
    BY <1>6, <2>1, <2>3, Zenon
<1>13. HandlerSeesFrame'
  BY <1>11, Zenon DEF HandlerSeesFrame
<1>14. CASE to = t
  <2>1. ram' = ram
    <3>1. ram' = [x \in Address |-> ram[x]]
      BY <1>3, <1>4, <1>14 DEF Handler
    <3> QED
      BY <1>4, <3>1
  <2>2. owed' = owed
    <3>1. [owed[n] EXCEPT !.to = t] = owed[n]
      <4>1. owed[n] \in Owing
        BY <1>1, <1>3, <1>4, ElementOfSeq DEF StacksInv, OwedInv
      <4> QED
        BY <1>3, <4>1 DEF Owing
    <3>2. [owed EXCEPT ![n] = owed[n]] = owed
      <4>1. owed \in Seq(Owing)
        BY <1>1 DEF StacksInv, OwedInv
      <4> QED
        BY <4>1
    <3> QED
      BY <1>11, <1>14, <3>1, <3>2
  <2>3. \A j \in 1 .. 5 : ram[Base(v, reg) - 6 + j] = t[Frame[j]]
    BY <1>6, <1>7, Zenon DEF LevelAt
  <2>4. \A j \in 1 .. 15 : ram[Base(v, reg) - Words(v) - j] = t[Pushed[j]]
    <3>1. \A j \in 1 .. 15 : OnStack(21, j)
      BY DEF OnStack
    <3> QED
      BY <1>6, <1>7, <3>1, Zenon DEF LevelAt
  <2>5. Level(v, r2, t, ram) /\ Base(v, r2) = Base(v, reg)
    <3>1. Returned(reg, ram, r2) /\ Holds(v, Base(v, reg), t, ram)
      BY <1>12, <2>3, <2>4, Zenon DEF Returned, Holds
    <3> QED
      BY <1>4, <1>16, <3>1, HandlerLevel
  <2>6. StacksInv(owed, r2, ram)
    BY <1>1, <1>3, <1>4, <1>12, <2>5, TopChanges
  <2> QED
    BY <1>11, <1>13, <2>1, <2>2, <2>6, Zenon DEF StubInv
<1>15. CASE to # t
  <2>1. to = User(2) /\ v \in Switchers
    BY <1>3, <1>4, <1>15 DEF Handler
  <2>2. w = 6
    BY <1>6, <2>1 DEF Switchers, Words, HasError, PushesError
  <2>3. to \in Outside /\ to["cs"] = USER_CS
    BY <2>1, UserMode
  <2>4. to \in [Registers -> Int]
    BY <2>3, OutsideRegisters
  <2>5. reg["rdi"] = base - 23
    <3>1. reg["rdi"] = rsp + 1
      BY <1>6, <1>7, Zenon DEF LevelAt
    <3>2. rsp = base - (6 + 18)
      BY <1>6, <2>2, Zenon
    <3>3. rsp + 1 = base - 23
      BY <3>2
    <3> QED
      BY <3>1, <3>3, Zenon
  <2>6. ram' = [x \in Address |-> IF IsField(x - (base - 23) + 1)
                                  THEN to[Struct[x - (base - 23) + 1]] ELSE ram[x]]
    <3>1. ram' = [x \in Address |->
                   IF to # Last(owed).to /\ IsField(x - reg["rdi"] + 1)
                   THEN to[Struct[x - reg["rdi"] + 1]] ELSE ram[x]]
      BY DEF Handler
    <3>2. to # Last(owed).to
      BY <1>3, <1>4, <1>15, Zenon
    <3> QED
      BY <2>5, <3>1, <3>2
  <2>7. ram' \in [Address -> Int]
    <3>1. \A i : IsField(i) => to[Struct[i]] \in Int
      BY <2>4 DEF IsField
    <3> QED
      BY <1>4, <2>6, <3>1
  <2>8. ASSUME NEW i \in 3 .. 17 \cup 19 .. 23, NEW x \in Address, x - (base - 23) + 1 = i
        PROVE  ram'[x] = to[Struct[i]]
    <3>1. IsField(i)
      <4>1. i \in 3 .. 17 => 18 - i \in 1 .. 15 /\ Pushed[18 - i] \in Registers
        BY PushedRegisters, FrameNotGPR
      <4>2. i \in 19 .. 23 => Frame[i - 18] \in Registers
        <5>1. i \in 19 .. 23 => i - 18 = 1 \/ i - 18 = 2 \/ i - 18 = 3 \/ i - 18 = 4 \/ i - 18 = 5
          OBVIOUS
        <5> QED
          BY <5>1, RegisterNames, FrameNotGPR
      <4>3. i \in 1 .. 23
        OBVIOUS
      <4> QED
        BY <4>1, <4>2, <4>3, StructFields DEF IsField
    <3> QED
      BY <2>6, <2>8, <3>1
  <2>9. ASSUME NEW j \in 1 .. 5 PROVE ram'[base - 6 + j] = to[Frame[j]]
    <3>1. base - 6 + j \in Int /\ base - 25 <= base - 6 + j /\ base - 6 + j < base
      BY <1>6, SMTT(40)
    <3>2. base - 6 + j \in Address
      BY <1>8, <3>1, Zenon
    <3>3. (base - 6 + j) - (base - 23) + 1 = 18 + j /\ 18 + j \in 3 .. 17 \cup 19 .. 23
          /\ 18 + j \in 19 .. 23 /\ (18 + j) - 18 = j
      BY <1>6
    <3>4. ram'[base - 6 + j] = to[Struct[18 + j]]
      BY <2>8, <3>2, <3>3, Zenon
    <3>5. Struct[18 + j] = Frame[j]
      BY <3>3, StructFields, Zenon
    <3> QED
      BY <3>4, <3>5, Zenon
  <2>10. ASSUME NEW j \in 1 .. 15 PROVE ram'[base - 6 - j] = to[Pushed[j]]
    <3>1. base - 6 - j \in Int /\ base - 25 <= base - 6 - j /\ base - 6 - j < base
      BY <1>6, SMTT(40)
    <3>2. base - 6 - j \in Address
      BY <1>8, <3>1, Zenon
    <3>3. (base - 6 - j) - (base - 23) + 1 = 18 - j /\ 18 - j \in 3 .. 17 \cup 19 .. 23
          /\ 18 - j \in 3 .. 17 /\ 18 - (18 - j) = j
      BY <1>6
    <3>4. ram'[base - 6 - j] = to[Struct[18 - j]]
      BY <2>8, <3>2, <3>3, Zenon
    <3>5. Struct[18 - j] = Pushed[j]
      BY <3>3, StructFields, Zenon
    <3> QED
      BY <3>4, <3>5, Zenon
  <2>11. PICK mem2 : mem2 = ram'
    OBVIOUS
  <2>12. /\ mem2 \in [Address -> Int]
         /\ \A j \in 1 .. 5 : mem2[Base(v, reg) - 6 + j] = to[Frame[j]]
         /\ \A j \in 1 .. 15 : mem2[Base(v, reg) - Words(v) - j] = to[Pushed[j]]
    BY <1>6, <2>2, <2>7, <2>9, <2>10, <2>11, ZenonT(60)
  <2>13. Level(v, r2, to, mem2) /\ Base(v, r2) = Base(v, reg)
    <3>1. Returned(reg, ram, r2) /\ Holds(v, Base(v, reg), to, mem2)
      BY <1>12, <2>12, Zenon DEF Returned, Holds
    <3> QED
      BY <1>4, <1>16, <3>1, HandlerLevel
  <2>14. PICK o2 : o2 = [owed EXCEPT ![n].to = to]
    OBVIOUS
  <2>17. /\ Level(owed[n].vector, r2, to, mem2)
         /\ Base(owed[n].vector, r2) = Base(owed[n].vector, reg)
    BY <1>3, <2>13, Zenon
  <2>18. Replaced(owed, o2, to)
    BY <1>3, <2>14, Zenon DEF Replaced
  <2>15. StacksInv(o2, r2, mem2)
    BY <1>1, <1>3, <1>4, <1>12, <2>3, <2>12, <2>17, <2>18, TopSwitches
  <2>16. Len(o2) = n
    <3>1. owed \in Seq(Owing)
      BY <1>1 DEF StacksInv, OwedInv
    <3>2. DOMAIN o2 = DOMAIN owed
      BY <2>14
    <3>3. o2 \in Seq(Owing)
      BY <2>15 DEF StacksInv, OwedInv
    <3>4. DOMAIN o2 = 1 .. Len(o2) /\ DOMAIN owed = 1 .. n /\ Len(o2) \in Nat
      BY <1>3, <3>1, <3>3, LenProperties
    <3>5. n \in 1 .. Len(o2)
      BY <1>4, <3>2, <3>4
    <3>6. Len(o2) \in 1 .. Len(o2)
      BY <1>4, <3>4, <3>5
    <3>7. Len(o2) \in 1 .. n
      BY <3>2, <3>4, <3>6, Zenon
    <3>8. PICK m \in Nat, k \in Nat : m = Len(o2) /\ k = n
      BY <1>4, <3>4
    <3>9. k <= m /\ m <= k
      BY <3>5, <3>7, <3>8
    <3> QED
      BY <3>8, <3>9
  <2> QED
    BY <1>3, <1>11, <1>13, <2>11, <2>14, <2>15, <2>16, Zenon DEF StubInv
<1> QED
  BY <1>14, <1>15
----------------------------------------------------------------------------
(* The end of a stub                                                       *)

\* Quotient and remainder.
LEMMA DivMod ==
  ASSUME NEW a \in Int, NEW b \in Nat \ {0}
  PROVE  /\ a \div b \in Int /\ a % b \in 0 .. b - 1
         /\ a = b * (a \div b) + (a % b)
OBVIOUS

\* The words of a stack have its number as quotient.
LEMMA StackNumber ==
  ASSUME NEW s \in Nat \ {0}, NEW c \in {1, 3, 4}, NEW a \in Int, c * s - s <= a, a < c * s
  PROVE  a \div s = c - 1
<1> DEFINE q == a \div s
           m == a % s
<1>1. q \in Int /\ m \in 0 .. s - 1 /\ a = s * q + m
  BY DivMod
<1> HIDE DEF q, m
<1>2. PICK y \in Int : y = q - (c - 1)
  BY <1>1
<1>3. s * q = s * y + (c * s - s)
  BY <1>1, <1>2
<1>4. s * y < s /\ -s < s * y
  BY <1>1, <1>3
<1>5. y = 0
  <2>1. CASE y >= 1
    <3>1. s * y >= s
      BY <2>1
    <3> QED
      BY <1>4, <3>1
  <2>2. CASE y <= -1
    <3>1. s * y <= -s
      BY <2>2
    <3> QED
      BY <1>4, <3>1
  <2> QED
    BY <2>1, <2>2
<1>6. q = c - 1
  BY <1>1, <1>2, <1>5
<1> QED
  BY <1>6 DEF q

\* The words of a stub that is not on the stack of the clock's interrupt are
\* all on the stack that ends at b.
LEMMA OnItsStack ==
  ASSUME NEW o, NEW r, NEW mem, StacksInv(o, r, mem), Returning,
         NEW k \in 1 .. Len(o), Alive(o, k), o[k].vector # "sync_time",
         NEW b \in {RSP0, IST4, BOOT}, Placed(b, o, r, k)
  PROVE  /\ b \in Nat /\ k \in Nat /\ BaseOf(o, r, k) \in Int /\ Regs(o, r, k)["rsp"] \in Int
         /\ Regs(o, r, k)["rsp"] >= b - 26 * k
         /\ BaseOf(o, r, k) <= b
         /\ Regs(o, r, k)["rsp"] <= BaseOf(o, r, k) - 5
<1>1. StubAt(o, r, mem, k)
  BY AliveStub
<1>2. PICK base \in Int, rsp \in Int :
        base = BaseOf(o, r, k) /\ rsp = Regs(o, r, k)["rsp"] /\ rsp <= base - 5 /\ rsp >= base - 24
  BY <1>1 DEF StubAt
<1>3. base \in b - 26 * (k - 1) - 2 .. b
  BY <1>2 DEF Placed
<1>4. b \in Nat
  <2>1. PICK s \in Nat : RSP0 = s /\ IST4 = 3 * s /\ BOOT = 4 * s
    BY StackSizes
  <2> QED
    BY <2>1
<1>5. k \in Nat
  BY OwedAt DEF StacksInv
<1>6. rsp >= b - 26 * k /\ base <= b
  BY <1>2, <1>3, <1>4, <1>5
<1> QED
  BY <1>2, <1>4, <1>5, <1>6
\* What is left of owed when the stub on top ends.
Popped(o, o2) ==
  /\ o2 \in Seq(Owing) /\ Len(o2) = Len(o) - 1
  /\ \A k \in 1 .. Len(o) - 1 : o2[k] = o[k]

\* Front takes the last element away.
LEMMA FrontPops ==
  ASSUME NEW o \in Seq(Owing), NEW n, n = Len(o), n \in Nat, n >= 1
  PROVE  Popped(o, Front(o)) /\ (n = 1 => Front(o) = << >>)
<1>1. Front(o) = SubSeq(o, 1, n - 1)
  BY Zenon DEF Front
<1>2. \A i \in 1 .. n - 1 : o[i] \in Owing
  BY ElementOfSeq
<1>3. PICK m \in Int : m = n - 1 /\ m >= 0
  OBVIOUS
<1>4. /\ SubSeq(o, 1, m) \in Seq(Owing)
      /\ Len(SubSeq(o, 1, m)) = IF 1 <= m THEN m - 1 + 1 ELSE 0
      /\ \A i \in 1 .. m - 1 + 1 : SubSeq(o, 1, m)[i] = o[1 + i - 1]
  BY <1>2, <1>3, SubSeqProperties
<1>5. Len(Front(o)) = n - 1
  BY <1>1, <1>3, <1>4
<1>6. \A i \in 1 .. m : i \in 1 .. m - 1 + 1 /\ 1 + i - 1 = i
  BY <1>3
<1>7. \A i \in 1 .. m : SubSeq(o, 1, m)[i] = o[i]
  BY <1>4, <1>6, Zenon
<1>8. n = 1 => Front(o) = << >>
  <2>1. n = 1 => m < 1
    BY <1>3
  <2> QED
    BY <1>1, <1>3, <2>1, SubSeqEmpty
<1> QED
  BY <1>1, <1>3, <1>4, <1>5, <1>7, <1>8, Zenon DEF Popped

\* Back to the stub that was interrupted: it and the ones below it have their
\* registers and their words.
LEMMA TopReturns ==
  ASSUME NEW o, NEW r, NEW mem, StacksInv(o, r, mem), Returning,
         NEW n, n = Len(o), n > 1, NEW t, t = o[n].to, t["cs"] = KERNEL_CS,
         NEW o2, Popped(o, o2)
  PROVE  StacksInv(o2, t, Forgotten(mem, t["rsp"]))
<1>0. /\ n \in Nat /\ o \in Seq(Owing) /\ n <= MaxDepth /\ mem \in [Address -> Int]
      /\ \A k \in 1 .. n : o[k].vector \in Stubs /\ o[k].to \in [Registers -> Int]
  BY OwedAt DEF StacksInv, OwedInv
<1>1. PICK m \in Nat : m = n - 1 /\ m >= 1 /\ n = m + 1
  <2>1. n - 1 \in Nat /\ n - 1 >= 1 /\ n = (n - 1) + 1
    BY <1>0
  <2> QED
    BY <2>1, Zenon
<1>2. o2 \in Seq(Owing) /\ Len(o2) = m /\ \A k \in 1 .. m : o2[k] = o[k]
  BY <1>1 DEF Popped
<1>3. n \in 1 .. n /\ m \in 1 .. m /\ \A k \in 1 .. m : k \in 1 .. n /\ k < n /\ k # n
  BY <1>0, <1>1
<1>4. ASSUME NEW k \in 1 .. m PROVE Regs(o2, t, k) = Regs(o, r, k)
  <2>1. CASE k = m
    BY <1>1, <1>2, <1>3, <2>1 DEF Regs
  <2>2. CASE k # m
    <3>1. k + 1 \in 1 .. m
      BY <1>1, <2>2
    <3> QED
      BY <1>2, <1>3, <2>2, <3>1, Zenon DEF Regs
  <2> QED
    BY <2>1, <2>2
<1>5. ASSUME NEW k \in 1 .. m, Alive(o2, k) PROVE Alive(o, k)
  <2> SUFFICES ASSUME NEW j \in k + 1 .. n PROVE o[j].to["cs"] = KERNEL_CS
    BY DEF Alive
  <2>1. CASE j = n
    BY <2>1
  <2>2. CASE j # n
    <3>1. j \in k + 1 .. m /\ j \in 1 .. m
      BY <1>0, <1>1, <2>2
    <3> QED
      BY <1>2, <1>5, <3>1, Zenon DEF Alive
  <2> QED
    BY <2>1, <2>2
<1>6. ASSUME NEW k \in 1 .. m PROVE BaseOf(o2, t, k) = BaseOf(o, r, k)
  BY <1>2, <1>4, Zenon DEF BaseOf
<1>7. PICK rsp : rsp = t["rsp"]
  OBVIOUS
<1>8. PICK mem2 : mem2 = Forgotten(mem, rsp)
  OBVIOUS
<1>9. mem2 \in [Address -> Int]
  BY <1>0, <1>8 DEF Forgotten
<1>10. OwedInv(o2, t, mem2)
  <2>1. o2 # << >>
    BY <1>1, <1>2, EmptySeq
  <2>2. m <= MaxDepth
    <3>1. PICK d \in Nat : d = MaxDepth
      BY StackSizes
    <3> QED
      BY <1>0, <1>1, <3>1
  <2>3. t \in [Registers -> Int]
    BY <1>0, <1>3
  <2>4. ASSUME NEW k \in 1 .. m
        PROVE  /\ o2[k].to["cs"] \in {KERNEL_CS, USER_CS} /\ o2[k].to["rip"] # KERNEL_CS
               /\ k = 1 \/ o2[k].to["cs"] = USER_CS => o2[k].to \in Outside
               /\ k < m => o2[k].vector # "sync_time"
    BY <1>2, <1>3, Zenon DEF StacksInv, OwedInv
  <2> QED
    BY <1>2, <1>9, <2>1, <2>2, <2>3, <2>4, Zenon DEF OwedInv
<1>11. PICK b \in {RSP0, IST4, BOOT} : \A k \in 1 .. n : Alive(o, k) => Placed(b, o, r, k)
  BY DEF StacksInv, PlacesInv
<1>12. Alive(o, m)
  <2>1. \A j \in m + 1 .. n : j = n
    BY <1>1
  <2> QED
    BY <2>1, Zenon DEF Alive
<1>13. Regs(o, r, m) = t
  BY <1>1, <1>3 DEF Regs
<1>14. \A k \in 1 .. m : o[k].vector # "sync_time"
  BY <1>3 DEF StacksInv, OwedInv
<1>15. PICK s \in Nat, d \in Nat, c \in {1, 3, 4} :
         /\ s = STACK /\ d = MaxDepth /\ d >= 1 /\ 26 * d + 2 <= s /\ b = c * s
         /\ BOOT = 4 * s /\ Address = 0 .. 4 * s - 1
  <2>1. PICK s \in Nat, d \in Nat :
         /\ s = STACK /\ d = MaxDepth /\ d >= 1 /\ 26 * d + 2 <= s
         /\ RSP0 = s /\ IST4 = 3 * s /\ BOOT = 4 * s /\ Address = 0 .. 4 * s - 1
    BY StackSizes
  <2>2. \E c \in {1, 3, 4} : b = c * s
    BY <2>1
  <2> QED
    BY <2>1, <2>2
<1>16. rsp \in Int /\ rsp >= b - 26 * m /\ b \in Nat /\ BaseOf(o, r, m) \in Int /\ rsp <= BaseOf(o, r, m) - 5 /\ BaseOf(o, r, m) <= b
  BY <1>3, <1>7, <1>11, <1>12, <1>13, <1>14, OnItsStack
<1>17. LevelsInv(o2, t, mem2)
  <2> SUFFICES ASSUME NEW k \in 1 .. m, Alive(o2, k)
               PROVE  Level(o2[k].vector, Regs(o2, t, k), o2[k].to, mem2)
    BY <1>2 DEF LevelsInv
  <2>1. Alive(o, k) /\ k \in 1 .. n
    BY <1>3, <1>5
  <2>2. Level(o[k].vector, Regs(o, r, k), o[k].to, mem)
    BY <2>1 DEF StacksInv, LevelsInv
  <2>3. PICK v, q, u : v = o[k].vector /\ q = Regs(o, r, k) /\ u = o[k].to
    OBVIOUS
  <2>4. PICK base \in Int, low \in Int :
          /\ base = Base(v, q) /\ low = q["rsp"] /\ low >= b - 26 * k /\ base <= b /\ k \in Nat
    BY <1>11, <1>14, <2>1, <2>3, OnItsStack DEF BaseOf
  <2>5. low >= rsp
    <3>1. CASE k = m
      BY <1>7, <1>13, <1>16, <2>3, <2>4, <3>1
    <3>2. CASE k # m
      <4>1. k \in 1 .. m - 1
        BY <1>1, <3>2
      <4>2. Placed(b, o, r, m)
        BY <1>3, <1>11, <1>12
      <4>3. BaseOf(o, r, m) <= low
        BY <1>3, <1>14, <2>1, <2>3, <2>4, <4>1, <4>2 DEF Placed
      <4> QED
        BY <1>16, <2>4, <4>3
    <3> QED
      BY <3>1, <3>2
  <2>6. ASSUME NEW a \in Int, low <= a, a < base PROVE mem2[a] = mem[a]
    <3>1. k <= d /\ m <= d
      <4>1. n <= d
        BY <1>0, <1>15
      <4> QED
        BY <1>1, <2>4, <4>1
    <3>2. /\ c * s - s <= a /\ a < c * s
      BY <1>15, <2>4, <2>6, <3>1
    <3>3. c * s - s <= rsp /\ rsp < c * s
      BY <1>15, <1>16, <3>1
    <3>4. s # 0 /\ s \in Nat \ {0}
      BY <1>15
    <3>5. a \div s = c - 1 /\ rsp \div s = c - 1
      BY <1>16, <3>2, <3>3, <3>4, StackNumber
    <3>6. a \in Address
      BY <1>15, <3>2
    <3>7. a >= rsp
      BY <1>16, <2>4, <2>5, <2>6
    <3> QED
      BY <1>8, <1>15, <3>5, <3>6, <3>7 DEF Forgotten
  <2>7. Level(v, q, u, mem2)
    <3>1. v \in Stubs /\ q \in [Registers -> Int]
      BY <1>0, <2>1, <2>3, OwedAt DEF StacksInv
    <3>2. \A a \in Int : q["rsp"] <= a /\ a < Base(v, q) => mem2[a] = mem[a]
      BY <2>4, <2>6, Zenon
    <3>3. Level(v, q, u, mem)
      BY <2>2, <2>3, Zenon
    <3> QED
      BY <3>1, <3>2, <3>3, LevelKept
  <2> QED
    BY <1>2, <1>4, <2>3, <2>7, Zenon
<1>18. PlacesInv(o2, t)
  <2> SUFFICES ASSUME NEW k \in 1 .. m, Alive(o2, k) PROVE Placed(b, o2, t, k)
    BY <1>2, Zenon DEF PlacesInv
  <2>1. Placed(b, o, r, k) /\ o2[k].vector = o[k].vector /\ o[k].vector # "sync_time"
    BY <1>2, <1>3, <1>5, <1>11, <1>14, Zenon
  <2>2. \A j \in 1 .. k - 1 : j \in 1 .. m
    BY <1>1
  <2> QED
    BY <1>4, <1>5, <1>6, <2>1, <2>2, Zenon DEF Placed
<1> QED
  BY <1>7, <1>8, <1>10, <1>17, <1>18, Zenon DEF StacksInv
\* The registers after iretq.
Unwound(r, mem) ==
  [r EXCEPT !["rip"] = mem[r["rsp"]], !["cs"] = mem[r["rsp"] + 1], !["rflags"] = mem[r["rsp"] + 2],
            !["rsp"] = mem[r["rsp"] + 3], !["ss"] = mem[r["rsp"] + 4]]

\* At its end a stub has only the processor's words left, and every register
\* of push_regs restored: iretq has nothing more to do than to take the five.
LEMMA UnwoundIs ==
  ASSUME NEW v \in Stubs, NEW r \in [Registers -> Int], NEW t \in [Registers -> Int], NEW mem,
         Level(v, r, t, mem), Place(v, r) = LastPlace(v)
  PROVE  Unwound(r, mem) = t
<1>0. PICK rsp \in Int, base \in Int, l \in {38, 39, 40} :
        rsp = r["rsp"] /\ base = Base(v, r) /\ l = LastPlace(v) /\ rsp = base - 5
  <2>1. PICK l \in {38, 39, 40} : l = LastPlace(v) /\ (l = 38 => Words(v) = 5)
    BY StubKinds DEF LastPlace
  <2>2. Depth(v, l) = 5
    BY <2>1 DEF Depth
  <2>3. Place(v, r) \in 1 - Before(v) .. LastPlace(v)
    BY DEF Level, LevelAt
  <2>4. PICK e : e = Depth(v, Place(v, r)) /\ e = 5
    BY <2>1, <2>2
  <2>5. PICK rsp \in Int, base \in Int : rsp = r["rsp"] /\ base = Base(v, r) /\ rsp = base - e
    BY <2>3, <2>4, BaseIs, ZenonT(60)
  <2> QED
    BY <2>1, <2>4, <2>5, ZenonT(60)
<1>1. LevelAt(v, l, base, r, t, mem)
  BY <1>0, Zenon DEF Level
<1>2. /\ mem[rsp] = t["rip"] /\ mem[rsp + 1] = t["cs"] /\ mem[rsp + 2] = t["rflags"]
      /\ mem[rsp + 3] = t["rsp"] /\ mem[rsp + 4] = t["ss"]
  <2>1. \A j \in 1 .. 5 : mem[base - 6 + j] = t[Frame[j]]
    BY <1>1, Zenon DEF LevelAt
  <2>2. 1 \in 1 .. 5 /\ 2 \in 1 .. 5 /\ 3 \in 1 .. 5 /\ 4 \in 1 .. 5 /\ 5 \in 1 .. 5
    OBVIOUS
  <2>3. /\ base - 6 + 1 = rsp /\ base - 6 + 2 = rsp + 1 /\ base - 6 + 3 = rsp + 2
        /\ base - 6 + 4 = rsp + 3 /\ base - 6 + 5 = rsp + 4
    BY <1>0
  <2> QED
    BY <2>1, <2>2, <2>3, RegisterNames, Zenon
<1>3. \A x \in GPR : r[x] = t[x]
  <2>1. \A j \in 1 .. 15 : InPlace(l, j)
    BY <1>0 DEF InPlace
  <2>2. \A j \in 1 .. 15 : r[Pushed[j]] = t[Pushed[j]]
    BY <1>1, <2>1, Zenon DEF LevelAt
  <2> QED
    BY <2>2, RegisterNames, ZenonT(60)
<1>4. PICK a, b, c, d, e : a = mem[rsp] /\ b = mem[rsp + 1] /\ c = mem[rsp + 2]
                           /\ d = mem[rsp + 3] /\ e = mem[rsp + 4]
  OBVIOUS
<1>5. Unwound(r, mem) = [r EXCEPT !["rip"] = a, !["cs"] = b, !["rflags"] = c, !["rsp"] = d, !["ss"] = e]
  BY <1>0, <1>4, Zenon DEF Unwound
<1>6. PICK u : u = Unwound(r, mem)
  OBVIOUS
<1>7. /\ u = [y \in Registers |-> u[y]] /\ u["rip"] = a /\ u["cs"] = b /\ u["rflags"] = c
      /\ u["rsp"] = d /\ u["ss"] = e /\ \A x \in GPR : u[x] = r[x]
  <2>1. PICK u1 : u1 = [r EXCEPT !["rip"] = a, !["cs"] = b]
    OBVIOUS
  <2>2. /\ u1 = [y \in Registers |-> u1[y]] /\ u1["rip"] = a /\ u1["cs"] = b
        /\ \A y \in Registers : y \notin {"rip", "cs"} => u1[y] = r[y]
    BY <2>1, FrameNotGPR, ZenonT(60)
  <2>3. PICK u2 : u2 = [u1 EXCEPT !["rflags"] = c, !["rsp"] = d]
    OBVIOUS
  <2>4. /\ u2 = [y \in Registers |-> u2[y]] /\ u2["rflags"] = c /\ u2["rsp"] = d
        /\ \A y \in Registers : y \notin {"rflags", "rsp"} => u2[y] = u1[y]
    BY <2>2, <2>3, FrameNotGPR
  <2>5. u = [u2 EXCEPT !["ss"] = e]
    BY <1>5, <1>6, <2>1, <2>3, Zenon
  <2>6. /\ u = [y \in Registers |-> u[y]] /\ u["ss"] = e
        /\ \A y \in Registers : y # "ss" => u[y] = u2[y]
    BY <2>4, <2>5, FrameNotGPR
  <2>7. u["rip"] = a /\ u["cs"] = b /\ u["rflags"] = c /\ u["rsp"] = d
    BY <2>2, <2>4, <2>6, FrameNotGPR
  <2>8. ASSUME NEW x \in GPR PROVE u[x] = r[x]
    <3>1. x \in Registers /\ x # "rip" /\ x # "cs" /\ x # "rflags" /\ x # "rsp" /\ x # "ss"
      BY FrameNotGPR
    <3> QED
      BY <2>2, <2>4, <2>6, <3>1
  <2> QED
    BY <2>6, <2>7, <2>8, Zenon
<1>8. \A y \in Registers : u[y] = t[y]
  <2>1. \A y \in Registers : y \in GPR \/ y = "rip" \/ y = "cs" \/ y = "rflags" \/ y = "rsp" \/ y = "ss"
    BY RegisterNames
  <2> QED
    BY <1>2, <1>3, <1>4, <1>7, <2>1, Zenon
<1>9. u = t
  BY <1>7, <1>8
<1> QED
  BY <1>6, <1>9

\* iretq goes back to what the stub on top owes.
LEMMA iretqReturns ==
  ASSUME StacksInv(owed, reg, ram), Returning, iretq
  PROVE  reg' = Last(owed).to
<1>1. InStub /\ Instruction.op = "iretq" /\ reg' = Unwound(reg, ram)
  BY DEF iretq, Unwound
<1>2. owed # << >>
  BY <1>1, InStubOwed
<1>3. PICK n, v, p, t : n = Len(owed) /\ v = owed[n].vector /\ p = Place(v, reg) /\ t = owed[n].to
  OBVIOUS
<1>4. /\ Last(owed) = owed[n] /\ v \in Stubs /\ reg \in [Registers -> Int]
      /\ Level(v, reg, t, ram) /\ p \in 1 - Before(v) .. LastPlace(v) /\ t \in [Registers -> Int]
      /\ Instruction = Code(v)[Before(v) + p]
  BY <1>2, <1>3, TopStub
<1>5. p = LastPlace(v)
  BY <1>1, <1>4, CallPlace
<1>6. Place(v, reg) = LastPlace(v)
  BY <1>3, <1>5, Zenon
<1>7. Unwound(reg, ram) = t
  BY <1>4, <1>6, UnwoundIs
<1> QED
  BY <1>1, <1>3, <1>4, <1>7, Zenon

\* The end of a stub: back to a program or the kernel's loop, or to the stub
\* that was interrupted.
LEMMA iretqKeeps ==
  ASSUME StubInv, Returning, iretq
  PROVE  StubInv'
<1>1. StacksInv(owed, reg, ram) /\ InStub
  BY DEF StubInv, iretq
<1>2. owed # << >>
  BY <1>1, InStubOwed
<1>3. PICK n, t : n = Len(owed) /\ t = owed[n].to
  OBVIOUS
<1>4. /\ n \in Nat /\ n >= 1 /\ n \in 1 .. n /\ Last(owed) = owed[n]
      /\ t \in [Registers -> Int] /\ ram \in [Address -> Int]
  BY <1>1, <1>2, <1>3, TopStub
<1>5. reg' = t
  BY <1>1, <1>3, <1>4, iretqReturns
<1>6. /\ ram' = Forgotten(ram, t["rsp"]) /\ called' = << >>
      /\ owed' = IF t["cs"] = USER_CS THEN << >> ELSE Front(owed)
  <2>1. PICK q : /\ reg' = q /\ ram' = Forgotten(ram, q["rsp"]) /\ called' = << >>
                 /\ owed' = IF q["cs"] = USER_CS THEN << >> ELSE Front(owed)
    BY Zenon DEF iretq
  <2> QED
    BY <1>5, <2>1, Zenon
<1>7. HandlerSeesFrame'
  BY <1>6, Zenon DEF HandlerSeesFrame
<1>8. /\ t["cs"] \in {KERNEL_CS, USER_CS} /\ owed \in Seq(Owing)
      /\ n = 1 \/ t["cs"] = USER_CS => t \in Outside
  BY <1>1, <1>3, <1>4, Zenon DEF StacksInv, OwedInv
<1>9. ASSUME owed' = << >>, t \in Outside PROVE StacksInv(owed', reg', ram')
  <2>1. Forgotten(ram, t["rsp"]) \in [Address -> Int]
    BY <1>4 DEF Forgotten
  <2>2. << >> \in Seq(Owing) /\ Len(<< >>) = 0 /\ 0 <= MaxDepth /\ \A k \in 1 .. 0 : FALSE
    BY EmptySeq, InterruptStubsAssumption
  <2>3. OwedInv(<< >>, t, Forgotten(ram, t["rsp"]))
    BY <1>4, <1>9, <2>1, <2>2, Zenon DEF OwedInv
  <2>4. LevelsInv(<< >>, t, Forgotten(ram, t["rsp"])) /\ PlacesInv(<< >>, t)
    BY <2>2, Zenon DEF LevelsInv, PlacesInv
  <2> QED
    BY <1>5, <1>6, <1>9, <2>3, <2>4, Zenon DEF StacksInv
<1>10. CASE t["cs"] = USER_CS
  BY <1>6, <1>7, <1>8, <1>9, <1>10, Zenon DEF StubInv
<1>11. CASE t["cs"] # USER_CS
  <2>1. t["cs"] = KERNEL_CS /\ owed' = Front(owed)
    BY <1>6, <1>8, <1>11, Zenon
  <2>2. Popped(owed, Front(owed)) /\ (n = 1 => Front(owed) = << >>)
    BY <1>3, <1>4, <1>8, FrontPops
  <2>3. CASE n = 1
    BY <1>7, <1>8, <1>9, <2>1, <2>2, <2>3, Zenon DEF StubInv
  <2>4. CASE n # 1
    <3>1. n > 1
      BY <1>4, <2>4
    <3>2. StacksInv(Front(owed), t, Forgotten(ram, t["rsp"]))
      BY <1>1, <1>3, <2>1, <2>2, <3>1, TopReturns
    <3> QED
      BY <1>5, <1>6, <1>7, <2>1, <3>2, Zenon DEF StubInv
  <2> QED
    BY <2>3, <2>4
<1> QED
  BY <1>10, <1>11
----------------------------------------------------------------------------
(* An interrupt                                                            *)

\* The registers and the memory after the processor has pushed the registers
\* r below top.
Entered(v, r, top) ==
  [r EXCEPT !["rsp"] = top - (IF v \in HasError THEN 6 ELSE 5), !["rip"] = At(v, 1),
            !["cs"] = KERNEL_CS, !["ss"] = 0,
            !["rflags"] = IF v \in TrapGates THEN r["rflags"] ELSE 0]

Saved(v, r, mem, top, err) ==
  [a \in Address |-> CASE a \in top - 5 .. top - 1 -> r[Frame[a - top + 6]]
                       [] v \in HasError /\ a = top - 6 -> err
                       [] OTHER -> mem[a]]

\* Stub v has been entered.
Enters(v, r, top, mem, r2, mem2) ==
  /\ r2 \in [Registers -> Int] /\ mem2 \in [Address -> Int]
  /\ Level(v, r2, r, mem2) /\ Base(v, r2) = top
  /\ \A a \in Address : mem2[a] = mem[a] \/ (top - 6 <= a /\ a < top)

\* The registers a stub starts with, as far as it matters.
Starting(v, r, top, r2) ==
  /\ r2 \in [Registers -> Int] /\ \A x \in GPR : r2[x] = r[x]
  /\ r2["rsp"] = top - (IF v \in HasError THEN 6 ELSE 5) /\ r2["rip"] = At(v, 1)
  /\ r2["cs"] = KERNEL_CS /\ r2["rflags"] \in {0, 1}
  /\ v = "sync_time" => r2["rflags"] = 0

\* An interrupt leaves the registers of push_regs alone.
LEMMA EnteredRegisters ==
  ASSUME NEW v \in Stubs, NEW r \in [Registers -> Int], NEW top \in Int, r["rflags"] \in {0, 1},
         NEW r2, r2 = Entered(v, r, top)
  PROVE  Starting(v, r, top, r2)
<1>1. PICK a \in Int, b \in Int, c \in Int, d \in Int :
        /\ a = top - (IF v \in HasError THEN 6 ELSE 5) /\ b = At(v, 1) /\ c = KERNEL_CS
        /\ d = IF v \in TrapGates THEN r["rflags"] ELSE 0
  <2>1. top - (IF v \in HasError THEN 6 ELSE 5) \in Int
    OBVIOUS
  <2>2. At(v, 1) \in Int
    <3>1. PICK n \in 0 .. 8 : n = Number[v]
      BY StubKinds
    <3> QED
      BY <3>1 DEF At
  <2>3. KERNEL_CS \in Int
    BY DEF KERNEL_CS
  <2>4. (IF v \in TrapGates THEN r["rflags"] ELSE 0) \in Int
    OBVIOUS
  <2> QED
    BY <2>1, <2>2, <2>3, <2>4, Zenon
<1>2. r2 = [r EXCEPT !["rsp"] = a, !["rip"] = b, !["cs"] = c, !["ss"] = 0, !["rflags"] = d]
  BY <1>1, Zenon DEF Entered
<1>3. PICK u1 : u1 = [r EXCEPT !["rsp"] = a, !["rip"] = b]
  OBVIOUS
<1>4. /\ u1 \in [Registers -> Int] /\ u1["rsp"] = a /\ u1["rip"] = b
      /\ \A y \in Registers : y \notin {"rip", "rsp"} => u1[y] = r[y]
  BY <1>3, FrameNotGPR
<1>5. PICK u2 : u2 = [u1 EXCEPT !["cs"] = c, !["ss"] = 0]
  OBVIOUS
<1>6. /\ u2 \in [Registers -> Int] /\ u2["cs"] = c
      /\ \A y \in Registers : y \notin {"cs", "ss"} => u2[y] = u1[y]
  BY <1>4, <1>5, FrameNotGPR
<1>7. r2 = [u2 EXCEPT !["rflags"] = d]
  BY <1>2, <1>3, <1>5, Zenon
<1>8. /\ r2 \in [Registers -> Int] /\ r2["rflags"] = d
      /\ \A y \in Registers : y # "rflags" => r2[y] = u2[y]
  BY <1>1, <1>6, <1>7, FrameNotGPR
<1>9. r2["rsp"] = a /\ r2["rip"] = b /\ r2["cs"] = c
  BY <1>4, <1>6, <1>8, FrameNotGPR
<1>10. ASSUME NEW x \in GPR PROVE r2[x] = r[x]
  <2>1. x \in Registers /\ x # "rip" /\ x # "cs" /\ x # "rflags" /\ x # "rsp" /\ x # "ss"
    BY FrameNotGPR
  <2> QED
    BY <1>4, <1>6, <1>8, <2>1
<1>11. r2["rflags"] \in {0, 1} /\ (v = "sync_time" => r2["rflags"] = 0)
  BY <1>1, <1>8 DEF TrapGates
<1> QED
  BY <1>1, <1>8, <1>9, <1>10, <1>11, Zenon DEF Starting

\* No error code is the kernel's code selector.
LEMMA ErrorIsNotCS ==
  ASSUME Returning, NEW v, NEW err \in ErrorCodes(v)
  PROVE  err \in Int /\ err # KERNEL_CS
BY InterruptStubsAssumption DEF Returning, ErrorCodes, KERNEL_CS

\* A stub starts with the registers as they were, the five of the frame on
\* the stack.
LEMMA StubStarts ==
  ASSUME NEW v \in Stubs, NEW r \in [Registers -> Int], NEW mem \in [Address -> Int],
         NEW top, Fits(top), r["rflags"] \in {0, 1},
         NEW r2, r2 = Entered(v, r, top), NEW err \in ErrorCodes(v),
         NEW mem2, mem2 = Saved(v, r, mem, top, err), Returning
  PROVE  Enters(v, r, top, mem, r2, mem2)
<1>0. top \in Int /\ top - 25 >= 0 /\ top <= BOOT
  BY DEF Fits
<1>1. /\ r2 \in [Registers -> Int] /\ \A x \in GPR : r2[x] = r[x]
      /\ r2["rsp"] = top - (IF v \in HasError THEN 6 ELSE 5) /\ r2["rip"] = At(v, 1)
      /\ r2["cs"] = KERNEL_CS /\ r2["rflags"] \in {0, 1}
      /\ v = "sync_time" => r2["rflags"] = 0
  <2>1. Starting(v, r, top, r2)
    BY <1>0, EnteredRegisters
  <2> QED
    BY <2>1, Zenon DEF Starting
<1>2. PICK p \in Int, b \in {1, 2}, n \in 0 .. 8 :
        p = 1 - b /\ b = Before(v) /\ n = Number[v] /\ LastPlace(v) \in {38, 39, 40}
  BY StubKinds
<1>3. Place(v, r2) = p
  <2>1. Place(v, r2) = (1000 + 100 * n + 1) - (1000 + 100 * n + b)
    BY <1>1, <1>2 DEF Place, At
  <2> QED
    BY <1>2, <2>1
<1>4. p <= 0 /\ p \in 1 - Before(v) .. LastPlace(v) /\ p # 20 /\ p # 21
  BY <1>2
<1>5. Depth(v, p) = IF v \in HasError THEN 6 ELSE 5
  BY <1>4 DEF Depth
<1>6. Base(v, r2) = top
  <2>1. PICK e \in {5, 6} : e = IF v \in HasError THEN 6 ELSE 5
    OBVIOUS
  <2>2. Base(v, r2) = (top - e) + e
    BY <1>1, <1>3, <1>5, <2>1, Zenon DEF Base
  <2> QED
    BY <1>0, <2>2
<1>7. \A a \in Int : top - 6 <= a /\ a < top => a \in Address
  <2>1. PICK s \in Nat : BOOT = 4 * s /\ Address = 0 .. 4 * s - 1
    BY StackSizes
  <2>2. top - 25 >= 0 /\ top <= 4 * s
    BY <1>0, <2>1
  <2>3. \A a \in Int : top - 6 <= a /\ a < top => a \in 0 .. 4 * s - 1
    BY <1>0, <2>2
  <2> QED
    BY <2>1, <2>3, Zenon
<1>8. ASSUME NEW j \in 1 .. 5 PROVE mem2[top - 6 + j] = r[Frame[j]]
  <2>1. PICK a \in Int : a = top - 6 + j /\ a \in top - 5 .. top - 1 /\ a - top + 6 = j
                         /\ top - 6 <= a /\ a < top
    <3>1. /\ top - 6 + j \in Int /\ top - 6 + j \in top - 5 .. top - 1 /\ (top - 6 + j) - top + 6 = j
          /\ top - 6 <= top - 6 + j /\ top - 6 + j < top
      BY <1>0
    <3> QED
      BY <3>1, Zenon
  <2>2. a \in Address
    BY <1>7, <2>1, Zenon
  <2>3. mem2[a] = r[Frame[a - top + 6]]
    BY <2>1, <2>2 DEF Saved
  <2> QED
    BY <2>1, <2>3, Zenon
<1>9. ASSUME v \in HasError PROVE mem2[top - 6] # KERNEL_CS
  <2>1. top - 6 \in Int /\ top - 6 <= top - 6 /\ top - 6 < top /\ top - 6 \notin top - 5 .. top - 1
    BY <1>0
  <2>2. top - 6 \in Address
    BY <1>7, <2>1, Zenon
  <2>3. mem2[top - 6] = err
    BY <1>9, <2>1, <2>2 DEF Saved
  <2> QED
    BY <1>9, <2>3, ErrorIsNotCS, Zenon
<1>10. ASSUME NEW a \in Address PROVE mem2[a] = mem[a] \/ (top - 6 <= a /\ a < top)
  <2> SUFFICES ASSUME ~(top - 6 <= a /\ a < top) PROVE mem2[a] = mem[a]
    OBVIOUS
  <2>0. a \in Int
    BY StackSizes
  <2>1. a \notin top - 5 .. top - 1 /\ a # top - 6
    BY <1>0, <2>0
  <2> QED
    BY <2>1 DEF Saved
<1>11. mem2 \in [Address -> Int]
  <2>1. mem2 = [a \in Address |-> mem2[a]]
    BY DEF Saved
  <2>2. ASSUME NEW a \in Address PROVE mem2[a] \in Int
    <3>0. a \in Int
      BY StackSizes
    <3>1. CASE a \in top - 5 .. top - 1
      <4>1. PICK j \in 1 .. 5 : j = a - top + 6
        BY <1>0, <3>0, <3>1
      <4>2. Frame[j] \in Registers
        <5>1. j = 1 \/ j = 2 \/ j = 3 \/ j = 4 \/ j = 5
          OBVIOUS
        <5> QED
          BY <5>1, RegisterNames, FrameNotGPR
      <4>3. mem2[a] = r[Frame[a - top + 6]]
        BY <1>0, <3>0, <3>1, <4>1 DEF Saved
      <4>4. mem2[a] = r[Frame[j]]
        BY <4>1, <4>3, Zenon
      <4> QED
        BY <4>2, <4>4
    <3>2. CASE a \notin top - 5 .. top - 1
      <4>1. mem2[a] = err \/ mem2[a] = mem[a]
        BY <3>2 DEF Saved
      <4> QED
        BY <4>1, ErrorIsNotCS
    <3> QED
      BY <3>1, <3>2
  <2> QED
    BY <2>1, <2>2, Zenon
<1>12. \A j \in 1 .. 15 : r2[Pushed[j]] = r[Pushed[j]]
  BY <1>1, PushedRegisters
<1>13. \A j \in 1 .. 15 : ~OnStack(p, j)
  BY <1>4 DEF OnStack
<1>14. LevelAt(v, p, top, r2, r, mem2)
  BY <1>1, <1>4, <1>8, <1>9, <1>12, <1>13, Zenon DEF LevelAt
<1>15. Level(v, r2, r, mem2)
  BY <1>3, <1>6, <1>14, Zenon DEF Level
<1> QED
  BY <1>1, <1>6, <1>10, <1>11, <1>15, Zenon DEF Enters
\* The registers r an interrupt may find.
Interrupted(o, r) ==
  /\ r["cs"] \in {KERNEL_CS, USER_CS} /\ r["rip"] # KERNEL_CS
  /\ Len(o) = 0 \/ r["cs"] = USER_CS => r \in Outside
  /\ Len(o) >= 1 => o[Len(o)].vector # "sync_time"

\* top is a place below every stub in progress, on the stack below b, or the
\* clock's own.
Below(v, top, b, o, r) ==
  /\ \A k \in 1 .. Len(o) : Alive(o, k) => Placed(b, o, r, k)
  /\ IF v = "sync_time" THEN top = IST1
     ELSE /\ top \in b - 26 * Len(o) - 2 .. b
          /\ \A j \in 1 .. Len(o) : Alive(o, j) => top <= Regs(o, r, j)["rsp"]

\* One more entry in owed.
Owes(o, o2, v, r) == o2 = Append(o, [vector |-> v, to |-> r])

\* The stubs in progress keep their words when one more starts.
LEMMA StubsNest ==
  ASSUME NEW o, NEW r, NEW mem, StacksInv(o, r, mem), Returning,
         NEW n, n = Len(o), n < MaxDepth, NEW v \in Vectors, NEW top, NEW r2, NEW mem2,
         Enters(v, r, top, mem, r2, mem2), Interrupted(o, r),
         NEW b \in {RSP0, IST4, BOOT}, Below(v, top, b, o, r), NEW o2, Owes(o, o2, v, r)
  PROVE  StacksInv(o2, r2, mem2)
<1>0. /\ n \in Nat /\ o \in Seq(Owing) /\ r \in [Registers -> Int] /\ mem \in [Address -> Int]
      /\ \A k \in 1 .. n : o[k].vector \in Stubs /\ o[k].to \in [Registers -> Int]
      /\ v \in Stubs
  BY OwedAt, VectorsReturn DEF StacksInv, OwedInv
<1>1. PICK m \in Nat : m = n + 1 /\ m \in 1 .. m /\ m # 0
  <2>1. n + 1 \in Nat /\ n + 1 \in 1 .. n + 1 /\ n + 1 # 0
    BY <1>0
  <2> QED
    BY <2>1, Zenon
<1>2. PICK e : e = [vector |-> v, to |-> r]
  OBVIOUS
<1>3. e \in Owing /\ e.vector = v /\ e.to = r
  BY <1>0, <1>2 DEF Owing
<1>4. /\ o2 \in Seq(Owing) /\ o2 # << >> /\ Len(o2) = m /\ o2[m] = e
      /\ \A k \in 1 .. n : o2[k] = o[k]
  <2>1. o2 = Append(o, e)
    BY <1>2, Zenon DEF Owes
  <2> QED
    BY <1>0, <1>1, <1>3, <2>1, AppendProperties
<1>5. \A k \in 1 .. m : k = m \/ k \in 1 .. n
  BY <1>0, <1>1
<1>6. \A k \in 1 .. n : k \in 1 .. m /\ k # m /\ k < m
  BY <1>0, <1>1
<1>7. ASSUME NEW k \in 1 .. n PROVE Regs(o2, r2, k) = Regs(o, r, k)
  <2>1. CASE k = n
    BY <1>1, <1>3, <1>4, <1>6, <2>1 DEF Regs
  <2>2. CASE k # n
    <3>1. k + 1 \in 1 .. n
      BY <1>0, <2>2
    <3> QED
      BY <1>4, <1>6, <2>2, <3>1, Zenon DEF Regs
  <2> QED
    BY <2>1, <2>2
<1>8. ASSUME NEW k \in 1 .. n, Alive(o2, k) PROVE Alive(o, k)
  <2>1. \A j \in k + 1 .. n : j \in k + 1 .. m /\ j \in 1 .. n
    BY <1>0, <1>1
  <2> QED
    BY <1>4, <1>8, <2>1, Zenon DEF Alive
<1>9. ASSUME NEW k \in 1 .. n PROVE BaseOf(o2, r2, k) = BaseOf(o, r, k)
  BY <1>4, <1>7, Zenon DEF BaseOf
<1>10. /\ r2 \in [Registers -> Int] /\ mem2 \in [Address -> Int]
       /\ Level(v, r2, r, mem2) /\ Base(v, r2) = top
       /\ \A a \in Address : mem2[a] = mem[a] \/ (top - 6 <= a /\ a < top)
  BY Zenon DEF Enters
<1>11. Regs(o2, r2, m) = r2 /\ BaseOf(o2, r2, m) = top
  BY <1>3, <1>4, <1>10, Zenon DEF Regs, BaseOf
<1>12. ASSUME NEW k \in 1 .. n PROVE o[k].vector # "sync_time"
  <2>1. CASE k = n
    BY <1>0, <2>1 DEF Interrupted
  <2>2. CASE k # n
    <3>1. k < n
      BY <1>0, <2>2
    <3> QED
      BY <3>1 DEF StacksInv, OwedInv
  <2> QED
    BY <2>1, <2>2
<1>13. OwedInv(o2, r2, mem2)
  <2>1. m <= MaxDepth
    <3>1. PICK d \in Nat : d = MaxDepth
      BY StackSizes
    <3> QED
      BY <1>0, <1>1, <3>1
  <2>2. ASSUME NEW k \in 1 .. m
        PROVE  /\ o2[k].to["cs"] \in {KERNEL_CS, USER_CS} /\ o2[k].to["rip"] # KERNEL_CS
               /\ k = 1 \/ o2[k].to["cs"] = USER_CS => o2[k].to \in Outside
               /\ k < m => o2[k].vector # "sync_time"
    <3>1. CASE k = m
      <4>1. (k = 1 => n = 0) /\ ~(k < m)
        BY <1>0, <1>1, <3>1
      <4> QED
        BY <1>3, <1>4, <3>1, <4>1, Zenon DEF Interrupted
    <3>2. CASE k \in 1 .. n
      BY <1>4, <1>12, <3>2, Zenon DEF StacksInv, OwedInv
    <3> QED
      BY <1>5, <3>1, <3>2
  <2> QED
    BY <1>4, <1>10, <2>1, <2>2, Zenon DEF OwedInv
<1>14. /\ \A k \in 1 .. n : Alive(o, k) => Placed(b, o, r, k)
       /\ v = "sync_time" => top = IST1
       /\ v # "sync_time" => top \in b - 26 * n - 2 .. b
       /\ v # "sync_time" => \A j \in 1 .. n : Alive(o, j) => top <= Regs(o, r, j)["rsp"]
  BY Zenon DEF Below
<1>15. LevelsInv(o2, r2, mem2)
  <2>1. ASSUME NEW k \in 1 .. n, Alive(o2, k)
        PROVE  Level(o2[k].vector, Regs(o2, r2, k), o2[k].to, mem2)
    <3>1. Alive(o, k)
      BY <1>8, <2>1
    <3>2. PICK u, q, t : u = o[k].vector /\ q = Regs(o, r, k) /\ t = o[k].to
      OBVIOUS
    <3>3. Level(u, q, t, mem) /\ u \in Stubs /\ q \in [Registers -> Int]
      <4>1. StubAt(o, r, mem, k)
        BY <3>1, AliveStub
      <4> QED
        BY <3>2, <4>1, Zenon DEF StubAt
    <3>4. PICK base \in Int, rsp \in Int :
            /\ base = Base(u, q) /\ rsp = q["rsp"] /\ k \in Nat /\ b \in Nat
            /\ rsp >= b - 26 * k /\ base <= b
      BY <1>12, <1>14, <3>1, <3>2, OnItsStack DEF BaseOf
    <3>5. PICK s \in Nat, d \in Nat :
         /\ s = STACK /\ d = MaxDepth /\ d >= 1 /\ 26 * d + 2 <= s
         /\ RSP0 = s /\ IST1 = 2 * s /\ IST4 = 3 * s /\ BOOT = 4 * s /\ Address = 0 .. 4 * s - 1
      BY StackSizes
    <3>6. b \in {s, 3 * s, 4 * s} /\ k <= d
      BY <1>0, <3>4, <3>5
    <3>7. ASSUME NEW a \in Int, rsp <= a, a < base PROVE mem2[a] = mem[a]
      <4>1. a \in Address
        BY <3>4, <3>5, <3>6, <3>7
      <4>2. ~(top - 6 <= a /\ a < top)
        <5>1. CASE v = "sync_time"
          <6>1. top = 2 * s
            BY <1>14, <3>5, <5>1
          <6>2. a < s \/ a >= 2 * s
            BY <3>4, <3>5, <3>6, <3>7
          <6>3. s > 6
            BY <3>5
          <6> QED
            BY <6>1, <6>2, <6>3
        <5>2. CASE v # "sync_time"
          <6>1. top <= rsp /\ top \in Int
            BY <1>0, <1>14, <3>1, <3>2, <3>4, <5>2
          <6> QED
            BY <3>4, <3>7, <6>1
        <5> QED
          BY <5>1, <5>2
      <4> QED
        BY <1>10, <4>1, <4>2, Zenon
    <3>8. Level(u, q, t, mem2)
      <4>1. \A a \in Int : q["rsp"] <= a /\ a < Base(u, q) => mem2[a] = mem[a]
        BY <3>4, <3>7, Zenon
      <4> QED
        BY <3>3, <4>1, LevelKept
    <3> QED
      BY <1>4, <1>7, <3>2, <3>8, Zenon
  <2>2. Level(o2[m].vector, Regs(o2, r2, m), o2[m].to, mem2)
    BY <1>3, <1>4, <1>10, <1>11, Zenon
  <2> QED
    BY <1>4, <1>5, <2>1, <2>2, Zenon DEF LevelsInv
<1>16. PlacesInv(o2, r2)
  <2>1. ASSUME NEW k \in 1 .. n, Alive(o2, k) PROVE Placed(b, o2, r2, k)
    <3>1. Placed(b, o, r, k) /\ o2[k].vector = o[k].vector /\ o[k].vector # "sync_time"
      BY <1>4, <1>8, <1>12, <1>14, <2>1, Zenon
    <3>2. \A j \in 1 .. k - 1 : j \in 1 .. n
      BY <1>0
    <3> QED
      BY <1>7, <1>8, <1>9, <3>1, <3>2, Zenon DEF Placed
  <2>2. Placed(b, o2, r2, m)
    <3>1. o2[m].vector = v
      BY <1>3, <1>4, Zenon
    <3>2. m - 1 = n
      BY <1>0, <1>1
    <3>3. ASSUME NEW j \in 1 .. n, Alive(o2, j), v # "sync_time" PROVE top <= Regs(o2, r2, j)["rsp"]
      BY <1>7, <1>8, <1>14, <3>3, Zenon
    <3> QED
      BY <1>11, <1>14, <3>1, <3>2, <3>3, Zenon DEF Placed
  <2> QED
    BY <1>4, <1>5, <2>1, <2>2, Zenon DEF PlacesInv
<1> QED
  BY <1>13, <1>15, <1>16, Zenon DEF StacksInv
\* Which stack the processor takes outside of any stub.
LEMMA OutsideStack ==
  ASSUME NEW v \in Stubs, reg \in Outside, NEW top, top = GateStack(v), owed = << >>
  PROVE  Fits(top) /\ \E b \in {RSP0, IST4, BOOT} : Below(v, top, b, owed, reg)
<1>0. PICK s \in Nat, d \in Nat :
        /\ d >= 1 /\ 26 * d + 2 <= s /\ s % 2 = 0
        /\ RSP0 = s /\ IST1 = 2 * s /\ IST4 = 3 * s /\ BOOT = 4 * s
  BY StackSizes
<1>1. Len(owed) = 0 /\ \A k \in 1 .. 0 : FALSE
  BY EmptySeq
<1>2. reg["cs"] # USER_CS => reg["rsp"] = BOOT - 1
  BY OutsideRegisters
<1>3. v # "invalid_opcode"
  BY DEF Stubs
<1>4. ASSUME NEW b \in {RSP0, IST4, BOOT}, v # "sync_time", top \in b - 2 .. b
      PROVE  Below(v, top, b, owed, reg)
  <2>1. b - 26 * 0 - 2 = b - 2
    BY <1>0
  <2> QED
    BY <1>1, <1>4, <2>1, Zenon DEF Below
<1>5. CASE v = "sync_time"
  <2>1. top = IST1
    BY <1>5 DEF GateStack
  <2>2. Fits(top)
    BY <1>0, <2>1 DEF Fits
  <2>3. Below(v, top, BOOT, owed, reg)
    BY <1>1, <1>5, <2>1, Zenon DEF Below
  <2> QED
    BY <2>2, <2>3
<1>6. CASE v = "gpf"
  <2>1. top = IST4 /\ v # "sync_time"
    BY <1>6 DEF GateStack
  <2>2. Fits(top) /\ top \in IST4 - 2 .. IST4
    BY <1>0, <2>1 DEF Fits
  <2>3. Below(v, top, IST4, owed, reg)
    BY <1>4, <2>1, <2>2
  <2> QED
    BY <2>2, <2>3
<1>7. CASE v \notin {"gpf", "sync_time"} /\ reg["cs"] = USER_CS
  <2>1. top = RSP0 /\ v # "sync_time"
    BY <1>3, <1>7 DEF GateStack
  <2>2. Fits(top) /\ top \in RSP0 - 2 .. RSP0
    BY <1>0, <2>1 DEF Fits
  <2>3. Below(v, top, RSP0, owed, reg)
    BY <1>4, <2>1, <2>2
  <2> QED
    BY <2>2, <2>3
<1>8. CASE v \notin {"gpf", "sync_time"} /\ reg["cs"] # USER_CS
  <2>1. top = reg["rsp"] - (reg["rsp"] % 2) /\ v # "sync_time"
    BY <1>3, <1>8 DEF GateStack
  <2>2. PICK x \in Int : x = reg["rsp"] /\ x = 4 * s - 1
    BY <1>0, <1>2, <1>8
  <2>3. top = x - (x % 2) /\ x % 2 \in {0, 1}
    BY <2>1, <2>2
  <2>4. top \in Int /\ top \in 4 * s - 2 .. 4 * s
    BY <2>2, <2>3
  <2>5. Fits(top) /\ top \in BOOT - 2 .. BOOT
    BY <1>0, <2>4 DEF Fits
  <2>6. Below(v, top, BOOT, owed, reg)
    BY <1>4, <2>1, <2>5
  <2> QED
    BY <2>5, <2>6
<1> QED
  BY <1>5, <1>6, <1>7, <1>8

\* Only a stub whose handler has turned interrupts on, or the page fault of a
\* system call, is interrupted: never the clock's.
LEMMA StubInterrupted ==
  ASSUME StacksInv(owed, reg, ram), Returning, owed # << >>, NEW v \in Vectors, Raised(v),
         NEW n, n = Len(owed)
  PROVE  v # "gpf" /\ owed[n].vector # "sync_time"
<1>1. PICK u, p, t : u = owed[n].vector /\ p = Place(u, reg) /\ t = owed[n].to
  OBVIOUS
<1>2. Level(u, reg, t, ram) /\ Here = u /\ reg["cs"] = KERNEL_CS
  BY <1>1, TopStub
<1>3. KERNEL_CS # USER_CS /\ 0 # 1
  BY DEF KERNEL_CS, USER_CS
<1>4. u = "sync_time" => reg["rflags"] = 0
  BY <1>2, Zenon DEF Level, LevelAt
<1>5. v # "gpf"
  <2>1. "gpf" \notin IRQs
    BY DEF IRQs
  <2> QED
    BY <1>2, <1>3, <2>1 DEF Raised
<1>6. v \in IRQs \/ Here = "isr80"
  BY <1>2, <1>3 DEF Raised
<1>7. v \in IRQs => reg["rflags"] = 1
  BY DEF Raised, IRQs
<1>8. u # "sync_time"
  <2>1. CASE v \in IRQs
    BY <1>3, <1>4, <1>7, <2>1, Zenon
  <2>2. CASE Here = "isr80"
    BY <1>2, <2>2
  <2> QED
    BY <1>6, <2>1, <2>2
<1> QED
  BY <1>1, <1>5, <1>8, Zenon

\* Which stack the processor takes in a stub.
LEMMA NestedStack ==
  ASSUME StacksInv(owed, reg, ram), Returning, owed # << >>, NEW v \in Vectors, v # "gpf",
         NEW n, n = Len(owed), owed[n].vector # "sync_time", n < MaxDepth,
         NEW top, top = GateStack(v)
  PROVE  Fits(top) /\ \E b \in {RSP0, IST4, BOOT} : Below(v, top, b, owed, reg)
<1>0. PICK s \in Nat, d \in Nat :
        /\ d = MaxDepth /\ d >= 1 /\ 26 * d + 2 <= s /\ s % 2 = 0
        /\ RSP0 = s /\ IST1 = 2 * s /\ IST4 = 3 * s /\ BOOT = 4 * s
  BY StackSizes
<1>1. PICK b \in {RSP0, IST4, BOOT} : \A k \in 1 .. n : Alive(owed, k) => Placed(b, owed, reg, k)
  BY DEF StacksInv, PlacesInv
<1>2. PICK u, p : u = owed[n].vector /\ p = Place(u, reg)
  OBVIOUS
<1>3. n \in Nat /\ n >= 1 /\ n \in 1 .. n /\ Alive(owed, n) /\ reg["cs"] = KERNEL_CS
  BY <1>2, TopStub
<1>4. Regs(owed, reg, n) = reg
  BY Zenon DEF Regs
<1>5. PICK rsp \in Int, base \in Int :
        /\ rsp = reg["rsp"] /\ base = BaseOf(owed, reg, n) /\ b \in Nat
        /\ rsp >= b - 26 * n /\ base <= b /\ rsp <= base - 5
  BY <1>1, <1>3, <1>4, OnItsStack
<1>6. v # "invalid_opcode" /\ KERNEL_CS # USER_CS
  BY VectorsReturn DEF Stubs, KERNEL_CS, USER_CS
<1>7. CASE v = "sync_time"
  <2>1. top = IST1
    BY <1>7 DEF GateStack
  <2>2. Fits(top)
    BY <1>0, <2>1 DEF Fits
  <2>3. Below(v, top, b, owed, reg)
    BY <1>1, <1>7, <2>1, Zenon DEF Below
  <2> QED
    BY <2>2, <2>3
<1>8. CASE v # "sync_time"
  <2>1. top = rsp - (rsp % 2) /\ rsp % 2 \in {0, 1}
    BY <1>3, <1>5, <1>6, <1>8 DEF GateStack
  <2>2. top \in Int /\ top <= rsp /\ top >= rsp - 1
    <3>1. PICK y \in {0, 1} : top = rsp - y
      BY <2>1
    <3> QED
      BY <1>5, <3>1
  <2>3. top \in b - 26 * n - 2 .. b
    BY <1>3, <1>5, <2>2
  <2>4. Fits(top)
    <3>1. b \in {s, 3 * s, 4 * s} /\ n + 1 <= d
      BY <1>0, <1>3
    <3>2. top - 25 >= 0 /\ top <= 4 * s
      BY <1>0, <1>3, <2>2, <2>3, <3>1
    <3> QED
      BY <1>0, <2>2, <3>2 DEF Fits
  <2>5. ASSUME NEW j \in 1 .. n, Alive(owed, j) PROVE top <= Regs(owed, reg, j)["rsp"]
    <3>1. CASE j = n
      BY <1>4, <1>5, <2>2, <3>1
    <3>2. CASE j # n
      <4>1. j \in 1 .. n - 1
        BY <1>3, <3>2
      <4>2. Placed(b, owed, reg, n)
        BY <1>1, <1>3
      <4>3. base <= Regs(owed, reg, j)["rsp"]
        BY <1>5, <2>5, <4>1, <4>2 DEF Placed
      <4>4. PICK low \in Int : low = Regs(owed, reg, j)["rsp"]
        BY FrameNotGPR, OwedAt DEF StacksInv
      <4> QED
        BY <1>5, <2>2, <4>3, <4>4
    <3> QED
      BY <3>1, <3>2
  <2>6. Below(v, top, b, owed, reg)
    BY <1>1, <1>8, <2>3, <2>5, Zenon DEF Below
  <2> QED
    BY <2>4, <2>6
<1> QED
  BY <1>7, <1>8

\* An interrupt, an exception or a system call, in a program, in the kernel's
\* loop or in a stub.
LEMMA DeliverKeeps ==
  ASSUME StubInv, Returning, NEW v \in Vectors, NEW err \in ErrorCodes(v),
         Raised(v), Interrupt(v, err)
  PROVE  StubInv' /\ Len(owed') = Len(owed) + 1
<1>1. StacksInv(owed, reg, ram)
  BY DEF StubInv
<1>2. PICK n, top : n = Len(owed) /\ top = GateStack(v)
  OBVIOUS
<1>3. /\ n < MaxDepth /\ reg' = Entered(v, reg, top) /\ ram' = Saved(v, reg, ram, top, err)
      /\ Owes(owed, owed', v, reg) /\ called' = called
  BY <1>2 DEF Interrupt, Entered, Saved, Owes
<1>4. v \in Stubs /\ n \in Nat /\ (owed # << >> => n >= 1)
      /\ reg \in [Registers -> Int] /\ ram \in [Address -> Int] /\ owed \in Seq(Owing)
  BY <1>1, <1>2, VectorsReturn, OwedAt DEF StacksInv, OwedInv
<1>5. ASSUME owed = << >>
      PROVE  /\ reg["rflags"] \in {0, 1} /\ Interrupted(owed, reg) /\ Fits(top)
             /\ \E b \in {RSP0, IST4, BOOT} : Below(v, top, b, owed, reg)
  <2>1. reg \in Outside /\ n = 0
    BY <1>1, <1>2, <1>5, EmptySeq DEF StacksInv, OwedInv
  <2>2. reg["cs"] \in {KERNEL_CS, USER_CS} /\ reg["rflags"] \in {0, 1} /\ reg["rip"] \in 1 .. 3
    BY <2>1, OutsideRegisters
  <2>3. reg["rip"] # KERNEL_CS /\ ~(n >= 1)
    BY <2>1, <2>2 DEF KERNEL_CS
  <2>4. Interrupted(owed, reg)
    BY <1>2, <2>1, <2>2, <2>3, Zenon DEF Interrupted
  <2>5. Fits(top) /\ \E b \in {RSP0, IST4, BOOT} : Below(v, top, b, owed, reg)
    BY <1>2, <1>4, <1>5, <2>1, OutsideStack
  <2> QED
    BY <2>2, <2>4, <2>5
<1>6. ASSUME owed # << >>
      PROVE  /\ reg["rflags"] \in {0, 1} /\ Interrupted(owed, reg) /\ Fits(top)
             /\ \E b \in {RSP0, IST4, BOOT} : Below(v, top, b, owed, reg)
  <2>1. PICK u, p, t : u = owed[n].vector /\ p = Place(u, reg) /\ t = owed[n].to
    OBVIOUS
  <2>2. Level(u, reg, t, ram) /\ reg["cs"] = KERNEL_CS /\ InStub
    BY <1>1, <1>2, <1>6, <2>1, TopStub
  <2>3. reg["rflags"] \in {0, 1}
    BY <2>2, Zenon DEF Level, LevelAt
  <2>4. v # "gpf" /\ u # "sync_time"
    BY <1>1, <1>2, <1>6, <2>1, StubInterrupted
  <2>5. reg["rip"] # KERNEL_CS /\ n # 0 /\ KERNEL_CS # USER_CS
    <3>1. reg["rip"] \in Int /\ reg["rip"] >= 1000
      BY <1>4, <2>2, FrameNotGPR DEF InStub
    <3> QED
      BY <1>4, <1>6, <3>1 DEF KERNEL_CS, USER_CS
  <2>6. Interrupted(owed, reg)
    BY <1>2, <2>1, <2>2, <2>4, <2>5, Zenon DEF Interrupted
  <2>7. Fits(top) /\ \E b \in {RSP0, IST4, BOOT} : Below(v, top, b, owed, reg)
    BY <1>1, <1>2, <1>3, <1>6, <2>1, <2>4, NestedStack
  <2> QED
    BY <2>3, <2>6, <2>7
<1>7. /\ reg["rflags"] \in {0, 1} /\ Interrupted(owed, reg) /\ Fits(top)
      /\ \E b \in {RSP0, IST4, BOOT} : Below(v, top, b, owed, reg)
  BY <1>5, <1>6
<1>8. PICK r2, mem2, o2 : r2 = reg' /\ mem2 = ram' /\ o2 = owed'
  OBVIOUS
<1>9. Enters(v, reg, top, ram, r2, mem2)
  BY <1>3, <1>4, <1>7, <1>8, StubStarts
<1>10. StacksInv(o2, r2, mem2)
  <2>1. Owes(owed, o2, v, reg)
    BY <1>3, <1>8, Zenon
  <2> QED
    BY <1>1, <1>2, <1>3, <1>7, <1>9, <2>1, StubsNest
<1>11. HandlerSeesFrame'
  BY <1>3, Zenon DEF StubInv, HandlerSeesFrame
<1>12. Len(owed') = Len(owed) + 1
  <2>1. [vector |-> v, to |-> reg] \in Owing
    BY <1>4 DEF Owing
  <2> QED
    BY <1>3, <1>4, <2>1, AppendProperties DEF Owes
<1> QED
  BY <1>8, <1>10, <1>11, <1>12, Zenon DEF StubInv
----------------------------------------------------------------------------
(* The theorems                                                            *)

\* The kernel's loop and a program have interrupted nothing.
LEMMA StubInvInit ==
  ASSUME Init
  PROVE  StubInv
<1>1. reg \in Outside
  BY DEF Init, Outside
<1>2. reg \in [Registers -> Int]
  BY <1>1, OutsideRegisters
<1>3. ram \in [Address -> Int]
  BY DEF Init
<1>4. << >> \in Seq(Owing) /\ Len(<< >>) = 0 /\ 0 <= MaxDepth /\ \A k \in 1 .. 0 : FALSE
  BY EmptySeq, InterruptStubsAssumption
<1>5. owed = << >> /\ called = << >>
  BY DEF Init
<1>6. OwedInv(<< >>, reg, ram)
  BY <1>1, <1>2, <1>3, <1>4, Zenon DEF OwedInv
<1>7. LevelsInv(<< >>, reg, ram) /\ PlacesInv(<< >>, reg)
  BY <1>4, Zenon DEF LevelsInv, PlacesInv
<1>8. HandlerSeesFrame
  BY <1>5, Zenon DEF HandlerSeesFrame
<1> QED
  BY <1>5, <1>6, <1>7, <1>8, Zenon DEF StubInv, StacksInv

\* Every step keeps the invariant, and only iretq shortens owed.
LEMMA StubInvNext ==
  ASSUME StubInv, Returning, [Next]_stubvars
  PROVE  StubInv' /\ (Len(owed') < Len(owed) => reg' = Last(owed).to)
<1>0. Len(owed) \in Nat /\ StacksInv(owed, reg, ram)
  BY OwedAt DEF StubInv, StacksInv
<1>1. CASE Deliver
  <2>1. PICK v \in Vectors : \E err \in ErrorCodes(v) : Raised(v) /\ Interrupt(v, err)
    BY <1>1 DEF Deliver
  <2>2. StubInv' /\ Len(owed') = Len(owed) + 1
    <3>1. PICK err \in ErrorCodes(v) : Raised(v) /\ Interrupt(v, err)
      BY <2>1
    <3> QED
      BY <3>1, DeliverKeeps
  <2>3. ~(Len(owed') < Len(owed))
    BY <1>0, <2>2
  <2> QED
    BY <2>2, <2>3
<1>2. CASE Step
  <2>1. owed' = owed
    BY <1>2 DEF Step
  <2>2. ~(Len(owed') < Len(owed))
    BY <1>0, <2>1
  <2> QED
    BY <1>2, <2>2, StepKeeps
<1>3. CASE TurnOn
  <2>1. owed' = owed
    BY <1>3 DEF TurnOn
  <2>2. ~(Len(owed') < Len(owed))
    BY <1>0, <2>1
  <2> QED
    BY <1>3, <2>2, TurnOnKeeps
<1>4. CASE owed # << >> /\ \E to \in {User(2), Last(owed).to} : Handler(to)
  <2>1. PICK to \in {User(2), Last(owed).to} : Handler(to)
    BY <1>4
  <2>2. StubInv' /\ Len(owed') = Len(owed)
    BY <1>4, <2>1, HandlerKeeps
  <2>3. ~(Len(owed') < Len(owed))
    BY <1>0, <2>2
  <2> QED
    BY <2>2, <2>3
<1>5. CASE iretq
  BY <1>0, <1>5, iretqKeeps, iretqReturns
<1>6. CASE UNCHANGED stubvars
  <2>1. reg' = reg /\ ram' = ram /\ owed' = owed /\ called' = called
    BY <1>6 DEF stubvars
  <2>2. StacksInv(owed', reg', ram')
    BY <1>0, <2>1, Zenon
  <2>3. HandlerSeesFrame'
    BY <2>1, Zenon DEF StubInv, HandlerSeesFrame
  <2>4. ~(Len(owed') < Len(owed))
    BY <1>0, <2>1
  <2> QED
    BY <2>2, <2>3, <2>4, Zenon DEF StubInv
<1> QED
  BY <1>1, <1>2, <1>3, <1>4, <1>5, <1>6 DEF Next

\* The invariant says where the processor and its stack pointer are.
LEMMA StubInvTypes ==
  ASSUME StubInv, Returning
  PROVE  StubTypeOK
<1>0. StacksInv(owed, reg, ram)
  BY DEF StubInv
<1>1. reg \in [Registers -> Int] /\ ram \in [Address -> Int] /\ Len(owed) <= MaxDepth
  BY <1>0 DEF StacksInv, OwedInv
<1>2. DOMAIN reg = Registers /\ DOMAIN ram = Address
  BY <1>1
<1>3. PICK s \in Nat, d \in Nat :
        /\ s = STACK /\ d >= 1 /\ 26 * d + 2 <= s /\ BOOT = 4 * s /\ Address = 0 .. 4 * s - 1
  BY StackSizes
<1>4. CASE owed = << >>
  <2>1. reg \in Outside
    BY <1>0, <1>4 DEF StacksInv, OwedInv
  <2>2. /\ reg["rip"] \in 1 .. 3 /\ reg["cs"] \in {KERNEL_CS, USER_CS} /\ reg["rflags"] \in {0, 1}
        /\ reg["cs"] = KERNEL_CS => reg["rsp"] = BOOT - 1
    BY <2>1, OutsideRegisters
  <2>3. ~InStub
    BY <2>2 DEF InStub
  <2>4. (BOOT - 1) - 1 \in Address
    BY <1>3
  <2>5. reg["cs"] = KERNEL_CS => reg["rsp"] - 1 \in Address
    BY <2>2, <2>4, Zenon
  <2> QED
    BY <1>1, <1>2, <2>2, <2>3, <2>5, Zenon DEF StubTypeOK
<1>5. CASE owed # << >>
  <2>1. PICK n, v, p, t : n = Len(owed) /\ v = owed[n].vector /\ p = Place(v, reg) /\ t = owed[n].to
    OBVIOUS
  <2>2. /\ v \in Stubs /\ Level(v, reg, t, ram) /\ Fits(Base(v, reg))
        /\ p \in 1 - Before(v) .. LastPlace(v) /\ p \in Int
        /\ Here = v /\ reg["cs"] = KERNEL_CS
    BY <1>0, <1>5, <2>1, TopStub
  <2>3. reg["rflags"] \in {0, 1}
    BY <2>2, Zenon DEF Level, LevelAt
  <2>4. reg["rip"] % 100 = Before(v) + p
    BY <1>1, <2>1, <2>2, HereIs
  <2>5. Len(Code(v)) = Before(v) + LastPlace(v)
    BY <2>2, CodeParts
  <2>6. reg["rip"] % 100 \in 1 .. Len(Code(Here))
    <3>1. PICK b \in {1, 2}, l \in {38, 39, 40} : b = Before(v) /\ l = LastPlace(v)
      BY <2>2, StubKinds
    <3>2. p \in 1 - b .. l
      BY <2>2, <3>1, Zenon
    <3>3. b + p \in 1 .. b + l
      BY <3>1, <3>2
    <3> QED
      BY <2>2, <2>4, <2>5, <3>1, <3>3, Zenon
  <2>7. reg["rsp"] - 1 \in Address
    <3>1. Place(v, reg) \in 1 - Before(v) .. LastPlace(v)
      BY <2>1, <2>2, Zenon
    <3>2. PICK rsp \in Int, base \in Int, e \in 5 .. 24 :
            rsp = reg["rsp"] /\ base = Base(v, reg) /\ rsp = base - e
      BY <1>1, <2>2, <3>1, BaseIs
    <3>3. base - 25 >= 0 /\ base <= 4 * s
      BY <1>3, <2>2, <3>2 DEF Fits
    <3>4. rsp - 1 \in 0 .. 4 * s - 1
      BY <3>2, <3>3
    <3> QED
      BY <1>3, <3>2, <3>4, Zenon
  <2> QED
    BY <1>1, <1>2, <2>2, <2>3, <2>6, <2>7, Zenon DEF StubTypeOK
<1> QED
  BY <1>4, <1>5

\* The invariant holds in every reachable state.
LEMMA StubInvAlways ==
  ASSUME Returning
  PROVE  Spec => []StubInv
<1>1. Init => StubInv
  BY StubInvInit
<1>2. StubInv /\ [Next]_stubvars => StubInv'
  BY StubInvNext
<1> QED
  BY <1>1, <1>2, PTL DEF Spec

\* With the gates whose stubs remove what they pushed, stacks that hold the
\* interrupts in progress, and no program that loads selector 8, the processor
\* is always in user mode, in the loop of SetUpShell or at an instruction of a
\* stub of interrupt_stubs.s, with its stack pointer on one of the kernel's
\* stacks.
THEOREM StubsTypeCorrect ==
  ASSUME Returning
  PROVE  Spec => []StubTypeOK
<1>1. Spec => []StubInv
  BY StubInvAlways
<1>2. StubInv => StubTypeOK
  BY StubInvTypes
<1> QED
  BY <1>1, <1>2, PTL

\* However deep interrupts interrupt one another, and whatever the error code
\* of a fault is as long as it is not 8, handle_syscall,
\* TimerInterrupt, HandlePageFault and GeneralProtectionFault find every
\* register of what they interrupted in its field of InterruptRegisters.
THEOREM HandlersSeeFrame ==
  ASSUME Returning
  PROVE  Spec => []HandlerSeesFrame
<1>1. Spec => []StubInv
  BY StubInvAlways
<1>2. StubInv => HandlerSeesFrame
  BY DEF StubInv
<1> QED
  BY <1>1, <1>2, PTL

\* Unless a program loads selector 8, every iretq of interrupt_stubs.s gives
\* back every register, the general ones that pop_regs restores and the five
\* of the processor's frame, as they were or as task_switch put them into the
\* structure.
THEOREM iretqReturnsToFrame ==
  ASSUME Returning
  PROVE  Spec => ReturnsToFrame
<1>1. Spec => []StubInv
  BY StubInvAlways
<1>2. StubInv /\ [Next]_stubvars => [Len(owed') < Len(owed) => reg' = Last(owed).to]_stubvars
  BY StubInvNext
<1> QED
  BY <1>1, <1>2, PTL DEF Spec, ReturnsToFrame
=============================================================================
