---------------------------- MODULE FloppyProofs ----------------------------
(***************************************************************************)
(* The floppy driver, for every geometry and every sequence of requests:   *)
(* LBA_To_CHS addresses each sector once, a command changes the medium only *)
(* where a write in progress says, and a call that returns 0 has moved its  *)
(* bytes (all but the last one, for a read).                               *)
(***************************************************************************)
EXTENDS Floppy, TLAPS

----------------------------------------------------------------------------
(* Division                                                                *)

\* Quotient and remainder.
LEMMA DivMod ==
  ASSUME NEW a \in Int, NEW b \in Nat \ {0}
  PROVE  /\ a \div b \in Int /\ a % b \in 0 .. b - 1
         /\ a = b * (a \div b) + (a % b)
OBVIOUS

\* A multiple of b between -b and b is 0.
LEMMA SmallMultiple ==
  ASSUME NEW b \in Nat \ {0}, NEW x \in Int, b * x < b, -b < b * x
  PROVE  x = 0
<1>1. CASE x >= 1
  <2>1. b * x >= b
    BY <1>1
  <2> QED
    BY <2>1
<1>2. CASE x <= -1
  <2>1. b * x <= -b
    BY <1>2
  <2> QED
    BY <2>1
<1> QED
  BY <1>1, <1>2

\* There is one quotient.
LEMMA DivUnique ==
  ASSUME NEW a \in Nat, NEW b \in Nat \ {0}, NEW q \in Int, NEW r \in 0 .. b - 1,
         a = b * q + r
  PROVE  a \div b = q
<1> DEFINE x == a \div b
           s == a % b
<1>1. x \in Int /\ s \in 0 .. b - 1 /\ a = b * x + s
  BY DivMod
<1> HIDE DEF x, s
<1>2. b * (x - q) = b * x - b * q /\ b * x \in Int /\ b * q \in Int
  BY <1>1
<1>3. b * (x - q) < b /\ -b < b * (x - q)
  BY <1>1, <1>2
<1>4. x - q = 0
  BY <1>1, <1>3, SmallMultiple
<1>5. x = q
  BY <1>1, <1>4
<1> QED
  BY <1>5 DEF x

\* A quotient is bounded when the dividend is.
LEMMA DivBound ==
  ASSUME NEW a \in Nat, NEW b \in Nat \ {0}, NEW n \in Nat, a < n * b
  PROVE  a \div b \in 0 .. n - 1
<1> DEFINE x == a \div b
           s == a % b
<1>1. x \in Int /\ s \in 0 .. b - 1 /\ a = b * x + s
  BY DivMod
<1> HIDE DEF x, s
<1>2. x >= 0
  <2> SUFFICES ASSUME x <= -1 PROVE FALSE
    BY <1>1
  <2>1. b * x <= -b
    BY <1>1
  <2> QED
    BY <1>1, <2>1
<1>3. x < n
  <2> SUFFICES ASSUME x >= n PROVE FALSE
    BY <1>1
  <2>1. b * x >= b * n
    BY <1>1
  <2>2. b * n = n * b
    OBVIOUS
  <2> QED
    BY <1>1, <2>1, <2>2
<1>4. x \in 0 .. n - 1
  BY <1>1, <1>2, <1>3
<1> QED
  BY <1>4 DEF x

\* LBA_To_CHS gives every sector of the medium an address that exists, and the
\* controller finds the same sector there.
THEOREM SectorAddress ==
  ASSUME NEW lba \in 0 .. Sectors - 1
  PROVE  /\ LBA_To_CHS(lba) \in [cylinder : 0 .. CYLINDERS - 1, head : 0 .. head_count - 1,
                                 sector : 1 .. sector_max]
         /\ Linear(LBA_To_CHS(lba)) = lba
<1> DEFINE hs == head_count * sector_max
           track == lba \div sector_max
           head == track % head_count
           cyl == track \div head_count
           sec == lba % sector_max
<1>1. /\ head_count \in Nat \ {0} /\ sector_max \in Nat \ {0} /\ CYLINDERS \in Nat \ {0}
      /\ hs \in Nat \ {0}
  BY FloppyAssumption
<1>2. lba \in Nat /\ lba < CYLINDERS * hs
  <2>1. Sectors = CYLINDERS * hs /\ Sectors \in Nat
    BY <1>1 DEF Sectors
  <2> QED
    BY <2>1
<1>3. track \in Int /\ sec \in 0 .. sector_max - 1 /\ lba = sector_max * track + sec
  BY <1>1, <1>2, DivMod
<1>4. cyl \in Int /\ head \in 0 .. head_count - 1 /\ track = head_count * cyl + head
  BY <1>1, <1>3, DivMod
<1> HIDE DEF track, head, cyl, sec
<1>5. lba = hs * cyl + (sector_max * head + sec)
  <2>1. sector_max * track = sector_max * (head_count * cyl) + sector_max * head
    BY <1>1, <1>4
  <2>2. sector_max * (head_count * cyl) = hs * cyl
    BY <1>1, <1>4
  <2>3. hs * cyl \in Int /\ sector_max * head \in Int
    BY <1>1, <1>4
  <2> HIDE DEF hs
  <2> QED
    BY <1>3, <2>1, <2>2, <2>3
<1>6. sector_max * head + sec \in 0 .. hs - 1
  <2>1. sector_max * head <= sector_max * (head_count - 1)
    BY <1>1, <1>4
  <2>2. sector_max * (head_count - 1) = hs - sector_max
    BY <1>1
  <2>3. sector_max * head \in Nat
    BY <1>1, <1>4
  <2> HIDE DEF hs
  <2> QED
    BY <1>1, <1>3, <2>1, <2>2, <2>3
<1>7. lba \div hs = cyl
  <2> HIDE DEF hs
  <2> QED
    BY <1>1, <1>2, <1>4, <1>5, <1>6, DivUnique
<1>8. lba \div hs \in 0 .. CYLINDERS - 1
  <2> HIDE DEF hs
  <2> QED
    BY <1>1, <1>2, DivBound
<1>9. LBA_To_CHS(lba) = [cylinder |-> cyl, head |-> head, sector |-> sec + 1]
  BY <1>7 DEF LBA_To_CHS, track, head, sec
<1>10. LBA_To_CHS(lba) \in [cylinder : 0 .. CYLINDERS - 1, head : 0 .. head_count - 1,
                            sector : 1 .. sector_max]
  <2>1. sec + 1 \in 1 .. sector_max
    BY <1>1, <1>3
  <2> QED
    BY <1>4, <1>7, <1>8, <1>9, <2>1
<1>11. Linear(LBA_To_CHS(lba)) = lba
  <2>1. Linear(LBA_To_CHS(lba)) = (cyl * head_count + head) * sector_max + (sec + 1) - 1
    BY <1>9 DEF Linear
  <2>2. cyl * head_count + head = track
    BY <1>1, <1>4
  <2>3. track * sector_max = sector_max * track /\ track * sector_max \in Int
    BY <1>1, <1>3
  <2>4. sec \in Int
    BY <1>1, <1>3
  <2> QED
    BY <1>3, <2>1, <2>2, <2>3, <2>4
<1> QED
  BY <1>10, <1>11

----------------------------------------------------------------------------
(* The invariant                                                           *)

\* A request names sectors of the medium; i counts its commands and sent the
\* bytes of the current one.
ReqInv ==
  /\ req \in [op : {"none", "read", "write"}, lba : 0 .. Sectors - 1,
              chs : [cylinder : 0 .. CYLINDERS - 1, head : 0 .. head_count - 1,
                     sector : 1 .. sector_max],
              count : Nat, i : Nat, sent : 0 .. Parameter_Count + 1]
  /\ req.chs = LBA_To_CHS(req.lba)
  /\ req.lba + req.count <= Sectors
  /\ pc # "idle" => req.op # "none" /\ req.i < Commands

\* The controller waits for a command until the driver has sent one, executes
\* it once, and its interrupt is the only one floppy_result_ready stands for.
PhaseInv ==
  /\ pc \in {"idle", "program"} => fdc.phase = "command" /\ fdc.got = 0 /\ ~irq
  /\ pc = "program" => req.sent = 0
  /\ pc = "send" => /\ fdc.phase = "command" /\ fdc.got <= req.sent
                    /\ req.sent <= Parameter_Count
                    /\ ~irq /\ ~floppy_result_ready
  /\ pc = "wait" => \/ fdc.phase \in {"command", "execute"} /\ ~irq /\ ~floppy_result_ready
                    \/ fdc.phase = "result" /\ (irq <=> ~floppy_result_ready)

\* The channel moves what DMACount says, and a write finds its bytes in the
\* bounce buffer.
DmaInv ==
  pc \in {"send", "wait"} =>
    /\ dma = ISA_DMA_Transfer(DMACount)
    /\ req.op = "write" => \A k \in BounceByte : k < Copied => bounce[k] = mem[k]

\* Types, without what ReqInv says.
StateInv ==
  /\ DOMAIN disk = DiskByte /\ DOMAIN mem = MemByte /\ DOMAIN bounce = BounceByte
  /\ dma \in 1 .. BUFFER
  /\ fdc \in [phase : {"command", "execute", "result"}, got : 0 .. 9,
              st1 : Statuses \cup {0}]
  /\ irq \in BOOLEAN /\ floppy_result_ready \in BOOLEAN
  /\ pc \in {"idle", "program", "send", "wait"}
  /\ ret \in Statuses \cup {0}

FloppyInv == StateInv /\ ReqInv /\ PhaseInv /\ DmaInv

\* A command that ended without an error has moved its bytes: to the medium, or
\* to the bounce buffer (all but the last one).
MovedInv ==
  /\ transfer_count <= BUFFER
  /\ pc = "wait" /\ fdc.phase = "result" /\ fdc.st1 = 0
  =>
    /\ req.op = "write" =>
         \A k \in 0 .. transfer_count - 1 : disk[req.lba * SECTOR + k] = mem[k]
    /\ req.op = "read" =>
         \A k \in 0 .. transfer_count - 2 : bounce[k] = disk[req.lba * SECTOR + k]

\* The controller reports no error that the driver does not look at.
OnlyFatal == \A st1 \in Statuses : Fatal(st1)

TransferInv == FloppyInv /\ MovedInv /\ WrittenThrough /\ ReadAllButLast

----------------------------------------------------------------------------
(* The size of a transfer                                                  *)

\* A small number is its own remainder.
LEMMA ModSmall ==
  ASSUME NEW b \in Nat \ {0}, NEW x \in 0 .. b - 1
  PROVE  x % b = x
<1> DEFINE q == x \div b
           r == x % b
<1>1. q \in Int /\ r \in 0 .. b - 1 /\ x = b * q + r
  BY DivMod
<1> HIDE DEF q, r
<1>2. b * q \in Int /\ b * q < b /\ -b < b * q
  BY <1>1
<1>3. q = 0
  BY <1>1, <1>2, SmallMultiple
<1>4. r = x
  BY <1>1, <1>3
<1> QED
  BY <1>4 DEF r

\* The channel moves as many bytes as it was told, up to the size of the buffer.
LEMMA TransferBytes ==
  /\ \A count \in Int : ISA_DMA_Transfer(count) \in 1 .. BUFFER
  /\ \A count \in 1 .. BUFFER : ISA_DMA_Transfer(count) = count
<1>1. BUFFER \in Nat \ {0}
  BY FloppyAssumption
<1>2. ASSUME NEW count \in Int
      PROVE  ISA_DMA_Transfer(count) \in 1 .. BUFFER
  <2>1. (count - 1) % BUFFER \in 0 .. BUFFER - 1
    BY <1>1, DivMod
  <2> QED
    BY <1>1, <2>1 DEF ISA_DMA_Transfer
<1>3. ASSUME NEW count \in 1 .. BUFFER
      PROVE  ISA_DMA_Transfer(count) = count
  <2>1. count - 1 \in 0 .. BUFFER - 1
    BY <1>1
  <2>2. (count - 1) % BUFFER = count - 1
    BY <1>1, <2>1, ModSmall
  <2> QED
    BY <1>1, <2>2 DEF ISA_DMA_Transfer
<1> QED
  BY <1>2, <1>3

\* A request lies on the medium.
LEMMA RequestOnMedium ==
  ASSUME ReqInv
  PROVE  /\ Sectors * SECTOR \in Nat /\ req.lba * SECTOR \in Nat
         /\ transfer_count \in Nat /\ (req.count > 0 => transfer_count >= 2)
         /\ req.lba * SECTOR + transfer_count <= Sectors * SECTOR
         /\ Linear(req.chs) * SECTOR = req.lba * SECTOR
<1>1. /\ SECTOR \in Nat /\ SECTOR >= 2 /\ Sectors \in Nat
      /\ req.lba \in 0 .. Sectors - 1 /\ req.lba \in Nat
      /\ req.count \in Nat /\ req.lba + req.count <= Sectors
  <2>1. {CYLINDERS, head_count, sector_max, SECTOR} \subseteq Nat \ {0} /\ SECTOR >= 2
    BY FloppyAssumption
  <2>2. CYLINDERS * head_count * sector_max \in Nat
    BY <2>1
  <2> QED
    BY <2>1, <2>2 DEF ReqInv, Sectors
<1>2. Linear(req.chs) = req.lba
  BY <1>1, SectorAddress DEF ReqInv
<1>3. /\ (req.lba + req.count) * SECTOR = req.lba * SECTOR + req.count * SECTOR
      /\ (req.lba + req.count) * SECTOR <= Sectors * SECTOR
  BY <1>1
<1>4. req.count * SECTOR \in Nat /\ (req.count > 0 => req.count * SECTOR >= 2)
  <2>1. req.count * SECTOR \in Nat /\ (req.count > 0 => req.count * SECTOR >= 1 * SECTOR)
    BY <1>1
  <2> QED
    BY <1>1, <2>1
<1>5. Sectors * SECTOR \in Nat /\ req.lba * SECTOR \in Nat
  BY <1>1
<1> QED
  BY <1>2, <1>3, <1>4, <1>5 DEF ReqInv, transfer_count

\* A command copies at most a buffer and no more than was asked for, and the
\* channel never moves more than was copied for a write of at least a sector.
LEMMA CommandSize ==
  ASSUME ReqInv, pc # "idle"
  PROVE  /\ Rest \in Nat /\ DMACount \in Int /\ Copied \in Nat
         /\ Copied <= transfer_count /\ Copied <= BUFFER
         /\ req.op = "write" /\ req.count > 0 => ISA_DMA_Transfer(DMACount) <= Copied
<1> DEFINE T == transfer_count
           w == T \div BUFFER
           r == T % BUFFER
<1>1. /\ BUFFER \in Nat \ {0} /\ T \in Nat /\ (req.count > 0 => T >= 2)
      /\ req.i \in Nat /\ req.i < Commands
  BY FloppyAssumption, RequestOnMedium DEF ReqInv
<1>2. w \in Int /\ r \in 0 .. BUFFER - 1 /\ T = BUFFER * w + r
  BY <1>1, DivMod
<1> HIDE DEF T, w, r
<1>3. /\ Whole = IF T > BUFFER THEN w ELSE 0
      /\ Rest = IF T > BUFFER THEN r ELSE T
      /\ Commands = IF T > BUFFER /\ Rest <= 1 THEN Whole ELSE Whole + 1
      /\ Copied = IF req.i < Whole THEN BUFFER ELSE Rest
      /\ DMACount = IF req.op = "read" THEN Rest - 1 ELSE Rest
  BY DEF Whole, Rest, Commands, Copied, DMACount, T, w, r
<1>4. CASE T > BUFFER
  <2>1. Rest = r /\ Whole = w /\ r \in Nat /\ DMACount \in Int
    BY <1>1, <1>2, <1>3, <1>4
  <2>2. Copied <= BUFFER /\ Copied \in Nat /\ Copied <= T
    BY <1>1, <1>2, <1>3, <1>4, <2>1
  <2>3. ASSUME req.op = "write"
        PROVE  ISA_DMA_Transfer(DMACount) <= Copied
    <3>1. DMACount = r
      BY <1>3, <2>1, <2>3
    <3>2. CASE req.i < w
      <4>1. ISA_DMA_Transfer(r) <= BUFFER
        BY <1>1, <2>1, TransferBytes
      <4> QED
        BY <1>3, <2>1, <3>1, <3>2, <4>1
    <3>3. CASE ~(req.i < w)
      <4>1. r > 1 /\ Copied = r
        BY <1>1, <1>2, <1>3, <1>4, <2>1, <3>3
      <4>2. ISA_DMA_Transfer(r) = r
        BY <1>1, <1>2, <4>1, TransferBytes
      <4> QED
        BY <2>1, <3>1, <4>1, <4>2
    <3> QED
      BY <3>2, <3>3
  <2> QED
    BY <2>1, <2>2, <2>3 DEF T
<1>5. CASE ~(T > BUFFER)
  <2>1. /\ Rest = T /\ Whole = 0 /\ T \in 0 .. BUFFER /\ DMACount \in Int
        /\ req.count > 0 => T \in 1 .. BUFFER
    BY <1>1, <1>3, <1>5
  <2>2. Copied = T
    BY <1>1, <1>3, <2>1
  <2>3. req.op = "write" /\ req.count > 0 => ISA_DMA_Transfer(DMACount) = T
    BY <1>3, <2>1, TransferBytes
  <2> QED
    BY <1>1, <2>1, <2>2, <2>3 DEF T
<1> QED
  BY <1>4, <1>5

\* A transfer that fits in the buffer is one command.
LEMMA OneCommand ==
  ASSUME ReqInv, transfer_count <= BUFFER
  PROVE  /\ Commands = 1
         /\ pc # "idle" => Copied = transfer_count
         /\ req.op = "write" /\ req.count > 0
              => ISA_DMA_Transfer(DMACount) = transfer_count
         /\ req.op = "read" /\ req.count > 0
              => ISA_DMA_Transfer(DMACount) = transfer_count - 1
<1> DEFINE T == transfer_count
<1>1. BUFFER \in Nat \ {0} /\ T \in Nat /\ (req.count > 0 => T >= 2) /\ req.i \in Nat
  BY FloppyAssumption, RequestOnMedium DEF ReqInv
<1> HIDE DEF T
<1>2. Whole = 0 /\ Rest = T /\ T <= BUFFER
  BY <1>1 DEF Whole, Rest, T
<1>3. /\ Commands = 1 /\ Copied = T
      /\ DMACount = IF req.op = "read" THEN T - 1 ELSE T
  BY <1>1, <1>2 DEF Commands, Copied, DMACount, T
<1>4. req.count > 0 => ISA_DMA_Transfer(T) = T /\ ISA_DMA_Transfer(T - 1) = T - 1
  BY <1>1, <1>2, TransferBytes
<1> QED
  BY <1>3, <1>4 DEF T

----------------------------------------------------------------------------
(* Steps                                                                   *)

\* The driver and the controller at rest.
LEMMA FloppyInitInv == FloppyInit => FloppyInv
<1> SUFFICES ASSUME FloppyInit PROVE FloppyInv
  OBVIOUS
<1>1. /\ {CYLINDERS, head_count, sector_max, SECTOR, BUFFER} \subseteq Nat \ {0}
      /\ SECTOR >= 2
  BY FloppyAssumption
<1>2. Sectors \in Nat \ {0}
  BY <1>1 DEF Sectors
<1>3. LBA_To_CHS(0) \in [cylinder : 0 .. CYLINDERS - 1, head : 0 .. head_count - 1,
                         sector : 1 .. sector_max]
  BY <1>2, SectorAddress
<1>4. ReqInv
  <2>1. /\ req.lba = 0 /\ req.count = 1 /\ pc = "idle" /\ req.chs = LBA_To_CHS(0)
        /\ req = [op |-> "none", lba |-> 0, chs |-> LBA_To_CHS(0), count |-> 1,
                  i |-> 0, sent |-> 0]
    BY DEF FloppyInit
  <2>2. 0 + 1 <= Sectors
    BY <1>2
  <2> QED
    BY <1>2, <1>3, <2>1, <2>2 DEF ReqInv, Parameter_Count
<1>5. StateInv
  <2>0. BUFFER \in Nat \ {0}
    BY <1>1
  <2>1. dma \in 1 .. BUFFER
    BY <2>0 DEF FloppyInit
  <2>4. irq = FALSE /\ floppy_result_ready \in BOOLEAN /\ pc = "idle" /\ ret = 0
    BY ZenonT(20) DEF FloppyInit
  <2>2. DOMAIN disk = DiskByte /\ DOMAIN mem = MemByte /\ DOMAIN bounce = BounceByte
    BY DEF FloppyInit
  <2>3. fdc \in [phase : {"command", "execute", "result"}, got : 0 .. 9,
                 st1 : Statuses \cup {0}]
    BY DEF FloppyInit
  <2> QED
    BY <2>1, <2>2, <2>3, <2>4 DEF StateInv
<1>6. PhaseInv /\ DmaInv
  BY DEF FloppyInit, PhaseInv, DmaInv
<1> QED
  BY <1>4, <1>5, <1>6 DEF FloppyInv

\* A new request.
LEMMA RequestInv ==
  ASSUME FloppyInv, NEW op \in {"read", "write"}, NEW lba \in 0 .. Sectors - 1,
         NEW count \in Counts, NEW text, Request(op, lba, count, text)
  PROVE  FloppyInv'
<1>1. /\ {CYLINDERS, head_count, sector_max, SECTOR, BUFFER} \subseteq Nat \ {0}
      /\ SECTOR >= 2 /\ count \in Nat /\ BUFFER \in Nat \ {0}
  BY FloppyAssumption
<1>2. /\ req' = [op |-> op, lba |-> lba, chs |-> LBA_To_CHS(lba),
                 count |-> count, i |-> 0, sent |-> 0]
      /\ pc = "idle" /\ pc' = "program"
      /\ lba + count <= Sectors
      /\ DOMAIN mem' = MemByte /\ DOMAIN bounce' = BounceByte
      /\ UNCHANGED <<disk, dma, fdc, irq, floppy_result_ready, ret>>
  BY DEF Request
<1>3. StateInv' /\ PhaseInv' /\ DmaInv'
  BY <1>2 DEF FloppyInv, StateInv, PhaseInv, DmaInv
<1>5. 0 < Commands'
  <2> DEFINE T == count * SECTOR
  <2>1. T \in Nat
    BY <1>1
  <2> HIDE DEF T
  <2>2. transfer_count' = T
    BY <1>2 DEF transfer_count, T
  <2>3. CASE T > BUFFER
    <3>1. Whole' = T \div BUFFER /\ T \div BUFFER \in Int
      BY <1>1, <2>1, <2>2, <2>3 DEF Whole
    <3>2. T \div BUFFER > 0
      <4>1. T = BUFFER * (T \div BUFFER) + (T % BUFFER) /\ T % BUFFER \in 0 .. BUFFER - 1
        <5>1. T \in Int /\ BUFFER \in Nat \ {0}
          BY <1>1, <2>1
        <5> QED
          BY <5>1, DivMod
      <4>2. T \div BUFFER <= 0 => BUFFER * (T \div BUFFER) <= 0
        BY <1>1, <3>1
      <4> QED
        BY <1>1, <2>1, <2>3, <3>1, <4>1, <4>2
    <3> QED
      BY <3>1, <3>2 DEF Commands
  <2>4. CASE ~(T > BUFFER)
    <3>1. Whole' = 0
      BY <2>2, <2>4 DEF Whole
    <3> QED
      BY <2>2, <2>4, <3>1 DEF Commands
  <2> QED
    BY <2>3, <2>4
<1>6. ReqInv'
  <2>1. LBA_To_CHS(lba) \in [cylinder : 0 .. CYLINDERS - 1, head : 0 .. head_count - 1,
                             sector : 1 .. sector_max]
    BY SectorAddress
  <2>2. req' \in [op : {"none", "read", "write"}, lba : 0 .. Sectors - 1,
                  chs : [cylinder : 0 .. CYLINDERS - 1, head : 0 .. head_count - 1,
                         sector : 1 .. sector_max],
                  count : Nat, i : Nat, sent : 0 .. Parameter_Count + 1]
    BY <1>1, <1>2, <2>1 DEF Parameter_Count
  <2>3. /\ req'.chs = LBA_To_CHS(req'.lba) /\ req'.i = 0 /\ req'.op # "none"
        /\ req'.lba + req'.count <= Sectors
    BY <1>2
  <2> QED
    BY <1>5, <2>2, <2>3 DEF ReqInv
<1> QED
  BY <1>3, <1>6 DEF FloppyInv

\* The request of a step that changes only i and sent.
LEMMA SameRequest ==
  ASSUME req'.op = req.op, req'.count = req.count
  PROVE  /\ Whole' = Whole /\ Rest' = Rest /\ Commands' = Commands
         /\ DMACount' = DMACount /\ transfer_count' = transfer_count
         /\ req'.i = req.i => Copied' = Copied
BY DEF Whole, Rest, Commands, DMACount, transfer_count, Copied

\* Programming the channel.
LEMMA ProgramInv ==
  ASSUME FloppyInv, ProgramDMA
  PROVE  FloppyInv'
<1>1. /\ pc = "program" /\ pc' = "send" /\ floppy_result_ready' = FALSE
      /\ bounce' = [k \in BounceByte |->
                      IF req.op = "write" /\ k < Copied THEN mem[k] ELSE bounce[k]]
      /\ dma' = ISA_DMA_Transfer(DMACount)
      /\ UNCHANGED <<disk, mem, fdc, irq, req, ret>>
  BY DEF ProgramDMA
<1>2. DMACount \in Int
  BY <1>1, CommandSize DEF FloppyInv
<1>3. DMACount' = DMACount /\ Copied' = Copied /\ Commands' = Commands
  BY <1>1, SameRequest
<1>4. StateInv'
  <2>1. dma' \in 1 .. BUFFER
    BY <1>1, <1>2, TransferBytes
  <2>2. DOMAIN bounce' = BounceByte
    BY <1>1
  <2> QED
    BY <1>1, <2>1, <2>2 DEF FloppyInv, StateInv
<1>5. ReqInv'
  BY <1>1, <1>3 DEF FloppyInv, ReqInv
<1>6. PhaseInv'
  BY <1>1 DEF FloppyInv, PhaseInv, ReqInv, Parameter_Count
<1>7. DmaInv'
  BY <1>1, <1>3 DEF DmaInv
<1> QED
  BY <1>4, <1>5, <1>6, <1>7 DEF FloppyInv

\* A byte of the command.
LEMMA SendInv ==
  ASSUME FloppyInv, Send_Command
  PROVE  FloppyInv'
<1>1. /\ pc = "send" /\ req' = [req EXCEPT !.sent = @ + 1]
      /\ pc' = IF req.sent = Parameter_Count THEN "wait" ELSE pc
      /\ UNCHANGED <<disk, mem, bounce, dma, irq, floppy_result_ready, ret>>
  BY DEF Send_Command
<1>2. \/ fdc' = fdc
      \/ fdc' = [fdc EXCEPT !.got = @ + 1, !.phase = IF fdc.got = 8 THEN "execute" ELSE @]
  BY DEF Send_Command
<1>3. /\ req.sent \in 0 .. 8 /\ fdc.phase = "command" /\ fdc.got <= req.sent
      /\ ~irq /\ ~floppy_result_ready /\ fdc.got \in 0 .. 9 /\ Parameter_Count = 8
  BY <1>1 DEF FloppyInv, PhaseInv, ReqInv, StateInv, Parameter_Count
<1>4. req \in [op : {"none", "read", "write"}, lba : 0 .. Sectors - 1,
               chs : [cylinder : 0 .. CYLINDERS - 1, head : 0 .. head_count - 1,
                      sector : 1 .. sector_max],
               count : Nat, i : Nat, sent : 0 .. Parameter_Count + 1]
  BY DEF FloppyInv, ReqInv
<1>5. /\ req'.op = req.op /\ req'.lba = req.lba /\ req'.chs = req.chs
      /\ req'.count = req.count /\ req'.i = req.i /\ req'.sent = req.sent + 1
  BY <1>1, <1>4
<1>6. DMACount' = DMACount /\ Copied' = Copied /\ Commands' = Commands
  BY <1>5, SameRequest
<1>7. StateInv'
  <2>1. fdc \in [phase : {"command", "execute", "result"}, got : 0 .. 9,
                 st1 : Statuses \cup {0}]
    BY DEF FloppyInv, StateInv
  <2>2. fdc.got + 1 \in 0 .. 9
    BY <1>3
  <2>3. fdc' \in [phase : {"command", "execute", "result"}, got : 0 .. 9,
                  st1 : Statuses \cup {0}]
    BY <1>2, <2>1, <2>2
  <2> QED
    BY <1>1, <2>3 DEF FloppyInv, StateInv
<1>8. ReqInv'
  <2>1. req' \in [op : {"none", "read", "write"}, lba : 0 .. Sectors - 1,
                  chs : [cylinder : 0 .. CYLINDERS - 1, head : 0 .. head_count - 1,
                         sector : 1 .. sector_max],
                  count : Nat, i : Nat, sent : 0 .. Parameter_Count + 1]
    BY <1>1, <1>3, <1>4
  <2> QED
    BY <1>1, <1>5, <1>6, <2>1 DEF FloppyInv, ReqInv
<1>9. PhaseInv'
  <2>1. fdc \in [phase : {"command", "execute", "result"}, got : 0 .. 9,
                 st1 : Statuses \cup {0}]
    BY DEF FloppyInv, StateInv
  <2>2. CASE fdc' = fdc
    BY <1>1, <1>3, <1>5, <2>2 DEF PhaseInv
  <2>3. CASE fdc' = [fdc EXCEPT !.got = @ + 1,
                                !.phase = IF fdc.got = 8 THEN "execute" ELSE @]
    <3>1. fdc'.got = fdc.got + 1 /\ fdc'.phase = IF fdc.got = 8 THEN "execute" ELSE "command"
      BY <1>3, <2>1, <2>3
    <3> QED
      BY <1>1, <1>3, <1>5, <3>1 DEF PhaseInv
  <2> QED
    BY <1>2, <2>2, <2>3
<1>10. DmaInv'
  BY <1>1, <1>5, <1>6 DEF FloppyInv, DmaInv
<1> QED
  BY <1>7, <1>8, <1>9, <1>10 DEF FloppyInv

\* The interrupt of a command that ended.
LEMMA IRQInv ==
  ASSUME FloppyInv, FLOPPY_IRQ
  PROVE  FloppyInv'
<1>1. /\ irq /\ irq' = FALSE /\ floppy_result_ready' = TRUE
      /\ UNCHANGED <<disk, mem, bounce, dma, fdc, req, pc, ret>>
  BY DEF FLOPPY_IRQ
<1>2. DMACount' = DMACount /\ Copied' = Copied /\ Commands' = Commands
  BY <1>1, SameRequest
<1>3. StateInv' /\ ReqInv' /\ DmaInv'
  BY <1>1, <1>2 DEF FloppyInv, StateInv, ReqInv, DmaInv
<1>4. PhaseInv'
  BY <1>1 DEF FloppyInv, StateInv, PhaseInv
<1> QED
  BY <1>3, <1>4 DEF FloppyInv

\* The end of a command.
LEMMA FinishInv ==
  ASSUME FloppyInv, Finish
  PROVE  /\ FloppyInv'
         /\ pc = "wait" /\ fdc.phase = "result"
         /\ Fatal(fdc.st1) => ret' = fdc.st1 /\ pc' = "idle" /\ req' = req
         /\ ~Fatal(fdc.st1) =>
              /\ ret' = 0 /\ req' = [req EXCEPT !.i = @ + 1, !.sent = 0]
              /\ pc' = IF req.i + 1 < Commands THEN "program" ELSE "idle"
         /\ mem' = [k \in MemByte |->
                      IF req.op = "read" /\ ~Fatal(fdc.st1) /\ k < Copied
                      THEN bounce[k] ELSE mem[k]]
         /\ UNCHANGED <<disk, bounce>>
<1>1. /\ pc = "wait" /\ floppy_result_ready
      /\ UNCHANGED <<disk, bounce, dma, irq, floppy_result_ready>>
  BY DEF Finish
<1>2. fdc.phase = "result" /\ ~irq
  BY <1>1 DEF FloppyInv, PhaseInv, StateInv
<1>3. /\ fdc' = [fdc EXCEPT !.phase = "command", !.got = 0]
      /\ mem' = [k \in MemByte |-> IF req.op = "read" /\ ~Fatal(fdc.st1) /\ k < Copied
                                   THEN bounce[k] ELSE mem[k]]
      /\ IF Fatal(fdc.st1) THEN pc' = "idle" /\ ret' = fdc.st1 /\ req' = req
         ELSE /\ ret' = 0
              /\ req' = [req EXCEPT !.i = @ + 1, !.sent = 0]
              /\ pc' = IF req.i + 1 < Commands THEN "program" ELSE "idle"
  BY <1>2 DEF Finish, Read_Result_Bytes
<1>4. fdc \in [phase : {"command", "execute", "result"}, got : 0 .. 9,
               st1 : Statuses \cup {0}]
  BY DEF FloppyInv, StateInv
<1>5. req \in [op : {"none", "read", "write"}, lba : 0 .. Sectors - 1,
               chs : [cylinder : 0 .. CYLINDERS - 1, head : 0 .. head_count - 1,
                      sector : 1 .. sector_max],
               count : Nat, i : Nat, sent : 0 .. Parameter_Count + 1]
  BY DEF FloppyInv, ReqInv
<1>6. StateInv'
  <2>1. fdc' \in [phase : {"command", "execute", "result"}, got : 0 .. 9,
                  st1 : Statuses \cup {0}]
    <3>1. fdc' = [fdc EXCEPT !.phase = "command", !.got = 0] /\ 0 \in 0 .. 9
      BY <1>3
    <3> QED
      BY <1>4, <3>1
  <2>2. ret' \in Statuses \cup {0} /\ pc' \in {"idle", "program", "send", "wait"}
        /\ DOMAIN mem' = MemByte
    BY <1>3, <1>4
  <2> QED
    BY <1>1, <2>1, <2>2 DEF FloppyInv, StateInv
<1>7. CASE Fatal(fdc.st1)
  <2>1. pc' = "idle" /\ req' = req
    BY <1>3, <1>7
  <2>2. ReqInv' /\ DmaInv'
    BY <2>1 DEF FloppyInv, ReqInv, DmaInv
  <2>3. PhaseInv'
    BY <1>1, <1>2, <1>3, <1>4, <2>1 DEF PhaseInv
  <2> QED
    BY <1>1, <1>2, <1>3, <1>6, <1>7, <2>2, <2>3 DEF FloppyInv
<1>8. CASE ~Fatal(fdc.st1)
  <2>1. /\ req' = [req EXCEPT !.i = @ + 1, !.sent = 0]
        /\ pc' = IF req.i + 1 < Commands THEN "program" ELSE "idle"
    BY <1>3, <1>8
  <2>2. /\ req'.op = req.op /\ req'.lba = req.lba /\ req'.chs = req.chs
        /\ req'.count = req.count /\ req'.i = req.i + 1 /\ req'.sent = 0
    BY <1>5, <2>1
  <2>3. Commands' = Commands
    BY <2>2, SameRequest
  <2>4. req' \in [op : {"none", "read", "write"}, lba : 0 .. Sectors - 1,
                  chs : [cylinder : 0 .. CYLINDERS - 1, head : 0 .. head_count - 1,
                         sector : 1 .. sector_max],
                  count : Nat, i : Nat, sent : 0 .. Parameter_Count + 1]
    <3>1. req.i + 1 \in Nat /\ 0 \in 0 .. Parameter_Count + 1
      BY <1>5 DEF Parameter_Count
    <3> QED
      BY <1>5, <2>1, <3>1
  <2>5. ReqInv'
    BY <1>1, <2>1, <2>2, <2>3, <2>4 DEF FloppyInv, ReqInv
  <2>6. PhaseInv' /\ DmaInv'
    BY <1>1, <1>2, <1>3, <1>4, <2>1, <2>2 DEF PhaseInv, DmaInv
  <2> QED
    BY <1>1, <1>2, <1>3, <1>6, <1>8, <2>5, <2>6 DEF FloppyInv
<1> QED
  BY <1>7, <1>8

\* The controller moves no more than the channel allows.
LEMMA MovedBytes ==
  ASSUME StateInv, ReqInv, NEW st1, NEW n \in Moved(st1)
  PROVE  n \in Int /\ n <= dma /\ (st1 = 0 => n = dma)
<1>1. dma \in Nat /\ dma >= 1
  BY FloppyAssumption DEF StateInv
<1>2. 2 # 0 /\ 128 # 0
  OBVIOUS
<1>3. n = dma \/ n = 0 \/ n \in 0 .. dma - 1
  BY DEF Moved
<1> QED
  BY <1>1, <1>2, <1>3 DEF Moved

\* A command executed by the controller.
LEMMA ExecuteInv ==
  ASSUME FloppyInv, Execute
  PROVE  FloppyInv' /\ pc = "wait" /\ UNCHANGED <<mem, req, pc, ret>>
<1>1. /\ fdc.phase = "execute" /\ irq'
      /\ UNCHANGED <<mem, dma, floppy_result_ready, req, pc, ret>>
  BY DEF Execute
<1>2. PICK st1 \in Statuses \cup {0} : fdc' = [fdc EXCEPT !.phase = "result", !.st1 = st1]
  BY DEF Execute
<1>3. pc = "wait" /\ ~floppy_result_ready
  BY <1>1 DEF FloppyInv, PhaseInv, StateInv
<1>4. /\ DOMAIN disk' = DiskByte /\ DOMAIN bounce' = BounceByte
      /\ req.op # "read" => bounce' = bounce
  BY DEF Execute, FloppyInv, StateInv
<1>5. DMACount' = DMACount /\ Copied' = Copied /\ Commands' = Commands
  BY <1>1, SameRequest
<1>6. StateInv' /\ PhaseInv'
  BY <1>1, <1>2, <1>3, <1>4 DEF FloppyInv, StateInv, PhaseInv
<1>7. ReqInv' /\ DmaInv'
  BY <1>1, <1>4, <1>5 DEF FloppyInv, ReqInv, DmaInv
<1> QED
  BY <1>1, <1>3, <1>6, <1>7 DEF FloppyInv

\* Every step of callers, driver, controller and interrupt.
LEMMA FloppyNextInv == FloppyInv /\ [FloppyNext]_flpvars => FloppyInv'
<1> SUFFICES ASSUME FloppyInv, [FloppyNext]_flpvars PROVE FloppyInv'
  OBVIOUS
<1>1. CASE UNCHANGED flpvars
  BY <1>1 DEF flpvars, FloppyInv, StateInv, ReqInv, PhaseInv, DmaInv, Commands, Whole, Rest,
              transfer_count, DMACount, Copied
<1>2. CASE FloppyNext
  BY <1>2, RequestInv, ProgramInv, SendInv, FinishInv, ExecuteInv, IRQInv
     DEF FloppyNext, Driver
<1> QED
  BY <1>1, <1>2

LEMMA FloppyInvariant == FloppySpec => []FloppyInv
BY FloppyInitInv, FloppyNextInv, PTL DEF FloppySpec

\* What the controller moves, and where.
LEMMA ExecuteEffect ==
  ASSUME FloppyInv, Execute
  PROVE  \E st1 \in Statuses \cup {0}, n \in Int :
           /\ fdc'.st1 = st1 /\ n <= dma /\ (st1 = 0 => n = dma)
           /\ IF req.op = "read"
              THEN /\ bounce' = [k \in BounceByte |->
                                   IF k < n /\ req.lba * SECTOR + k \in DiskByte
                                   THEN disk[req.lba * SECTOR + k] ELSE bounce[k]]
                   /\ disk' = disk
              ELSE /\ disk' = [b \in DiskByte |->
                                 IF b - req.lba * SECTOR \in 0 .. n - 1
                                 THEN bounce[b - req.lba * SECTOR] ELSE disk[b]]
                   /\ bounce' = bounce
<1> DEFINE base == Linear(req.chs) * SECTOR
<1>1. PICK st1 \in Statuses \cup {0} :
        /\ \E n \in Moved(st1) :
             IF req.op = "read"
             THEN /\ bounce' = [k \in BounceByte |->
                                  IF k < n /\ base + k \in DiskByte
                                  THEN disk[base + k] ELSE bounce[k]]
                  /\ disk' = disk
             ELSE /\ disk' = [b \in DiskByte |->
                                IF b - base \in 0 .. n - 1 THEN bounce[b - base]
                                ELSE disk[b]]
                  /\ bounce' = bounce
        /\ fdc' = [fdc EXCEPT !.phase = "result", !.st1 = st1]
  BY DEF Execute
<1> HIDE DEF base
<1>2. base = req.lba * SECTOR
  BY RequestOnMedium DEF FloppyInv, base
<1>3. PICK n \in Moved(st1) :
        IF req.op = "read"
        THEN /\ bounce' = [k \in BounceByte |->
                             IF k < n /\ base + k \in DiskByte
                             THEN disk[base + k] ELSE bounce[k]]
             /\ disk' = disk
        ELSE /\ disk' = [b \in DiskByte |->
                           IF b - base \in 0 .. n - 1 THEN bounce[b - base]
                           ELSE disk[b]]
             /\ bounce' = bounce
  BY <1>1
<1>4. n \in Int /\ n <= dma /\ (st1 = 0 => n = dma)
  BY MovedBytes DEF FloppyInv
<1>5. fdc'.st1 = st1
  BY <1>1 DEF FloppyInv, StateInv
<1> HIDE DEF base
<1> QED
  BY <1>2, <1>3, <1>4, <1>5

\* The bytes the controller puts on the medium are those of the write.
LEMMA ExecuteWrites ==
  ASSUME FloppyInv, Execute, req.count > 0, NEW b \in DiskByte, disk'[b] # disk[b]
  PROVE  /\ pc # "idle" /\ req.op = "write"
         /\ b - req.lba * SECTOR \in 0 .. transfer_count - 1
         /\ disk'[b] = mem[b - req.lba * SECTOR]
<1> DEFINE base == req.lba * SECTOR
           k == b - base
<1>1. pc = "wait" /\ pc # "idle"
  BY ExecuteInv
<1>2. PICK n \in Int :
        /\ n <= dma
        /\ IF req.op = "read" THEN disk' = disk
           ELSE disk' = [x \in DiskByte |-> IF x - base \in 0 .. n - 1
                                            THEN bounce[x - base] ELSE disk[x]]
  BY ExecuteEffect
<1>3. /\ base \in Nat /\ b \in Int /\ transfer_count \in Nat
      /\ dma = ISA_DMA_Transfer(DMACount) /\ dma \in Nat
      /\ BUFFER \in Nat
  <2>1. base \in Nat /\ Sectors * SECTOR \in Nat /\ transfer_count \in Nat
    BY RequestOnMedium DEF FloppyInv
  <2>2. b \in Int
    BY <2>1 DEF DiskByte
  <2>3. dma = ISA_DMA_Transfer(DMACount) /\ dma \in 1 .. BUFFER
    BY <1>1 DEF FloppyInv, DmaInv, StateInv
  <2>4. BUFFER \in Nat
    BY FloppyAssumption
  <2> QED
    BY <2>1, <2>2, <2>3, <2>4
<1> HIDE DEF base
<1>4. req.op # "read" /\ k \in 0 .. n - 1 /\ disk'[b] = bounce[k]
  BY <1>2
<1>5. req.op = "write"
  BY <1>1, <1>4 DEF FloppyInv, ReqInv
<1>6. ISA_DMA_Transfer(DMACount) <= Copied /\ Copied <= transfer_count /\ Copied <= BUFFER
      /\ Copied \in Nat
  BY <1>1, <1>5, CommandSize DEF FloppyInv
<1> HIDE DEF k
<1>7. k \in 0 .. transfer_count - 1 /\ k < Copied /\ k \in BounceByte
  BY <1>2, <1>3, <1>4, <1>6 DEF BounceByte
<1>8. bounce[k] = mem[k]
  BY <1>1, <1>5, <1>7 DEF FloppyInv, DmaInv
<1> QED
  BY <1>1, <1>4, <1>5, <1>7, <1>8 DEF k, base

\* The end of a command keeps what it moved, and returns 0 only if it moved it.
LEMMA FinishMoves ==
  ASSUME OnlyFatal, TransferInv, Finish
  PROVE  WrittenThrough' /\ ReadAllButLast'
<1>1. /\ pc = "wait" /\ fdc.phase = "result"
      /\ Fatal(fdc.st1) => ret' = fdc.st1 /\ pc' = "idle" /\ req' = req
      /\ ~Fatal(fdc.st1) => ret' = 0 /\ req' = [req EXCEPT !.i = @ + 1, !.sent = 0]
      /\ mem' = [k \in MemByte |-> IF req.op = "read" /\ ~Fatal(fdc.st1) /\ k < Copied
                                   THEN bounce[k] ELSE mem[k]]
      /\ UNCHANGED <<disk, bounce>>
  BY FinishInv DEF TransferInv
<1>2. CASE Fatal(fdc.st1)
  <2>1. fdc.st1 # 0
    <3>1. ~Fatal(0)
      BY DEF Fatal
    <3> QED
      BY <1>2, <3>1
  <2> QED
    BY <1>1, <1>2, <2>1 DEF WrittenThrough, Written, ReadAllButLast, Succeeded
<1>3. CASE ~Fatal(fdc.st1)
  <2>1. fdc.st1 = 0
    BY <1>3 DEF OnlyFatal, TransferInv, FloppyInv, StateInv
  <2>2. req'.op = req.op /\ req'.lba = req.lba /\ req'.count = req.count
    BY <1>1, <1>3 DEF TransferInv, FloppyInv, ReqInv
  <2>3. transfer_count' = transfer_count
    BY <2>2, SameRequest
  <2>4. /\ transfer_count \in Nat /\ req.lba * SECTOR \in Nat
        /\ Sectors * SECTOR \in Nat
        /\ req.lba * SECTOR + transfer_count <= Sectors * SECTOR
    BY RequestOnMedium DEF TransferInv, FloppyInv
  <2>0. CASE ~(transfer_count <= BUFFER)
    BY <2>0, <2>3 DEF WrittenThrough, ReadAllButLast
  <2>1a. SUFFICES ASSUME transfer_count <= BUFFER
                 PROVE  WrittenThrough' /\ ReadAllButLast'
    BY <2>0
  <2>5. Copied = transfer_count
    BY <1>1, <2>1a, OneCommand DEF TransferInv, FloppyInv
  <2>6. /\ req.op = "write" =>
             \A k \in 0 .. transfer_count - 1 : disk[req.lba * SECTOR + k] = mem[k]
        /\ req.op = "read" =>
             \A k \in 0 .. transfer_count - 2 : bounce[k] = disk[req.lba * SECTOR + k]
    BY <1>1, <2>1, <2>1a DEF TransferInv, MovedInv
  <2>7. ASSUME NEW k \in 0 .. transfer_count - 1
        PROVE  k \in MemByte /\ k < Copied
    BY <2>4, <2>5 DEF MemByte, DiskByte
  <2>8. WrittenThrough'
    <3> SUFFICES ASSUME req.op = "write", NEW k \in 0 .. transfer_count - 1
                 PROVE  disk'[req'.lba * SECTOR + k] = mem'[k]
      BY <2>2, <2>3 DEF WrittenThrough, Written, Succeeded
    <3>1. mem'[k] = mem[k]
      BY <1>1, <2>7
    <3> QED
      BY <1>1, <2>2, <2>6, <3>1
  <2>9. ReadAllButLast'
    <3> SUFFICES ASSUME req.op = "read", NEW k \in 0 .. transfer_count - 2
                 PROVE  mem'[k] = disk'[req'.lba * SECTOR + k]
      BY <2>2, <2>3 DEF ReadAllButLast, Succeeded
    <3>1. k \in 0 .. transfer_count - 1
      BY <2>4
    <3>2. mem'[k] = bounce[k]
      BY <1>1, <1>3, <2>7, <3>1
    <3> QED
      BY <1>1, <2>2, <2>6, <3>2
  <2> QED
    BY <2>8, <2>9
<1> QED
  BY <1>2, <1>3

\* A command executed without an error moves all its bytes.
LEMMA ExecuteMoves ==
  ASSUME TransferInv, Execute
  PROVE  MovedInv'
<1> DEFINE base == req.lba * SECTOR
           T == transfer_count
<1>1. pc = "wait" /\ UNCHANGED <<mem, req, pc, ret>>
  BY ExecuteInv DEF TransferInv
<1>2. T' = T
  BY <1>1, SameRequest
<1>3. /\ T \in Nat /\ (req.count > 0 <=> T > 0) /\ base \in Nat /\ Sectors * SECTOR \in Nat
      /\ base + T <= Sectors * SECTOR
  <2>1. req.count \in Nat /\ (req.count = 0 => transfer_count = 0)
    BY FloppyAssumption DEF TransferInv, FloppyInv, ReqInv, transfer_count
  <2> QED
    BY <2>1, RequestOnMedium DEF TransferInv, FloppyInv
<1>0. CASE ~(T <= BUFFER)
  BY <1>0, <1>2 DEF MovedInv
<1>4. SUFFICES ASSUME T <= BUFFER PROVE MovedInv'
  BY <1>0
<1>5. /\ Copied = T /\ dma = ISA_DMA_Transfer(DMACount)
      /\ req.op = "write" /\ T > 0 => dma = T
      /\ req.op = "read" /\ T > 0 => dma = T - 1
      /\ req.op = "write" => \A k \in BounceByte : k < T => bounce[k] = mem[k]
  BY <1>1, <1>3, <1>4, OneCommand DEF TransferInv, FloppyInv, DmaInv
<1>6. PICK st1 \in Statuses \cup {0}, n \in Int :
        /\ fdc'.st1 = st1 /\ (st1 = 0 => n = dma)
        /\ IF req.op = "read"
           THEN /\ bounce' = [k \in BounceByte |->
                                IF k < n /\ base + k \in DiskByte
                                THEN disk[base + k] ELSE bounce[k]]
                /\ disk' = disk
           ELSE /\ disk' = [b \in DiskByte |->
                              IF b - base \in 0 .. n - 1 THEN bounce[b - base] ELSE disk[b]]
                /\ bounce' = bounce
  BY ExecuteEffect DEF TransferInv
<1> HIDE DEF base, T
<1>7. CASE fdc'.st1 = 0
  <2>1. n = dma
    BY <1>6, <1>7
  <2>2. ASSUME req.op = "write", NEW k \in 0 .. T - 1
        PROVE  disk'[base + k] = mem[k]
    <3>1. base + k \in DiskByte /\ (base + k) - base = k /\ k \in 0 .. n - 1
      BY <1>3, <1>5, <2>1, <2>2 DEF DiskByte
    <3>2. k \in BounceByte /\ k < T
      BY <1>3, <1>4, FloppyAssumption DEF BounceByte
    <3>3. disk'[base + k] = bounce[k]
      BY <1>6, <2>2, <3>1
    <3> QED
      BY <1>5, <2>2, <3>2, <3>3
  <2>3. ASSUME req.op = "read", NEW k \in 0 .. T - 2
        PROVE  bounce'[k] = disk'[base + k]
    <3>1. k \in BounceByte /\ k < n /\ base + k \in DiskByte
      BY <1>3, <1>4, <1>5, <2>1, <2>3, FloppyAssumption DEF BounceByte, DiskByte
    <3> QED
      BY <1>6, <2>3, <3>1
  <2> QED
    BY <1>1, <1>2, <2>2, <2>3 DEF MovedInv, base, T
<1>8. CASE fdc'.st1 # 0
  BY <1>8 DEF MovedInv
<1> QED
  BY <1>7, <1>8

\* One step keeps the strengthening.
LEMMA TransferStep ==
  ASSUME OnlyFatal, TransferInv, [FloppyNext]_flpvars
  PROVE  TransferInv'
<1>1. FloppyInv'
  BY FloppyNextInv DEF TransferInv
<1>2. CASE Finish
  <2>1. pc' # "wait"
    BY <1>2, FinishInv DEF TransferInv
  <2> QED
    BY <1>1, <1>2, <2>1, FinishMoves DEF TransferInv, MovedInv
<1>3. CASE Execute
  <2>1. pc' # "idle"
    BY <1>3, ExecuteInv DEF TransferInv
  <2> QED
    BY <1>1, <1>3, <2>1, ExecuteMoves
       DEF TransferInv, WrittenThrough, Written, ReadAllButLast, Succeeded
<1>4. ASSUME NEW op, NEW lba, NEW count, NEW text, Request(op, lba, count, text)
      PROVE  TransferInv'
  <2>1. pc' = "program"
    BY <1>4 DEF Request
  <2> QED
    BY <1>1, <2>1 DEF TransferInv, MovedInv, WrittenThrough, Written, ReadAllButLast, Succeeded
<1>5. CASE ProgramDMA
  <2>1. pc' = "send"
    BY <1>5 DEF ProgramDMA
  <2> QED
    BY <1>1, <2>1 DEF TransferInv, MovedInv, WrittenThrough, Written, ReadAllButLast, Succeeded
<1>6. CASE Send_Command
  <2>1. pc = "send" /\ pc' \in {"send", "wait"} /\ fdc.phase = "command"
        /\ fdc'.phase # "result"
    BY <1>6 DEF Send_Command, TransferInv, FloppyInv, PhaseInv, StateInv
  <2> QED
    BY <1>1, <2>1 DEF TransferInv, MovedInv, WrittenThrough, Written, ReadAllButLast, Succeeded
<1>7. CASE FLOPPY_IRQ \/ UNCHANGED flpvars
  <2>1. UNCHANGED <<disk, mem, bounce, fdc, req, pc, ret>>
    BY <1>7 DEF FLOPPY_IRQ, flpvars
  <2>2. transfer_count' = transfer_count
    BY <2>1, SameRequest
  <2> QED
    BY <1>1, <2>1, <2>2 DEF TransferInv, MovedInv, WrittenThrough, Written, ReadAllButLast, Succeeded
<1> QED
  BY <1>2, <1>3, <1>4, <1>5, <1>6, <1>7 DEF FloppyNext, Driver

LEMMA TransferInvariant ==
  ASSUME OnlyFatal
  PROVE  FloppySpec => []TransferInv
<1>1. FloppyInit => TransferInv
  BY FloppyInitInv
     DEF FloppyInit, TransferInv, MovedInv, WrittenThrough, Written, ReadAllButLast, Succeeded
<1>2. TransferInv /\ [FloppyNext]_flpvars => TransferInv'
  BY TransferStep
<1> QED
  BY <1>1, <1>2, PTL DEF FloppySpec

----------------------------------------------------------------------------
(* Theorems                                                                *)

\* LBA_To_CHS always yields a sector the drive has, counted from 1, and no DMA
\* transfer leaves FLOPPY_BOUNCE_BUFFER, for requests of any size.
THEOREM FloppyTypeCorrect == FloppySpec => []FloppyTypeOK
<1>1. FloppyInv => FloppyTypeOK
  <2> SUFFICES ASSUME FloppyInv PROVE FloppyTypeOK
    OBVIOUS
  <2>1. ret \in 0 .. 255
    BY FloppyAssumption DEF FloppyInv, StateInv
  <2>2. fdc.phase \in {"command", "execute", "result"} /\ fdc.got \in 0 .. 9
        /\ {irq, floppy_result_ready} \subseteq BOOLEAN
    BY DEF FloppyInv, StateInv
  <2>3. /\ req.op \in {"none", "read", "write"}
        /\ req.chs \in [cylinder : 0 .. CYLINDERS - 1, head : 0 .. head_count - 1,
                        sector : 1 .. sector_max]
    BY DEF FloppyInv, ReqInv
  <2> QED
    BY <2>1, <2>2, <2>3 DEF FloppyTypeOK, FloppyInv, StateInv
<1> QED
  BY <1>1, FloppyInvariant, PTL

\* Whatever the controller reports and however large the request, the medium
\* changes only where FLOPPY_Write_CHS was asked to write, to what it was given;
\* except when it was asked to write no sectors, which a DMA count of 0 turns
\* into a write of 64 KiB.
THEOREM MediumOnlyRequested == FloppySpec => OnlyRequested
<1> DEFINE Asked == req.count > 0 =>
                      \A b \in DiskByte : disk'[b] # disk[b] =>
                        /\ pc # "idle" /\ req.op = "write"
                        /\ b - req.lba * SECTOR \in 0 .. transfer_count - 1
                        /\ disk'[b] = mem[b - req.lba * SECTOR]
<1>1. FloppyInv /\ [FloppyNext]_flpvars => [Asked]_flpvars
  <2> SUFFICES ASSUME FloppyInv, FloppyNext PROVE Asked
    OBVIOUS
  <2>1. CASE Execute
    BY <2>1, ExecuteWrites
  <2>2. CASE disk' = disk
    BY <2>2
  <2> QED
    BY <2>1, <2>2
       DEF FloppyNext, Driver, Request, ProgramDMA, Send_Command, Finish, FLOPPY_IRQ
<1> QED
  BY <1>1, FloppyInvariant, PTL DEF FloppySpec, OnlyRequested

\* A FLOPPY_Write_CHS of at most one buffer that returns 0 has put the caller's
\* bytes on the medium, if the controller reports no error but those that the
\* driver looks at.
THEOREM WritesThrough ==
  ASSUME OnlyFatal
  PROVE  FloppySpec => []WrittenThrough
BY TransferInvariant, PTL DEF TransferInv

\* In the same way a FLOPPY_Read_CHS that returns 0 has given the caller all
\* bytes of the sectors but the last.
THEOREM ReadsAllButLast ==
  ASSUME OnlyFatal
  PROVE  FloppySpec => []ReadAllButLast
BY TransferInvariant, PTL DEF TransferInv

=============================================================================
