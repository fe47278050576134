------------------------------- MODULE Floppy -------------------------------
(***************************************************************************)
(* The floppy driver (Floppy.c, ISA_DMA.h) and the controller it drives: a  *)
(* request is cut into commands, each with a DMA transfer of its own; the   *)
(* controller works on a command by itself and ends it with an interrupt.   *)
(*                                                                         *)
(* Bytes are modelled one by one.  The controller is external: it moves the *)
(* bytes the DMA counter allows, from the sector named by cylinder, head    *)
(* and sector on, and reports status register 1.                            *)
(***************************************************************************)
EXTENDS Integers

CONSTANTS
  CYLINDERS, head_count, sector_max,  \* FLOPPY_Main_Info
  SECTOR,       \* bytes of a sector (512)
  BUFFER,       \* bytes of FLOPPY_BOUNCE_BUFFER and of a DMA count (0x10000)
  Counts,       \* the SectorCounts of requests, 0 for an empty GemFS file
  Texts,        \* what callers write
  Statuses,     \* what the controller may report in ST1 besides 0
  Slow,         \* whether it takes time to accept a byte
  MaxRequests   \* bound: requests per behaviour

ASSUME FloppyAssumption ==
  /\ {CYLINDERS, head_count, sector_max, SECTOR, BUFFER} \subseteq Nat \ {0}
  /\ SECTOR >= 2 /\ BUFFER % SECTOR = 0
  /\ Counts \subseteq Nat /\ Texts \subseteq Nat \ {0}
  /\ Statuses \subseteq 1 .. 255 /\ Slow \in BOOLEAN /\ MaxRequests \in Nat

VARIABLES
  disk,    \* the bytes on the medium
  mem,     \* the caller's buffer
  bounce,  \* FLOPPY_BOUNCE_BUFFER
  dma,     \* bytes the DMA channel will move
  fdc,     \* the controller: phase, bytes accepted, ST1
  irq,     \* IRQ 6 is pending
  floppy_result_ready,
  req,     \* arguments and locals of FLOPPY_Read_CHS and FLOPPY_Write_CHS
  pc,      \* where the driver is
  ret,     \* what it returned
  served   \* requests so far

flpvars == <<disk, mem, bounce, dma, fdc, irq, floppy_result_ready, req, pc,
             ret, served>>

Sectors == CYLINDERS * head_count * sector_max
DiskByte == 0 .. Sectors * SECTOR - 1
MemByte == DiskByte  \* a buffer no request is larger than
BounceByte == 0 .. BUFFER - 1

Zero == -1    \* a byte cleared by memset
Stale == -2   \* whatever a caller's buffer held

\* The k-th byte of a text; a byte of the original disk is its own address.
TextByte(text, k) == text * Sectors * SECTOR + k

----------------------------------------------------------------------------
(* Arithmetic of the driver                                                *)

\* Mutant of LBA_To_CHS: the head changes before the sector does.
LBA_To_CHS_HeadFirst(lba) ==
  [cylinder |-> lba \div (head_count * sector_max),
   head |-> lba % head_count,
   sector |-> ((lba \div head_count) % sector_max) + 1]

\* Mutant of LBA_To_CHS: sectors are counted from 0.
LBA_To_CHS_FromZero(lba) ==
  [cylinder |-> lba \div (head_count * sector_max),
   head |-> (lba \div sector_max) % head_count,
   sector |-> lba % sector_max]

LBA_To_CHS(lba) ==
  [cylinder |-> lba \div (head_count * sector_max),
   head |-> (lba \div sector_max) % head_count,
   sector |-> (lba % sector_max) + 1]

\* Bytes the channel moves when it is programmed with count: the counter
\* register has count - 1 and the channel stops below zero.
ISA_DMA_Transfer(count) == ((count - 1) % BUFFER) + 1

transfer_count == req.count * SECTOR

\* A transfer beyond BUFFER bytes is a loop of whole buffers and a rest.
Whole == IF transfer_count > BUFFER THEN transfer_count \div BUFFER ELSE 0
Rest == IF transfer_count > BUFFER THEN transfer_count % BUFFER
                                   ELSE transfer_count

\* The number of commands, and the bytes copied with the current one.
Commands ==
  IF transfer_count > BUFFER /\ Rest <= 1 THEN Whole ELSE Whole + 1
Copied == IF req.i < Whole THEN BUFFER ELSE Rest

\* Rest in every command, also for a whole buffer; a read subtracts the one
\* that ISA_DMA_Transfer subtracts too.  A write of no sectors programs 0,
\* which wraps around to the whole 64 KiB.
DMACount == IF req.op = "read" THEN Rest - 1 ELSE Rest

\* Mutant of Fatal: the write protection is not looked at.
Fatal_NoProtection(st1) == (st1 \div 128) % 2 = 1 \/ (st1 \div 64) % 2 = 1

\* The bits 0x80, 0x40 and 0x02 of ST1.
Fatal(st1) == \/ (st1 \div 128) % 2 = 1
              \/ (st1 \div 64) % 2 = 1
              \/ (st1 \div 2) % 2 = 1

----------------------------------------------------------------------------
(* The driver                                                              *)

\* The reset in FLOPPY_Init_Controller may have raised an interrupt.
FloppyInit ==
  /\ disk = [b \in DiskByte |-> b]
  /\ mem = [k \in MemByte |-> Stale]
  /\ bounce = [k \in BounceByte |-> Zero]
  /\ dma = 1
  /\ fdc = [phase |-> "command", got |-> 0, st1 |-> 0]
  /\ irq = FALSE
  /\ floppy_result_ready \in BOOLEAN
  /\ req = [op |-> "none", lba |-> 0, chs |-> LBA_To_CHS(0), count |-> 1,
            i |-> 0, sent |-> 0]
  /\ pc = "idle" /\ ret = 0 /\ served = 0

\* A caller's read or write; for a write, text is what is in its buffer.
Request(op, lba, count, text) ==
  /\ pc = "idle" /\ served < MaxRequests
  /\ lba + count <= Sectors
  /\ req' = [op |-> op, lba |-> lba, chs |-> LBA_To_CHS(lba),
             count |-> count, i |-> 0, sent |-> 0]
  /\ mem' = [k \in MemByte |-> IF op = "read" THEN Stale ELSE TextByte(text, k)]
  /\ bounce' = [k \in BounceByte |-> Zero]
  /\ pc' = "program" /\ served' = served + 1
  /\ UNCHANGED <<disk, dma, fdc, irq, floppy_result_ready, ret>>

\* Mutant of ProgramDMA: floppy_result_ready is not cleared.
ProgramDMA_StaleFlag ==
  /\ pc = "program"
  /\ bounce' = [k \in BounceByte |->
                  IF req.op = "write" /\ k < Copied THEN mem[k] ELSE bounce[k]]
  /\ dma' = ISA_DMA_Transfer(DMACount)
  /\ pc' = "send"
  /\ UNCHANGED <<disk, mem, fdc, irq, floppy_result_ready, req, ret, served>>

\* Fill the bounce buffer for a write, program the channel, clear the flag.
ProgramDMA ==
  /\ pc = "program"
  /\ bounce' = [k \in BounceByte |->
                  IF req.op = "write" /\ k < Copied THEN mem[k] ELSE bounce[k]]
  /\ dma' = ISA_DMA_Transfer(DMACount)
  /\ floppy_result_ready' = FALSE
  /\ pc' = "send"
  /\ UNCHANGED <<disk, mem, fdc, irq, req, ret, served>>

\* Mutant of Parameter_Count: the last parameter is not sent.
Parameter_Count_OffByOne == 7

Parameter_Count == 8

\* The command byte and the parameters.  The loop before each of them tests
\* MSR & 0 and MSR & 1, not RQM and DIO, so the byte goes out in any case, and
\* is lost if the controller is not ready.
Send_Command ==
  /\ pc = "send"
  /\ \E RQM \in IF Slow THEN BOOLEAN ELSE {TRUE} :
       fdc' = IF fdc.phase = "command" /\ RQM
              THEN [fdc EXCEPT !.got = @ + 1,
                               !.phase = IF fdc.got = 8 THEN "execute" ELSE @]
              ELSE fdc
  /\ req' = [req EXCEPT !.sent = @ + 1]
  /\ pc' = IF req.sent = Parameter_Count THEN "wait" ELSE pc
  /\ UNCHANGED <<disk, mem, bounce, dma, irq, floppy_result_ready, ret, served>>

FLOPPY_IRQ ==
  /\ irq
  /\ irq' = FALSE
  /\ floppy_result_ready' = TRUE
  /\ UNCHANGED <<disk, mem, bounce, dma, fdc, req, pc, ret, served>>

\* The result bytes; without a result phase Results stays uninitialised.
Read_Result_Bytes(st1) ==
  IF fdc.phase = "result"
  THEN st1 = fdc.st1 /\ fdc' = [fdc EXCEPT !.phase = "command", !.got = 0]
  ELSE fdc' = fdc

\* Check ST1, copy what was read, go on with the next command or return.
Finish ==
  /\ pc = "wait" /\ floppy_result_ready
  /\ \E st1 \in Statuses \cup {0} :
       /\ Read_Result_Bytes(st1)
       /\ mem' = [k \in MemByte |->
                    IF req.op = "read" /\ ~Fatal(st1) /\ k < Copied
                    THEN bounce[k] ELSE mem[k]]
       /\ IF Fatal(st1) THEN pc' = "idle" /\ ret' = st1 /\ req' = req
          ELSE /\ ret' = 0
               /\ req' = [req EXCEPT !.i = @ + 1, !.sent = 0]
               /\ pc' = IF req.i + 1 < Commands THEN "program" ELSE "idle"
  /\ UNCHANGED <<disk, bounce, dma, irq, floppy_result_ready, served>>

----------------------------------------------------------------------------
(* The controller                                                          *)

Linear(chs) ==
  (chs.cylinder * head_count + chs.head) * sector_max + chs.sector - 1

\* Bytes from a sector to the end of its cylinder.
CylinderRest(lba) ==
  (head_count * sector_max - (lba % (head_count * sector_max))) * SECTOR

\* The bytes a command can have moved when it ends with st1: all of them; up to
\* the end of the cylinder (0x80: controllers differ in whether they go on
\* there); none (0x02: write protection); or some sectors.
Moved(st1) ==
  IF st1 = 0 THEN {dma}
  ELSE IF st1 = 128 THEN {CylinderRest(Linear(req.chs))} \cap 0 .. dma - 1
  ELSE IF st1 = 2 THEN IF req.op = "write" THEN {0} ELSE {}
  ELSE {n * SECTOR : n \in 0 .. dma \div SECTOR} \cap 0 .. dma - 1

Execute ==
  /\ fdc.phase = "execute"
  /\ \E st1 \in Statuses \cup {0} :
       /\ \E n \in Moved(st1) :
            LET base == Linear(req.chs) * SECTOR IN
            IF req.op = "read"
            THEN /\ bounce' = [k \in BounceByte |->
                                 IF k < n /\ base + k \in DiskByte
                                 THEN disk[base + k] ELSE bounce[k]]
                 /\ disk' = disk
            ELSE /\ disk' = [b \in DiskByte |->
                               IF b - base \in 0 .. n - 1 THEN bounce[b - base]
                               ELSE disk[b]]
                 /\ bounce' = bounce
       /\ fdc' = [fdc EXCEPT !.phase = "result", !.st1 = st1]
  /\ irq' = TRUE
  /\ UNCHANGED <<mem, dma, floppy_result_ready, req, pc, ret, served>>

Driver == ProgramDMA \/ Send_Command \/ Finish

FloppyNext ==
  \/ \E lba \in 0 .. Sectors - 1, count \in Counts :
       \/ Request("read", lba, count, 0)
       \/ \E text \in Texts : Request("write", lba, count, text)
  \/ Driver \/ Execute \/ FLOPPY_IRQ

\* The driver is a loop that runs on, the controller ends its commands, and
\* interrupts are on while the driver waits.  Nothing is assumed of callers.
FloppySpec ==
  /\ FloppyInit /\ [][FloppyNext]_flpvars
  /\ WF_flpvars(Driver) /\ WF_flpvars(Execute) /\ WF_flpvars(FLOPPY_IRQ)

----------------------------------------------------------------------------
(* Properties                                                              *)

\* Every variable keeps its type: sectors count from 1, and a DMA transfer never
\* leaves FLOPPY_BOUNCE_BUFFER.
FloppyTypeOK ==
  /\ DOMAIN disk = DiskByte /\ DOMAIN mem = MemByte /\ DOMAIN bounce = BounceByte
  /\ dma \in 1 .. BUFFER
  /\ fdc.phase \in {"command", "execute", "result"} /\ fdc.got \in 0 .. 9
  /\ {irq, floppy_result_ready} \subseteq BOOLEAN
  /\ req.op \in {"none", "read", "write"}
  /\ req.chs \in [cylinder : 0 .. CYLINDERS - 1, head : 0 .. head_count - 1,
                  sector : 1 .. sector_max]
  /\ pc \in {"idle", "program", "send", "wait"}
  /\ ret \in 0 .. 255

Succeeded(op) == pc = "idle" /\ req.op = op /\ ret = 0

\* When FLOPPY_Write_CHS returns 0, the sectors have what the caller passed.
Written ==
  Succeeded("write") =>
    \A k \in 0 .. transfer_count - 1 : disk[req.lba * SECTOR + k] = mem[k]

\* The same for the requests that one buffer holds: a larger one comes down
\* to its rest, once per buffer.
WrittenThrough == transfer_count <= BUFFER => Written

\* When FLOPPY_Read_CHS returns 0 for such a request, the caller has the bytes
\* of the sectors, all but the last one.
ReadAllButLast ==
  transfer_count <= BUFFER /\ Succeeded("read") =>
    \A k \in 0 .. transfer_count - 2 : mem[k] = disk[req.lba * SECTOR + k]

\* When FLOPPY_Read_CHS returns 0, the caller has the sectors.
ReadComplete ==
  Succeeded("read") =>
    \A k \in 0 .. transfer_count - 1 : mem[k] = disk[req.lba * SECTOR + k]

\* However large the request, the medium changes only where a write in
\* progress says, to what it says; except for a write of no sectors.
OnlyRequested ==
  [][req.count > 0 =>
       \A b \in DiskByte : disk'[b] # disk[b] =>
         /\ pc # "idle" /\ req.op = "write"
         /\ b - req.lba * SECTOR \in 0 .. transfer_count - 1
         /\ disk'[b] = mem[b - req.lba * SECTOR]]_flpvars

\* A write of no sectors, which is what GemFS_WriteFile asks for when the file
\* has no blocks yet, writes nothing.
EmptyWritesNothing == [][req.count = 0 => disk' = disk]_flpvars

\* The driver does not wait for ever (while(!floppy_result_ready)).
TransfersEnd == pc # "idle" ~> pc = "idle"
=============================================================================
