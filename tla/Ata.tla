-------------------------------- MODULE Ata ---------------------------------
(***************************************************************************)
(* The disk driver (src/diskio.c) and IRQ 14 (src/idt.c): disk_read and    *)
(* disk_write drive one PIO transfer per sector and wait for the drive's   *)
(* interrupt through the flag ide_interrupt_fired.  Three actors run: the  *)
(* CPU in the driver, the drive, and the interrupt handler, which runs at  *)
(* any moment after the drive has raised its line.                         *)
(***************************************************************************)
EXTENDS Integers

CONSTANTS
    Radix,          \* values of a task-file register (256)
    NibRadix,       \* values of the LBA bits in the drive register (16)
    Words,          \* words in a sector (256)
    Starts,         \* first sectors the file system asks for
    MaxCount,       \* most sectors it asks for in a call
    Data,           \* values of a word
    Undef,          \* what the data port yields when the drive offers none
    Payloads,       \* sectors the file system writes
    Contents,       \* what is on the disk at power-on
    CanFail         \* may the drive fail a command?

Lba == 0 .. (Radix * Radix * Radix * NibRadix) - 1
Word == 0 .. Words - 1
Sector == [Word -> Data]
Counts == 1 .. MaxCount

ASSUME AtaAssumption ==
    /\ Radix \in Nat \ {0} /\ NibRadix \in Nat \ {0} /\ Words \in Nat \ {0}
    /\ MaxCount \in Nat /\ CanFail \in BOOLEAN
    /\ Starts \subseteq Lba
    /\ \A s \in Starts, j \in 0 .. MaxCount - 1 : s + j \in Lba
    /\ Undef \notin Data
    /\ Payloads \subseteq Sector /\ Contents \in [Lba -> Sector]

VARIABLES
    ide_interrupt_fired,
    ata_pc,             \* where the driver is
    op, sector, count, buff,    \* the call's arguments
    i, w,           \* the sector and the word the transfer has come to
    result,         \* what the last call returned
    regs,           \* the LBA registers of the drive
    drive,          \* what the drive is doing
    lba, sbuf, pos, \* its current sector, sector buffer and position in it
    failed,         \* it has reported an error during this call
    disk,           \* the medium
    intrq,          \* the drive's interrupt line
    irr             \* a request latched in the interrupt controller

call == <<op, sector, count>>
driver == <<ide_interrupt_fired, ata_pc, call, buff, i, w, result>>
device == <<regs, drive, lba, sbuf, pos, failed, disk>>
ataVars == <<driver, device, intrq, irr>>

BSY == drive \in {"reading", "preparing", "writing"}
DRQ == drive \in {"offering", "accepting"}

Buffer == [0 .. MaxCount - 1 -> [Word -> Data \cup {Undef}]]
Blank == [j \in 0 .. MaxCount - 1 |-> [k \in Word |-> Undef]]

AtaTypeOK ==
    /\ ide_interrupt_fired \in {0, 1}
    /\ ata_pc \in {"boot", "idle", "loop", "clear", "command", "delay", "bsy", "drq",
               "in", "out", "wait", "ack"}
    /\ op \in {"read", "write"}
    /\ sector \in Starts \cup {0} /\ count \in Counts \cup {0}
    /\ buff \in Buffer
    /\ i \in 0 .. MaxCount /\ w \in 0 .. Words
    /\ result \in {"none", "RES_OK", "RES_PARERR"}
    /\ regs \in [low : 0 .. Radix - 1, mid : 0 .. Radix - 1,
                 high : 0 .. Radix - 1, top : 0 .. NibRadix - 1]
    /\ drive \in {"idle", "reading", "offering", "preparing", "accepting",
                  "writing", "error"}
    /\ lba \in Lba /\ sbuf \in Sector /\ pos \in 0 .. Words
    /\ failed \in BOOLEAN
    /\ disk \in [Lba -> Sector]
    /\ intrq \in BOOLEAN /\ irr \in BOOLEAN

\* The boot loader may leave the drive's line raised; what the controller had
\* latched was delivered when kernel_main enabled interrupts.
AtaInit ==
    /\ ide_interrupt_fired \in {0, 1}
    /\ ata_pc = "boot" /\ op = "read" /\ sector = 0 /\ count = 0 /\ buff = Blank
    /\ i = 0 /\ w = 0 /\ result = "none"
    /\ regs = [low |-> 0, mid |-> 0, high |-> 0, top |-> 0]
    /\ drive = "idle" /\ lba = 0 /\ sbuf = Contents[0] /\ pos = 0
    /\ failed = FALSE /\ disk = Contents
    /\ intrq \in BOOLEAN /\ irr = FALSE

-----------------------------------------------------------------------------
(* The drive, the interrupt controller and the handler.                    *)

Raise == intrq' = TRUE /\ irr' = (irr \/ ~intrq)

Quiet == UNCHANGED <<intrq, irr>>

\* Reading the status register drops the line, not a latched request.
ReadStatus == intrq' = FALSE /\ UNCHANGED irr

DriveReadDone ==
    /\ drive = "reading"
    /\ drive' = "offering" /\ sbuf' = disk[lba] /\ pos' = 0
    /\ Raise
    /\ UNCHANGED <<regs, lba, failed, disk>>

\* A drive that wants the data of a write says so without an interrupt.
DriveReady ==
    /\ drive = "preparing"
    /\ drive' = "accepting" /\ pos' = 0
    /\ Quiet
    /\ UNCHANGED <<regs, lba, sbuf, failed, disk>>

DriveWriteDone ==
    /\ drive = "writing"
    /\ drive' = "idle" /\ disk' = [disk EXCEPT ![lba] = sbuf]
    /\ Raise
    /\ UNCHANGED <<regs, lba, sbuf, pos, failed>>

DriveFails ==
    /\ CanFail /\ BSY
    /\ drive' = "error" /\ failed' = TRUE
    /\ Raise
    /\ UNCHANGED <<regs, lba, sbuf, pos, disk>>

Drive ==
    /\ DriveReadDone \/ DriveReady \/ DriveWriteDone \/ DriveFails
    /\ UNCHANGED driver

Irq14 ==
    /\ irr
    /\ irr' = FALSE /\ intrq' = FALSE
    /\ ide_interrupt_fired' = 1
    /\ UNCHANGED <<ata_pc, call, buff, i, w, result, device>>

-----------------------------------------------------------------------------
(* The driver.                                                             *)

disk_initialize ==
    /\ ata_pc = "boot"
    /\ ata_pc' = "idle"
    /\ ReadStatus
    /\ UNCHANGED <<ide_interrupt_fired, call, buff, i, w, result, device>>

\* FatFs calls disk_read(pdrv, buff, s, n) or disk_write(pdrv, buff, s, n).
Call(o, pdrv, s, n, b) ==
    /\ ata_pc = "idle"
    /\ IF pdrv # 0
       THEN result' = "RES_PARERR" /\ UNCHANGED <<ata_pc, call, buff, i, failed>>
       ELSE /\ op' = o /\ sector' = s /\ count' = n
            /\ buff' = b /\ i' = 0 /\ failed' = FALSE
            /\ ata_pc' = "loop" /\ result' = "none"
    /\ Quiet
    /\ UNCHANGED <<ide_interrupt_fired, w, regs, drive, lba, sbuf, pos, disk>>

disk_read == \E pdrv \in {0, 1}, s \in Starts, n \in Counts :
                Call("read", pdrv, s, n, Blank)

disk_write ==
    \E pdrv \in {0, 1}, s \in Starts, n \in Counts, p, q \in Payloads :
        Call("write", pdrv, s, n, [j \in 0 .. MaxCount - 1 |-> IF j = 0 THEN p ELSE q])

\* Mutant: the middle byte is not shifted down.
LbaRegs_NoShift(s) ==
    [low |-> s % Radix,
     mid |-> s % Radix,
     high |-> ((s \div Radix) \div Radix) % Radix,
     top |-> (((s \div Radix) \div Radix) \div Radix) % NibRadix]

LbaRegs(s) ==
    [low |-> s % Radix,
     mid |-> (s \div Radix) % Radix,
     high |-> ((s \div Radix) \div Radix) % Radix,
     top |-> (((s \div Radix) \div Radix) \div Radix) % NibRadix]

\* The sector the drive makes of its registers.
RegsLba(r) == r.low + Radix * (r.mid + Radix * (r.high + Radix * r.top))

Select ==
    /\ ata_pc = "loop" /\ i < count
    /\ regs' = LbaRegs(sector + i)
    /\ ata_pc' = "clear"
    /\ Quiet
    /\ UNCHANGED <<ide_interrupt_fired, call, buff, i, w, result,
                   drive, lba, sbuf, pos, failed, disk>>

ReturnOk ==
    /\ ata_pc = "loop" /\ i >= count
    /\ result' = "RES_OK" /\ ata_pc' = "idle"
    /\ Quiet
    /\ UNCHANGED <<ide_interrupt_fired, call, buff, i, w, device>>

ClearFlag ==
    /\ ata_pc = "clear"
    /\ ide_interrupt_fired' = 0
    /\ ata_pc' = "command"
    /\ Quiet
    /\ UNCHANGED <<call, buff, i, w, result, device>>

\* The command register: a busy drive ignores it.
Command ==
    /\ ata_pc = "command"
    /\ ata_pc' = "delay" /\ w' = 0
    /\ IF BSY THEN UNCHANGED <<drive, lba>>
       ELSE /\ drive' = IF op = "read" THEN "reading" ELSE "preparing"
            /\ lba' = RegsLba(regs)
    /\ ReadStatus
    /\ UNCHANGED <<ide_interrupt_fired, call, buff, i, result,
                   regs, sbuf, pos, failed, disk>>

\* Mutant: the flag is cleared after the command instead of before it.
Delay_ClearsFlag ==
    /\ ata_pc = "delay"
    /\ ata_pc' = IF op = "read" THEN "wait" ELSE "bsy"
    /\ ide_interrupt_fired' = 0
    /\ ReadStatus
    /\ UNCHANGED <<call, buff, i, w, result, device>>

\* The four status reads of the recovery delay.
Delay ==
    /\ ata_pc = "delay"
    /\ ata_pc' = IF op = "read" THEN "wait" ELSE "bsy"
    /\ ReadStatus
    /\ UNCHANGED <<ide_interrupt_fired, call, buff, i, w, result, device>>

\* ata_poll_drq: two loops, each ending on the status it waits for.
PollBusy ==
    /\ ata_pc = "bsy" /\ ~BSY
    /\ ata_pc' = "drq"
    /\ ReadStatus
    /\ UNCHANGED <<ide_interrupt_fired, call, buff, i, w, result, device>>

PollDrq ==
    /\ ata_pc = "drq" /\ DRQ
    /\ ata_pc' = "out"
    /\ ReadStatus
    /\ UNCHANGED <<ide_interrupt_fired, call, buff, i, w, result, device>>

\* Status reads of a loop that goes on waiting.
Spin ==
    /\ \/ ata_pc = "bsy" /\ BSY
       \/ ata_pc = "drq" /\ ~DRQ
       \/ ata_pc = "wait" /\ ide_interrupt_fired = 0
    /\ ReadStatus
    /\ UNCHANGED <<driver, device>>

ata_wait_interrupt ==
    /\ ata_pc = "wait" /\ ide_interrupt_fired = 1
    /\ ide_interrupt_fired' = 0
    /\ ata_pc' = IF op = "read" THEN "in" ELSE "ack"
    /\ Quiet
    /\ UNCHANGED <<call, buff, i, w, result, device>>

PumpIn ==
    /\ ata_pc = "in" /\ w < Words
    /\ buff' = [buff EXCEPT ![i][w] = IF drive = "offering" THEN sbuf[pos] ELSE Undef]
    /\ w' = w + 1
    /\ IF drive = "offering"
       THEN /\ pos' = pos + 1
            /\ drive' = IF pos + 1 = Words THEN "idle" ELSE drive
       ELSE UNCHANGED <<pos, drive>>
    /\ Quiet
    /\ UNCHANGED <<ide_interrupt_fired, ata_pc, call, i, result,
                   regs, lba, sbuf, failed, disk>>

PumpOut ==
    /\ ata_pc = "out" /\ w < Words
    /\ w' = w + 1
    /\ IF drive = "accepting"
       THEN /\ sbuf' = [sbuf EXCEPT ![pos] = buff[i][w]]
            /\ pos' = pos + 1
            /\ drive' = IF pos + 1 = Words THEN "writing" ELSE drive
       ELSE UNCHANGED <<sbuf, pos, drive>>
    /\ Quiet
    /\ UNCHANGED <<ide_interrupt_fired, ata_pc, call, buff, i, result,
                   regs, lba, failed, disk>>

\* Mutant: goes on before the drive has confirmed the write.
PumpOutDone_NoWait ==
    /\ ata_pc = "out" /\ w = Words
    /\ ata_pc' = "ack"
    /\ Quiet
    /\ UNCHANGED <<ide_interrupt_fired, call, buff, i, w, result, device>>

PumpOutDone ==
    /\ ata_pc = "out" /\ w = Words
    /\ ata_pc' = "wait"
    /\ Quiet
    /\ UNCHANGED <<ide_interrupt_fired, call, buff, i, w, result, device>>

\* The end of a sector; a write reads the status once more.
SectorDone ==
    /\ \/ ata_pc = "in" /\ w = Words /\ Quiet
       \/ ata_pc = "ack" /\ ReadStatus
    /\ i' = i + 1
    /\ ata_pc' = "loop"
    /\ UNCHANGED <<ide_interrupt_fired, call, buff, w, result, device>>

Driver ==
    \/ Select \/ ReturnOk \/ ClearFlag \/ Command \/ Delay \/ PollBusy \/ PollDrq
    \/ ata_wait_interrupt \/ PumpIn \/ PumpOut \/ PumpOutDone \/ SectorDone

AtaNext ==
    \/ disk_initialize \/ disk_read \/ disk_write
    \/ Driver \/ Spin \/ Drive \/ Irq14

AtaSpec == AtaInit /\ [][AtaNext]_ataVars

\* The CPU executes the driver, the drive completes its commands, and the
\* controller delivers what it has latched: interrupts stay enabled.
AtaFairSpec == AtaSpec /\ WF_ataVars(Driver) /\ WF_ataVars(Drive) /\ WF_ataVars(Irq14)

-----------------------------------------------------------------------------
\* A command is issued only to a drive that is not busy, with nothing of an
\* earlier command still on its way: the next interrupt is this command's.
CommandWhenQuiet ==
    ata_pc = "command" => ~BSY /\ ~DRQ /\ ~irr /\ ide_interrupt_fired = 0

\* When the drive does not fail, the words of a transfer go through the data
\* port only while the drive offers or accepts them, each at its position.
PumpWhenReady ==
    ~failed => /\ ata_pc = "in" /\ w < Words => drive = "offering" /\ pos = w
               /\ ata_pc = "out" /\ w < Words => drive = "accepting" /\ pos = w

\* A disk_read that returned has filled the caller's buffer with the sectors
\* it asked for, unless the drive failed.
ReadIsDisk ==
    ata_pc = "idle" /\ op = "read" /\ result = "RES_OK" /\ ~failed
        => \A j \in 0 .. count - 1 : buff[j] = disk[sector + j]

\* A disk_write that returned has every sector on the medium, unless the
\* drive failed.
WriteIsOnDisk ==
    ata_pc = "idle" /\ op = "write" /\ result = "RES_OK" /\ ~failed
        => \A j \in 0 .. count - 1 : disk[sector + j] = buff[j]

\* The medium changes only at the sector whose turn it is in a disk_write,
\* and only into what the caller passed for it.
OnlyTargetChanges ==
    [][\A l \in Lba : disk'[l] # disk[l] =>
            op = "write" /\ l = sector + i /\ disk'[l] = buff[i]]_ataVars

\* Every read returns, whatever the drive reports; a write returns unless the
\* drive fails it, when ata_poll_drq waits for a DRQ that does not come.
CallReturns == ata_pc = "loop" ~> ata_pc = "idle" \/ (op = "write" /\ failed)

\* RES_OK is "0: Successful": no command of the call has failed.
OkMeansSuccessful == ata_pc = "idle" /\ result = "RES_OK" => ~failed

=============================================================================
