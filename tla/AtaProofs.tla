----------------------------- MODULE AtaProofs ------------------------------
(***************************************************************************)
(* Proofs about the disk driver for every sector size, register width and  *)
(* length of a transfer, wherever the drive's interrupt falls.             *)
(***************************************************************************)
EXTENDS Ata, TLAPS

\* Multiplication by a natural number keeps the order.
LEMMA TimesMono ==
    ASSUME NEW x \in Nat, NEW y \in Nat, NEW z \in Nat, x <= y
    PROVE  z * x <= z * y /\ z * x \in Nat /\ z * y \in Nat
<1>1. z * x \in Nat /\ z * y \in Nat /\ z * (y - x) = z * y - z * x
    OBVIOUS
<1>2. y - x \in Nat
    OBVIOUS
<1>3. z * (y - x) \in Nat
    BY <1>2
<1> QED BY <1>1, <1>3

\* Division with remainder by a positive number.
LEMMA DivMod ==
    ASSUME NEW n \in Nat, NEW d \in Nat \ {0}
    PROVE  /\ n \div d \in Nat /\ n % d \in 0 .. d - 1
           /\ n = d * (n \div d) + (n % d)
OBVIOUS

\* A number below the divisor is its own remainder.
LEMMA SmallMod ==
    ASSUME NEW n \in Nat, NEW d \in Nat \ {0}, n < d
    PROVE  n % d = n
OBVIOUS

\* The bytes ata_select_master and its callers put into the registers are
\* register values.
LEMMA LbaRegsType ==
    ASSUME NEW s \in Nat
    PROVE  LbaRegs(s) \in [low : 0 .. Radix - 1, mid : 0 .. Radix - 1,
                           high : 0 .. Radix - 1, top : 0 .. NibRadix - 1]
<1> USE AtaAssumption
<1> DEFINE a == s \div Radix
           b == a \div Radix
           c == b \div Radix
<1>1. a \in Nat /\ s % Radix \in 0 .. Radix - 1
    BY DivMod
<1> HIDE DEF a
<1>2. b \in Nat /\ a % Radix \in 0 .. Radix - 1
    BY <1>1, DivMod
<1> HIDE DEF b
<1>3. c \in Nat /\ b % Radix \in 0 .. Radix - 1
    BY <1>2, DivMod
<1> HIDE DEF c
<1>4. c % NibRadix \in 0 .. NibRadix - 1
    BY <1>3, DivMod
<1> QED BY <1>1, <1>2, <1>3, <1>4 DEF LbaRegs, a, b, c

\* The drive makes of the registers the sector the driver meant: the shifts
\* and masks lose no bit of a sector number below 2^28.
LEMMA RoundTrip ==
    ASSUME NEW s \in Lba
    PROVE  RegsLba(LbaRegs(s)) = s
<1> USE AtaAssumption
<1> DEFINE a == s \div Radix
           b == a \div Radix
           c == b \div Radix
<1>0. s \in Nat /\ s < Radix * Radix * Radix * NibRadix
    BY DEF Lba
<1>1. a \in Nat /\ s % Radix \in 0 .. Radix - 1 /\ s = Radix * a + (s % Radix)
    BY <1>0, DivMod
<1> HIDE DEF a
<1>2. b \in Nat /\ a % Radix \in 0 .. Radix - 1 /\ a = Radix * b + (a % Radix)
    BY <1>1, DivMod
<1> HIDE DEF b
<1>3. c \in Nat /\ b % Radix \in 0 .. Radix - 1 /\ b = Radix * c + (b % Radix)
    BY <1>2, DivMod
<1> HIDE DEF c
<1>4. c < NibRadix
    <2>1. SUFFICES ASSUME NibRadix <= c PROVE FALSE
        BY <1>3
    <2>2. PICK n1 \in Nat : n1 = Radix * NibRadix
        OBVIOUS
    <2>3. n1 <= b
        <3>1. Radix * NibRadix <= Radix * c /\ Radix * c \in Nat
            BY <1>3, <2>1, TimesMono
        <3> QED BY <1>3, <2>2, <3>1
    <2>4. PICK n2 \in Nat : n2 = Radix * n1
        OBVIOUS
    <2>5. n2 <= a
        <3>1. Radix * n1 <= Radix * b /\ Radix * b \in Nat
            BY <1>2, <2>3, TimesMono
        <3> QED BY <1>2, <2>4, <3>1
    <2>6. Radix * n2 <= s
        <3>1. Radix * n2 <= Radix * a /\ Radix * a \in Nat
            BY <1>1, <2>5, TimesMono
        <3> QED BY <1>1, <2>4, <3>1
    <2>7. Radix * n2 = Radix * Radix * Radix * NibRadix
        BY <2>2, <2>4
    <2> QED BY <1>0, <2>6, <2>7
<1>5. c % NibRadix = c
    BY <1>3, <1>4, SmallMod
<1>6. LbaRegs(s) = [low |-> s % Radix, mid |-> a % Radix, high |-> b % Radix, top |-> c]
    BY <1>5 DEF LbaRegs, a, b, c
<1>7. (b % Radix) + Radix * c = b
    BY <1>3
<1>8. (a % Radix) + Radix * b = a
    BY <1>2
<1>9. (s % Radix) + Radix * a = s
    BY <1>1
<1> QED BY <1>6, <1>7, <1>8, <1>9 DEF RegsLba

AtRest == ata_pc \in {"boot", "idle", "loop", "clear", "command"}
Awaited == irr <=> ide_interrupt_fired = 0
Unraised == ~irr /\ ide_interrupt_fired = 0

\* What the drive may be doing, and whether its interrupt is still to come,
\* latched or already flagged, at each place of the driver.
Handshake ==
    /\ AtRest => drive \in {"idle", "error"} /\ ~irr
    /\ ata_pc = "command" => ide_interrupt_fired = 0
    /\ ata_pc \in {"delay", "wait"} /\ op = "read" =>
            \/ drive = "reading" /\ Unraised
            \/ drive = "offering" /\ pos = 0 /\ Awaited
            \/ drive = "error" /\ Awaited
    /\ ata_pc = "in" =>
            /\ op = "read" /\ Unraised
            /\ \/ drive = "offering" /\ pos = w /\ w < Words
               \/ drive = "idle" /\ w = Words
               \/ drive = "error"
    /\ ata_pc \in {"delay", "bsy", "drq"} /\ op = "write" =>
            \/ drive = "preparing" /\ ata_pc # "drq" /\ Unraised
            \/ drive = "accepting" /\ pos = 0 /\ Unraised
            \/ drive = "error" /\ Awaited
    /\ ata_pc \in {"bsy", "drq", "out", "ack"} => op = "write"
    /\ ata_pc = "out" /\ w < Words => drive = "accepting" /\ pos = w /\ Unraised
    /\ (ata_pc = "out" /\ w = Words) \/ (ata_pc = "wait" /\ op = "write") =>
            \/ drive = "writing" /\ Unraised
            \/ drive \in {"idle", "error"} /\ Awaited
    /\ ata_pc = "ack" => drive \in {"idle", "error"} /\ Unraised
    /\ ata_pc \in {"delay", "bsy", "drq"} => w = 0
    /\ ata_pc = "wait" => w = (IF op = "read" THEN 0 ELSE Words)
    /\ drive \in {"reading", "preparing", "accepting", "writing"} => ~intrq
    /\ drive = "error" /\ ~AtRest => failed

\* Where a transfer stands.
Position ==
    /\ ata_pc \notin {"boot", "idle", "loop"} => i < count
    /\ ata_pc = "loop" => i <= count
    /\ ata_pc = "boot" => count = 0 /\ result = "none"
    /\ ata_pc = "idle" /\ result = "RES_OK" => i = count
    /\ ata_pc # "boot" /\ count > 0 => sector \in Starts
    /\ ata_pc \in {"clear", "command"} => regs = LbaRegs(sector + i)
    /\ ~AtRest => lba = sector + i

\* The caller of disk_write passed sectors.
Given == op = "write" => \A j \in 0 .. MaxCount - 1 : buff[j] \in Sector

\* The drive's sector buffer holds what it offers, or has been given.
InDrive ==
    /\ drive = "offering" => sbuf = disk[lba]
    /\ drive = "accepting" => pos < Words /\ \A k \in 0 .. pos - 1 : sbuf[k] = buff[i][k]
    /\ drive = "writing" => sbuf = buff[i]

\* What has been transferred: the sectors done, and the one in progress.
ReadSoFar ==
    ~failed /\ op = "read" =>
        /\ \A j \in 0 .. i - 1 : buff[j] = disk[sector + j]
        /\ ata_pc = "in" => \A k \in 0 .. w - 1 : buff[i][k] = disk[lba][k]

WrittenSoFar ==
    ~failed /\ op = "write" =>
        /\ \A j \in 0 .. i - 1 : disk[sector + j] = buff[j]
        /\ drive = "idle" /\ ~AtRest => disk[lba] = buff[i]

Moved == Given /\ InDrive /\ ReadSoFar /\ WrittenSoFar

Transfer == Position /\ Moved

AtaInv == AtaTypeOK /\ Handshake /\ Transfer

\* The sector a transfer has come to exists and has its place in the buffer.
LEMMA InRange ==
    ASSUME AtaTypeOK, Transfer, ata_pc # "boot", i < count
    PROVE  sector + i \in Lba /\ i \in 0 .. MaxCount - 1 /\ sector + i \in Nat
<1> USE AtaAssumption
<1>1. count \in 1 .. MaxCount /\ i \in 0 .. MaxCount
    BY DEF AtaTypeOK, Counts
<1>2. i \in 0 .. MaxCount - 1 /\ sector \in Starts
    BY <1>1 DEF Transfer, Position
<1>3. sector + i \in Lba
    BY <1>2
<1> QED BY <1>2, <1>3 DEF Lba

\* The numbers among the variables.
LEMMA Scalars ==
    ASSUME AtaTypeOK
    PROVE  /\ MaxCount \in Nat /\ Words \in Nat /\ 0 < Words
           /\ i \in Nat /\ count \in Nat /\ w \in Nat /\ pos \in Nat
           /\ w <= Words /\ i <= MaxCount
BY AtaAssumption DEF AtaTypeOK, Counts

\* Every step keeps the driver, the drive and the interrupt in phase.
LEMMA HandshakeStep == AtaTypeOK /\ Handshake /\ [AtaNext]_ataVars => Handshake'
<1> SUFFICES ASSUME AtaTypeOK, Handshake, [AtaNext]_ataVars PROVE Handshake'
    OBVIOUS
<1> USE AtaAssumption DEF Handshake, Raise, Quiet, ReadStatus, BSY, DRQ, AtRest, Awaited, Unraised, driver, device, call
<1>1. CASE disk_initialize
    BY <1>1 DEF disk_initialize, AtaTypeOK
<1>2. CASE disk_read
    BY <1>2 DEF Call, disk_read, AtaTypeOK
<1>3. CASE disk_write
    BY <1>3 DEF Call, disk_write, AtaTypeOK
<1>4. CASE Select
    BY <1>4 DEF Select, AtaTypeOK
<1>5. CASE ReturnOk
    BY <1>5 DEF ReturnOk, AtaTypeOK
<1>6. CASE ClearFlag
    BY <1>6 DEF ClearFlag, AtaTypeOK
<1>7. CASE Command
    BY <1>7 DEF Command, AtaTypeOK
<1>8. CASE Delay
    BY <1>8 DEF Delay, AtaTypeOK
<1>9. CASE PollBusy
    BY <1>9 DEF PollBusy, AtaTypeOK
<1>10. CASE PollDrq
    BY <1>10 DEF PollDrq, AtaTypeOK
<1>11. CASE ata_wait_interrupt
    BY <1>11 DEF ata_wait_interrupt, AtaTypeOK
<1>12. CASE PumpIn
    BY <1>12 DEF PumpIn, AtaTypeOK
<1>13. CASE PumpOut
    BY <1>13 DEF PumpOut, AtaTypeOK
<1>14. CASE PumpOutDone
    BY <1>14 DEF PumpOutDone, AtaTypeOK
<1>15. CASE SectorDone
    BY <1>15 DEF SectorDone, AtaTypeOK
<1>16. CASE Spin
    BY <1>16 DEF Spin, AtaTypeOK
<1>17. CASE DriveReadDone /\ UNCHANGED driver
    BY <1>17 DEF DriveReadDone, AtaTypeOK
<1>18. CASE DriveReady /\ UNCHANGED driver
    BY <1>18 DEF DriveReady, AtaTypeOK
<1>19. CASE DriveWriteDone /\ UNCHANGED driver
    BY <1>19 DEF DriveWriteDone, AtaTypeOK
<1>20. CASE DriveFails /\ UNCHANGED driver
    BY <1>20 DEF DriveFails, AtaTypeOK
<1>21. CASE Irq14
    BY <1>21 DEF Irq14, AtaTypeOK
<1>30. CASE UNCHANGED ataVars
    BY <1>30 DEF ataVars, AtaTypeOK
<1> QED BY <1>1, <1>2, <1>3, <1>4, <1>5, <1>6, <1>7, <1>8, <1>9, <1>10, <1>11, <1>12, <1>13, <1>14, <1>15, <1>16, <1>17, <1>18, <1>19, <1>20, <1>21, <1>30 DEF AtaNext, Driver, Drive

\* AtaTypeOK without the lines and flags that are Booleans.
Types ==
    /\ ide_interrupt_fired \in {0, 1}
    /\ ata_pc \in {"boot", "idle", "loop", "clear", "command", "delay", "bsy", "drq",
               "in", "out", "wait", "ack"}
    /\ op \in {"read", "write"}
    /\ sector \in Starts \cup {0} /\ count \in Counts \cup {0}
    /\ buff \in Buffer
    /\ i \in 0 .. MaxCount /\ w \in 0 .. Words
    /\ result \in {"none", "RES_OK", "RES_PARERR"}
    /\ regs \in [low : 0 .. Radix - 1, mid : 0 .. Radix - 1,
                 high : 0 .. Radix - 1, top : 0 .. NibRadix - 1]
    /\ drive \in {"idle", "reading", "offering", "preparing", "accepting",
                  "writing", "error"}
    /\ lba \in Lba /\ sbuf \in Sector /\ pos \in 0 .. Words
    /\ disk \in [Lba -> Sector]

Lines == failed \in BOOLEAN /\ intrq \in BOOLEAN /\ irr \in BOOLEAN

\* Every step keeps the types.
LEMMA TypesStep == AtaTypeOK /\ Types /\ Handshake /\ Transfer /\ [AtaNext]_ataVars => Types'
<1> SUFFICES ASSUME AtaTypeOK, Types, Handshake, Transfer, [AtaNext]_ataVars PROVE Types'
    OBVIOUS
<1> USE DEF Raise, Quiet, ReadStatus, BSY, DRQ, AtRest, Awaited, Unraised, driver, device, call
<1>1. CASE disk_initialize
    BY <1>1 DEF disk_initialize, Types
<1>2. CASE disk_read
    <2>1. Blank \in Buffer
        BY AtaAssumption DEF Blank, Buffer
    <2>2. PICK pdrv \in {0, 1}, s \in Starts, n \in Counts : Call("read", pdrv, s, n, Blank)
        BY <1>2 DEF disk_read
    <2>3. 0 \in 0 .. MaxCount
        BY AtaAssumption
    <2> QED BY <2>1, <2>2, <2>3 DEF Call, Types
<1>3. CASE disk_write
    <2>1. PICK pdrv \in {0, 1}, s \in Starts, n \in Counts, p \in Payloads, q \in Payloads :
              Call("write", pdrv, s, n, [j \in 0 .. MaxCount - 1 |-> IF j = 0 THEN p ELSE q])
        BY <1>3 DEF disk_write
    <2>2. [j \in 0 .. MaxCount - 1 |-> IF j = 0 THEN p ELSE q] \in Buffer
        BY AtaAssumption DEF Buffer, Sector
    <2>3. 0 \in 0 .. MaxCount
        BY AtaAssumption
    <2> QED BY <2>1, <2>2, <2>3 DEF Call, Types
<1>4. CASE Select
    <2>1. sector + i \in Nat
        BY <1>4, InRange, AtaAssumption DEF Select
    <2>2. regs' \in [low : 0 .. Radix - 1, mid : 0 .. Radix - 1,
                     high : 0 .. Radix - 1, top : 0 .. NibRadix - 1]
        BY <1>4, <2>1, LbaRegsType DEF Select
    <2> QED BY <1>4, <2>2 DEF Select, Types
<1>5. CASE ReturnOk
    BY <1>5 DEF ReturnOk, Types
<1>6. CASE ClearFlag
    BY <1>6 DEF ClearFlag, Types
<1>7. CASE Command
    <2>1. RegsLba(regs) \in Lba
        BY <1>7, InRange, RoundTrip, AtaAssumption DEF Command, Transfer, Position
    <2>2. 0 \in 0 .. Words
        BY AtaAssumption
    <2> QED BY <1>7, <2>1, <2>2 DEF Command, Types
<1>8. CASE Delay
    BY <1>8 DEF Delay, Types
<1>9. CASE PollBusy
    BY <1>9 DEF PollBusy, Types
<1>10. CASE PollDrq
    BY <1>10 DEF PollDrq, Types
<1>11. CASE ata_wait_interrupt
    BY <1>11 DEF ata_wait_interrupt, Types
<1>12. CASE PumpIn
    <2>1. i \in 0 .. MaxCount - 1 /\ w \in Word
        BY <1>12, InRange, AtaAssumption DEF PumpIn, Transfer, Position, AtaTypeOK, Word
    <2>2. drive = "offering" => pos = w
        BY <1>12 DEF PumpIn, Handshake
    <2>3. drive = "offering" => pos + 1 \in 0 .. Words /\ sbuf[pos] \in Data
        BY <2>1, <2>2, AtaAssumption DEF AtaTypeOK, Word, Sector
    <2>4. w + 1 \in 0 .. Words
        BY <2>1, AtaAssumption DEF Word
    <2>5. buff' \in Buffer
        BY <1>12, <2>1, <2>3 DEF PumpIn, AtaTypeOK, Buffer
    <2> QED BY <1>12, <2>3, <2>4, <2>5 DEF PumpIn, Types
<1>13. CASE PumpOut
    <2>1. i \in 0 .. MaxCount - 1 /\ w \in Word /\ pos = w /\ op = "write"
        <3>1. ata_pc = "out" /\ w < Words
            BY <1>13 DEF PumpOut
        <3>2. i < count
            BY <3>1 DEF Transfer, Position
        <3>3. i \in 0 .. MaxCount - 1
            BY <3>1, <3>2, InRange
        <3>4. pos = w /\ op = "write"
            BY <3>1 DEF Handshake
        <3>5. w \in Word
            BY <3>1, Scalars DEF Word
        <3> QED BY <3>3, <3>4, <3>5
    <2>2. buff[i][w] \in Data
        BY <2>1 DEF Transfer, Moved, Given, Sector
    <2>3. sbuf' \in Sector
        BY <1>13, <2>1, <2>2 DEF PumpOut, AtaTypeOK, Sector
    <2>4. w + 1 \in 0 .. Words /\ pos + 1 \in 0 .. Words
        BY <2>1, AtaAssumption DEF Word
    <2> QED BY <1>13, <2>1, <2>3, <2>4 DEF PumpOut, Types
<1>14. CASE PumpOutDone
    BY <1>14 DEF PumpOutDone, Types
<1>15. CASE SectorDone
    <2>1. i \in 0 .. MaxCount - 1
        BY <1>15, InRange, AtaAssumption DEF SectorDone, Transfer, Position
    <2>2. i + 1 \in 0 .. MaxCount
        BY <2>1, AtaAssumption
    <2> QED BY <1>15, <2>2 DEF SectorDone, Types
<1>16. CASE Spin
    BY <1>16 DEF Spin, Types
<1>17. CASE DriveReadDone /\ UNCHANGED driver
    <2>1. 0 \in 0 .. Words /\ disk[lba] \in Sector
        BY AtaAssumption DEF Types
    <2> QED BY <1>17, <2>1 DEF DriveReadDone, Types
<1>18. CASE DriveReady /\ UNCHANGED driver
    <2>1. 0 \in 0 .. Words
        BY AtaAssumption
    <2> QED BY <1>18, <2>1 DEF DriveReady, Types
<1>19. CASE DriveWriteDone /\ UNCHANGED driver
    BY <1>19 DEF DriveWriteDone, Types
<1>20. CASE DriveFails /\ UNCHANGED driver
    BY <1>20 DEF DriveFails, Types
<1>21. CASE Irq14
    BY <1>21 DEF Irq14, Types
<1>30. CASE UNCHANGED ataVars
    BY <1>30 DEF ataVars, Types
<1> QED BY <1>1, <1>2, <1>3, <1>4, <1>5, <1>6, <1>7, <1>8, <1>9, <1>10, <1>11, <1>12, <1>13, <1>14, <1>15, <1>16, <1>17, <1>18, <1>19, <1>20, <1>21, <1>30 DEF AtaNext, Driver, Drive

\* Every step keeps the Booleans.
LEMMA LinesStep == Lines /\ [AtaNext]_ataVars => Lines'
<1> SUFFICES ASSUME Lines, [AtaNext]_ataVars PROVE Lines'
    OBVIOUS
<1> USE DEF Raise, Quiet, ReadStatus, BSY, DRQ, AtRest, Awaited, Unraised, driver, device, call
<1>1. CASE disk_initialize
    BY <1>1 DEF disk_initialize, Lines
<1>2. CASE disk_read
    BY <1>2 DEF Call, disk_read, Lines
<1>3. CASE disk_write
    BY <1>3 DEF Call, disk_write, Lines
<1>4. CASE Select
    BY <1>4 DEF Select, Lines
<1>5. CASE ReturnOk
    BY <1>5 DEF ReturnOk, Lines
<1>6. CASE ClearFlag
    BY <1>6 DEF ClearFlag, Lines
<1>7. CASE Command
    BY <1>7 DEF Command, Lines
<1>8. CASE Delay
    BY <1>8 DEF Delay, Lines
<1>9. CASE PollBusy
    BY <1>9 DEF PollBusy, Lines
<1>10. CASE PollDrq
    BY <1>10 DEF PollDrq, Lines
<1>11. CASE ata_wait_interrupt
    BY <1>11 DEF ata_wait_interrupt, Lines
<1>12. CASE PumpIn
    BY <1>12 DEF PumpIn, Lines
<1>13. CASE PumpOut
    BY <1>13 DEF PumpOut, Lines
<1>14. CASE PumpOutDone
    BY <1>14 DEF PumpOutDone, Lines
<1>15. CASE SectorDone
    BY <1>15 DEF SectorDone, Lines
<1>16. CASE Spin
    BY <1>16 DEF Spin, Lines
<1>17. CASE DriveReadDone /\ UNCHANGED driver
    BY <1>17 DEF DriveReadDone, Lines
<1>18. CASE DriveReady /\ UNCHANGED driver
    BY <1>18 DEF DriveReady, Lines
<1>19. CASE DriveWriteDone /\ UNCHANGED driver
    BY <1>19 DEF DriveWriteDone, Lines
<1>20. CASE DriveFails /\ UNCHANGED driver
    BY <1>20 DEF DriveFails, Lines
<1>21. CASE Irq14
    BY <1>21 DEF Irq14, Lines
<1>30. CASE UNCHANGED ataVars
    BY <1>30 DEF ataVars, Lines
<1> QED BY <1>1, <1>2, <1>3, <1>4, <1>5, <1>6, <1>7, <1>8, <1>9, <1>10, <1>11, <1>12, <1>13, <1>14, <1>15, <1>16, <1>17, <1>18, <1>19, <1>20, <1>21, <1>30 DEF AtaNext, Driver, Drive

\* Every step keeps AtaTypeOK.
LEMMA TypeStep == AtaTypeOK /\ Handshake /\ Transfer /\ [AtaNext]_ataVars => AtaTypeOK'
<1>1. AtaTypeOK <=> Types /\ Lines
    BY DEF AtaTypeOK, Types, Lines
<1>2. AtaTypeOK' <=> Types' /\ Lines'
    BY DEF AtaTypeOK, Types, Lines
<1> QED BY <1>1, <1>2, TypesStep, LinesStep

\* Every step keeps the driver and the drive at the same sector.
LEMMA PositionStep == AtaTypeOK /\ Handshake /\ Transfer /\ [AtaNext]_ataVars => Position'
<1> SUFFICES ASSUME AtaTypeOK, Handshake, Transfer, [AtaNext]_ataVars PROVE Position'
    OBVIOUS
<1>0. Position /\ i \in Nat /\ count \in Nat
    BY Scalars DEF Transfer
<1> USE <1>0 DEF AtRest, driver, device, call
<1>1. CASE disk_initialize
    BY <1>1 DEF disk_initialize, Position
<1>2. CASE disk_read \/ disk_write
    <2>1. PICK o, pdrv, s, n, b : s \in Starts /\ n \in Counts /\ Call(o, pdrv, s, n, b)
        <3>1. CASE disk_read
            BY <3>1 DEF disk_read
        <3>2. CASE disk_write
            BY <3>2 DEF disk_write
        <3> QED BY <1>2, <3>1, <3>2
    <2>2. n \in Nat /\ 0 < n
        BY <2>1, AtaAssumption DEF Counts
    <2> QED BY <2>1, <2>2 DEF Call, Position
<1>4. CASE Select
    BY <1>4 DEF Select, Position
<1>5. CASE ReturnOk
    BY <1>5 DEF ReturnOk, Position
<1>6. CASE ClearFlag
    BY <1>6 DEF ClearFlag, Position
<1>7. CASE Command
    <2>1. i < count /\ ata_pc # "boot" /\ regs = LbaRegs(sector + i)
        BY <1>7 DEF Command, Position
    <2>2. RegsLba(regs) = sector + i
        BY <2>1, InRange, RoundTrip
    <2>3. ~ BSY
        BY <1>7 DEF Command, Handshake, BSY
    <2> QED BY <1>7, <2>2, <2>3 DEF Command, Position
<1>8. CASE Delay
    BY <1>8 DEF Delay, Position
<1>9. CASE PollBusy
    BY <1>9 DEF PollBusy, Position
<1>10. CASE PollDrq
    BY <1>10 DEF PollDrq, Position
<1>11. CASE ata_wait_interrupt
    BY <1>11 DEF ata_wait_interrupt, Position
<1>12. CASE PumpIn
    BY <1>12 DEF PumpIn, Position
<1>13. CASE PumpOut
    BY <1>13 DEF PumpOut, Position
<1>14. CASE PumpOutDone
    BY <1>14 DEF PumpOutDone, Position
<1>15. CASE SectorDone
    BY <1>15 DEF SectorDone, Position
<1>16. CASE Spin
    BY <1>16 DEF Spin, Position
<1>17. CASE Drive
    BY <1>17 DEF Drive, DriveReadDone, DriveReady, DriveWriteDone, DriveFails, Position
<1>21. CASE Irq14
    BY <1>21 DEF Irq14, Position
<1>30. CASE UNCHANGED ataVars
    BY <1>30 DEF ataVars, Position
<1> QED BY <1>1, <1>2, <1>4, <1>5, <1>6, <1>7, <1>8, <1>9, <1>10, <1>11, <1>12, <1>13, <1>14, <1>15, <1>16, <1>17, <1>21, <1>30 DEF AtaNext, Driver

\* What Moved speaks of, but for the place of the driver and the word.
medium == <<op, sector, buff, i, drive, sbuf, lba, pos, failed, disk>>

\* A step that moves no data and starts no sector keeps it.
LEMMA NothingMoved ==
    ASSUME AtaTypeOK, Moved, UNCHANGED medium,
           ata_pc' = "in" => (ata_pc = "in" /\ w' = w) \/ w' = 0,
           drive = "idle" /\ AtRest => AtRest'
    PROVE  Moved'
<1> USE DEF medium
<1>1. Given' /\ InDrive'
    BY DEF Moved, Given, InDrive
<1>2. ReadSoFar'
    <2>1. CASE w' = 0
        BY <2>1 DEF Moved, ReadSoFar
    <2>2. CASE ata_pc = "in" /\ w' = w
        BY <2>2 DEF Moved, ReadSoFar
    <2>3. CASE ata_pc' # "in"
        BY <2>3 DEF Moved, ReadSoFar
    <2> QED BY <2>1, <2>2, <2>3
<1>3. WrittenSoFar'
    BY DEF Moved, WrittenSoFar
<1> QED BY <1>1, <1>2, <1>3 DEF Moved

\* The steps of the driver that move no data.
LEMMA QuietSteps ==
    ASSUME AtaTypeOK, Handshake, Moved,
           \/ disk_initialize \/ Select \/ ReturnOk \/ ClearFlag \/ Delay \/ PollBusy \/ PollDrq
           \/ ata_wait_interrupt \/ PumpOutDone \/ Spin \/ Irq14 \/ UNCHANGED ataVars
    PROVE  Moved'
<1>1. UNCHANGED medium
    BY DEF disk_initialize, Select, ReturnOk, ClearFlag, Delay, PollBusy, PollDrq,
           ata_wait_interrupt, PumpOutDone, Spin, Irq14, ataVars, medium, driver, device, call
<1>2. ata_pc' = "in" => (ata_pc = "in" /\ w' = w) \/ w' = 0
    BY DEF disk_initialize, Select, ReturnOk, ClearFlag, Delay, PollBusy, PollDrq,
           ata_wait_interrupt, PumpOutDone, Spin, Irq14, ataVars, driver, device, call, Handshake
<1>3. AtRest => AtRest'
    BY DEF disk_initialize, Select, ReturnOk, ClearFlag, Delay, PollBusy, PollDrq,
           ata_wait_interrupt, PumpOutDone, Spin, Irq14, ataVars, driver, device, call, AtRest
<1> QED BY <1>1, <1>2, <1>3, NothingMoved

\* A call starts with the caller's buffer and nothing transferred.
LEMMA CallMoves ==
    ASSUME AtaTypeOK, Handshake, Moved, disk_read \/ disk_write
    PROVE  Moved'
<1>1. PICK o, pdrv, s, n, b :
          /\ o \in {"read", "write"} /\ Call(o, pdrv, s, n, b)
          /\ o = "write" => \A j \in 0 .. MaxCount - 1 : b[j] \in Sector
    <2>1. CASE disk_read
        BY <2>1 DEF disk_read
    <2>2. CASE disk_write
        <3>1. PICK pdrv \in {0, 1}, s \in Starts, n \in Counts, p \in Payloads, q \in Payloads :
                  Call("write", pdrv, s, n, [j \in 0 .. MaxCount - 1 |-> IF j = 0 THEN p ELSE q])
            BY <2>2 DEF disk_write
        <3>2. p \in Sector /\ q \in Sector
            BY AtaAssumption
        <3> DEFINE b == [j \in 0 .. MaxCount - 1 |-> IF j = 0 THEN p ELSE q]
        <3>3. \A j \in 0 .. MaxCount - 1 : b[j] \in Sector
            BY <3>2
        <3> HIDE DEF b
        <3> QED BY <3>1, <3>3 DEF b
    <2> QED BY <2>1, <2>2
<1>2. CASE pdrv # 0
    <2>1. UNCHANGED medium /\ ata_pc' = "idle" /\ ata_pc = "idle"
        BY <1>1, <1>2 DEF Call, medium, call
    <2> QED BY <2>1, NothingMoved DEF AtRest
<1>3. CASE pdrv = 0
    <2>1. /\ op' = o /\ sector' = s /\ buff' = b /\ i' = 0 /\ ata_pc' = "loop"
          /\ drive' = drive /\ drive \in {"idle", "error"}
        BY <1>1, <1>3 DEF Call, Handshake, AtRest
    <2>2. Given'
        BY <1>1, <2>1 DEF Given
    <2>3. InDrive'
        BY <2>1 DEF InDrive
    <2>4. ReadSoFar' /\ WrittenSoFar'
        BY <2>1 DEF ReadSoFar, WrittenSoFar, AtRest
    <2> QED BY <2>2, <2>3, <2>4 DEF Moved
<1> QED BY <1>2, <1>3

\* The drive takes a command at rest.
LEMMA CommandMoves ==
    ASSUME AtaTypeOK, Handshake, Moved, Command
    PROVE  Moved'
<1>1. /\ drive' \in {"reading", "preparing"} /\ ata_pc' = "delay"
      /\ UNCHANGED <<op, sector, buff, i, failed, disk>>
    BY DEF Command, Handshake, AtRest, BSY, call
<1> QED BY <1>1 DEF Moved, Given, InDrive, ReadSoFar, WrittenSoFar, AtRest

\* A word comes in: what the drive offers, at its place in the buffer.
LEMMA PumpInMoves ==
    ASSUME AtaTypeOK, Handshake, Transfer, PumpIn
    PROVE  Moved'
<1>0. /\ ata_pc = "in" /\ ata_pc' = "in" /\ op = "read" /\ w < Words /\ w' = w + 1
      /\ UNCHANGED <<op, sector, i, lba, sbuf, failed, disk>>
      /\ buff' = [buff EXCEPT ![i][w] = IF drive = "offering" THEN sbuf[pos] ELSE Undef]
    BY DEF PumpIn, Handshake, call
<1>1. /\ i \in 0 .. MaxCount - 1 /\ i < count
    BY <1>0, InRange DEF Transfer, Position
<1>2. w \in Nat /\ w \in Word /\ i \in Nat
    BY <1>0, Scalars DEF Word
<1>3. buff \in [0 .. MaxCount - 1 -> [Word -> Data \cup {Undef}]]
    BY DEF AtaTypeOK, Buffer
<1>4. Given' /\ WrittenSoFar'
    BY <1>0 DEF Given, WrittenSoFar
<1>5. CASE drive = "offering"
    <2>1. pos = w /\ sbuf = disk[lba]
        BY <1>0, <1>5 DEF Handshake, Transfer, Moved, InDrive
    <2>2. drive' \in {"idle", "offering"}
        BY <1>5 DEF PumpIn
    <2>3. InDrive'
        BY <1>0, <2>1, <2>2 DEF InDrive
    <2> DEFINE v == disk[lba][w]
    <2>4. buff' = [buff EXCEPT ![i][w] = v]
        BY <1>0, <1>5, <2>1
    <2> HIDE DEF v
    <2>5. \A j \in 0 .. i - 1 : buff'[j] = buff[j]
        <3> TAKE j \in 0 .. i - 1
        <3>1. j \in 0 .. MaxCount - 1 /\ j # i
            BY <1>1, <1>2, Scalars
        <3> QED BY <1>3, <2>4, <3>1
    <2>6. buff'[i] = [buff[i] EXCEPT ![w] = v]
        BY <1>1, <1>3, <2>4
    <2>7. \A k \in 0 .. (w + 1) - 1 : buff'[i][k] = IF k = w THEN v ELSE buff[i][k]
        <3> TAKE k \in 0 .. (w + 1) - 1
        <3>1. k \in Word
            BY <1>0, <1>2, Scalars DEF Word
        <3>2. buff[i] \in [Word -> Data \cup {Undef}]
            BY <1>1, <1>3
        <3> QED BY <2>6, <3>1, <3>2
    <2>8. ~ failed => /\ \A j \in 0 .. i - 1 : buff[j] = disk[sector + j]
                      /\ \A k \in 0 .. w - 1 : buff[i][k] = disk[lba][k]
        BY <1>0 DEF Transfer, Moved, ReadSoFar
    <2>9. ~ failed => \A k \in 0 .. (w + 1) - 1 : buff'[i][k] = disk[lba][k]
        <3>1. \A k \in 0 .. (w + 1) - 1 : k = w \/ k \in 0 .. w - 1
            BY <1>2
        <3> QED BY <2>7, <2>8, <3>1 DEF v
    <2>10. ReadSoFar'
        BY <1>0, <2>5, <2>8, <2>9 DEF ReadSoFar
    <2> QED BY <1>4, <2>3, <2>10 DEF Moved
<1>6. CASE drive # "offering"
    <2>0. drive' = drive /\ w # Words
        BY <1>0, <1>2, <1>6, Scalars DEF PumpIn
    <2>1. failed /\ drive = "error" /\ drive' = drive
        BY <1>0, <1>6, <2>0 DEF Handshake, AtRest
    <2> QED BY <1>0, <1>4, <2>1 DEF Moved, InDrive, ReadSoFar
<1> QED BY <1>5, <1>6

\* A word goes out, to its place in the drive's buffer.
LEMMA PumpOutMoves ==
    ASSUME AtaTypeOK, Handshake, Transfer, PumpOut
    PROVE  Moved'
<1>0. /\ ata_pc = "out" /\ ata_pc' = "out" /\ op = "write" /\ w < Words /\ pos = w
      /\ drive = "accepting" /\ drive' = IF w + 1 = Words THEN "writing" ELSE "accepting"
      /\ pos' = w + 1 /\ sbuf' = [sbuf EXCEPT ![w] = buff[i][w]]
      /\ UNCHANGED <<op, sector, buff, i, lba, failed, disk>>
    BY DEF PumpOut, Handshake, call
<1>1. i \in 0 .. MaxCount - 1
    BY <1>0, InRange DEF Transfer, Position
<1>2. w \in Nat /\ Words \in Nat /\ w \in Word
    BY <1>0, Scalars DEF Word
<1>3. buff[i] \in [Word -> Data] /\ sbuf \in [Word -> Data]
    BY <1>0, <1>1 DEF AtaTypeOK, Transfer, Moved, Given, Sector
<1>4. \A k \in 0 .. (w + 1) - 1 : sbuf'[k] = buff[i][k]
    <2> TAKE k \in 0 .. (w + 1) - 1
    <2>1. k \in Word /\ (k = w \/ k \in 0 .. pos - 1)
        BY <1>0, <1>2 DEF Word
    <2>2. \A m \in 0 .. pos - 1 : sbuf[m] = buff[i][m]
        BY <1>0 DEF Transfer, Moved, InDrive
    <2>3. sbuf'[k] = IF k = w THEN buff[i][w] ELSE sbuf[k]
        BY <1>0, <1>3, <2>1
    <2> QED BY <2>1, <2>2, <2>3
<1>5. w + 1 = Words => sbuf' = buff[i]
    <2> SUFFICES ASSUME w + 1 = Words PROVE sbuf' = buff[i]
        OBVIOUS
    <2>1. Word = 0 .. (w + 1) - 1
        BY <1>2 DEF Word
    <2>2. sbuf' \in [Word -> Data]
        BY <1>0, <1>2, <1>3
    <2>3. \A k \in Word : sbuf'[k] = buff[i][k]
        BY <1>4, <2>1
    <2> QED BY <1>3, <2>2, <2>3
<1>6. w + 1 # Words => w + 1 < Words
    BY <1>0, <1>2
<1>7. InDrive'
    BY <1>0, <1>4, <1>5, <1>6 DEF InDrive
<1>8. Given' /\ ReadSoFar' /\ WrittenSoFar'
    BY <1>0 DEF Transfer, Moved, Given, ReadSoFar, WrittenSoFar
<1> QED BY <1>7, <1>8 DEF Moved

\* The sector in progress is one more that is done.
LEMMA SectorDoneMoves ==
    ASSUME AtaTypeOK, Handshake, Transfer, SectorDone
    PROVE  Moved'
<1>0. /\ ata_pc \in {"in", "ack"} /\ ata_pc' = "loop" /\ i' = i + 1
      /\ UNCHANGED <<op, sector, buff, drive, sbuf, lba, pos, failed, disk>>
      /\ ata_pc = "in" => w = Words
    BY DEF SectorDone, call, device
<1>1. i \in 0 .. MaxCount - 1 /\ i \in Nat /\ lba = sector + i /\ lba \in Lba
    BY <1>0, InRange, Scalars DEF Transfer, Position, AtRest
<1>2. /\ drive \in {"idle", "error"}
      /\ ata_pc = "ack" => op = "write"
      /\ ata_pc = "in" => op = "read"
      /\ drive = "error" => failed
    BY <1>0, Scalars DEF Handshake, AtRest
<1>3. \A j \in 0 .. (i + 1) - 1 : j = i \/ j \in 0 .. i - 1
    BY <1>1
<1>4. Given' /\ InDrive'
    BY <1>0, <1>2 DEF Transfer, Moved, Given, InDrive
<1>5. ReadSoFar'
    <2> SUFFICES ASSUME ~ failed, op = "read"
                 PROVE  \A j \in 0 .. (i + 1) - 1 : buff[j] = disk[sector + j]
        BY <1>0 DEF ReadSoFar
    <2>1. /\ \A j \in 0 .. i - 1 : buff[j] = disk[sector + j]
          /\ \A k \in 0 .. Words - 1 : buff[i][k] = disk[lba][k]
        BY <1>0, <1>2 DEF Transfer, Moved, ReadSoFar
    <2>2. buff[i] \in [Word -> Data \cup {Undef}] /\ disk[lba] \in [Word -> Data]
        BY <1>1 DEF AtaTypeOK, Buffer, Sector
    <2>3. buff[i] = disk[lba]
        <3>1. \A k \in Word : buff[i][k] = disk[lba][k]
            BY <2>1 DEF Word
        <3> QED BY <2>2, <3>1
    <2> QED BY <1>1, <1>3, <2>1, <2>3
<1>6. WrittenSoFar'
    <2> SUFFICES ASSUME ~ failed, op = "write"
                 PROVE  \A j \in 0 .. (i + 1) - 1 : disk[sector + j] = buff[j]
        BY <1>0 DEF WrittenSoFar, AtRest
    <2>1. /\ \A j \in 0 .. i - 1 : disk[sector + j] = buff[j]
          /\ disk[lba] = buff[i]
        BY <1>0, <1>2 DEF Transfer, Moved, WrittenSoFar, AtRest
    <2> QED BY <1>1, <1>3, <2>1
<1> QED BY <1>4, <1>5, <1>6 DEF Moved

\* The drive reads, makes ready, writes or fails.
LEMMA DriveMoves ==
    ASSUME AtaTypeOK, Handshake, Transfer, Drive
    PROVE  Moved'
<1>0. UNCHANGED <<ata_pc, op, sector, buff, i, w>>
    BY DEF Drive, driver, call
<1>1. CASE DriveReadDone
    <2>1. drive' = "offering" /\ sbuf' = disk[lba] /\ UNCHANGED <<lba, failed, disk>>
        BY <1>1 DEF DriveReadDone
    <2> QED BY <1>0, <2>1 DEF Transfer, Moved, Given, InDrive, ReadSoFar, WrittenSoFar, AtRest
<1>2. CASE DriveReady
    <2>1. drive' = "accepting" /\ pos' = 0 /\ UNCHANGED <<lba, sbuf, failed, disk>>
        BY <1>2 DEF DriveReady
    <2>2. InDrive'
        BY <2>1, Scalars DEF InDrive
    <2> QED BY <1>0, <2>1, <2>2 DEF Transfer, Moved, Given, ReadSoFar, WrittenSoFar, AtRest
<1>3. CASE DriveWriteDone
    <2>1. /\ drive' = "idle" /\ disk' = [disk EXCEPT ![lba] = sbuf] /\ UNCHANGED <<lba, sbuf, pos, failed>>
          /\ drive = "writing"
        BY <1>3 DEF DriveWriteDone
    <2>2. op = "write" /\ ~ AtRest /\ ata_pc # "boot" /\ ata_pc \notin {"idle", "loop"}
        BY <2>1 DEF AtaTypeOK, Handshake, AtRest
    <2>3. sbuf = buff[i] /\ lba = sector + i /\ i < count
        BY <2>1, <2>2 DEF Transfer, Moved, InDrive, Position
    <2>4. i \in Nat /\ sector + i \in Lba /\ sector + i \in Nat
        BY <2>2, <2>3, InRange, Scalars
    <2>5. sector \in Int
        <3>1. sector \in Lba \cup {0}
            BY AtaAssumption DEF AtaTypeOK
        <3> QED BY <3>1 DEF Lba
    <2>6. disk \in [Lba -> Sector]
        BY DEF AtaTypeOK
    <2>7. disk'[lba] = buff[i]
        BY <2>1, <2>3, <2>4, <2>6
    <2>8. \A j \in 0 .. i - 1 : disk'[sector + j] = disk[sector + j]
        <3> TAKE j \in 0 .. i - 1
        <3>1. sector + j # lba
            BY <2>3, <2>4, <2>5
        <3> QED BY <2>1, <2>6, <3>1
    <2>9. ~ failed => \A j \in 0 .. i - 1 : disk[sector + j] = buff[j]
        BY <2>2 DEF Transfer, Moved, WrittenSoFar
    <2>10. WrittenSoFar'
        BY <1>0, <2>1, <2>7, <2>8, <2>9 DEF WrittenSoFar
    <2> QED BY <1>0, <2>1, <2>2, <2>10 DEF Transfer, Moved, Given, InDrive, ReadSoFar
<1>4. CASE DriveFails
    <2>1. drive' = "error" /\ failed'
        BY <1>4 DEF DriveFails
    <2> QED BY <1>0, <2>1 DEF Transfer, Moved, Given, InDrive, ReadSoFar, WrittenSoFar
<1> QED BY <1>1, <1>2, <1>3, <1>4 DEF Drive

\* Every step keeps the transfer's bookkeeping.
LEMMA TransferStep == AtaTypeOK /\ Handshake /\ Transfer /\ [AtaNext]_ataVars => Transfer'
<1> SUFFICES ASSUME AtaTypeOK, Handshake, Transfer, [AtaNext]_ataVars PROVE Moved'
    BY PositionStep DEF Transfer
<1>1. Moved
    BY DEF Transfer
<1> QED BY <1>1, QuietSteps, CallMoves, CommandMoves, PumpInMoves, PumpOutMoves, SectorDoneMoves, DriveMoves DEF AtaNext, Driver

\* The power-on state satisfies the invariant.
LEMMA InitInv == AtaInit => AtaInv
<1> SUFFICES ASSUME AtaInit PROVE AtaInv
    OBVIOUS
<1> USE AtaAssumption
<1>1. 0 \in Lba /\ Blank \in Buffer
    <2>1. Radix * Radix * Radix * NibRadix \in Nat \ {0}
        <3>1. PICK r2 \in Nat \ {0} : r2 = Radix * Radix
            OBVIOUS
        <3>2. PICK r3 \in Nat \ {0} : r3 = r2 * Radix
            BY <3>1
        <3>3. r3 * NibRadix \in Nat \ {0}
            BY <3>2
        <3> QED BY <3>1, <3>2, <3>3
    <2> QED BY <2>1 DEF Lba, Blank, Buffer
<1>2. AtaTypeOK
    <2>1. Contents[0] \in Sector /\ 0 \in 0 .. MaxCount /\ 0 \in 0 .. Words
          /\ 0 \in 0 .. Radix - 1 /\ 0 \in 0 .. NibRadix - 1
        BY <1>1
    <2> QED BY <1>1, <2>1 DEF AtaInit, AtaTypeOK
<1>3. Handshake /\ Transfer
    <2>1. Handshake /\ Position
        BY DEF AtaInit, Handshake, Position, AtRest
    <2>2. Moved
        <3>1. op = "read" /\ drive = "idle" /\ ata_pc = "boot" /\ i = 0
            BY DEF AtaInit
        <3>2. Given /\ InDrive /\ WrittenSoFar
            BY <3>1 DEF Given, InDrive, WrittenSoFar
        <3>3. ReadSoFar
            BY <3>1 DEF ReadSoFar
        <3> QED BY <3>2, <3>3 DEF Moved
    <2> QED BY <2>1, <2>2 DEF Transfer
<1> QED BY <1>2, <1>3 DEF AtaInv

\* The invariant holds in every reachable state.
THEOREM Invariance == AtaSpec => []AtaInv
<1>1. AtaInit => AtaInv
    BY InitInv
<1>2. AtaInv /\ [AtaNext]_ataVars => AtaInv'
    BY HandshakeStep, TypeStep, TransferStep DEF AtaInv
<1> QED BY <1>1, <1>2, PTL DEF AtaSpec

\* A command is issued only when the drive is at rest and no interrupt of an
\* earlier command is on its way, even when the drive fails commands.
THEOREM CommandWhenQuietAlways == AtaSpec => []CommandWhenQuiet
<1>1. AtaInv => CommandWhenQuiet
    BY DEF AtaInv, Handshake, AtRest, CommandWhenQuiet, BSY, DRQ
<1> QED BY <1>1, Invariance, PTL

\* The data port is used only while the drive offers or accepts words.
THEOREM PumpWhenReadyAlways == AtaSpec => []PumpWhenReady
<1>1. AtaInv => PumpWhenReady
    BY Scalars DEF AtaInv, Handshake, AtRest, PumpWhenReady
<1> QED BY <1>1, Invariance, PTL

\* What disk_read returns is what is on the disk, for any sector range.
THEOREM ReadIsDiskAlways == AtaSpec => []ReadIsDisk
<1>1. AtaInv => ReadIsDisk
    BY DEF AtaInv, Transfer, Position, Moved, ReadSoFar, ReadIsDisk
<1> QED BY <1>1, Invariance, PTL

\* What disk_write was given is on the disk when it returns.
THEOREM WriteIsOnDiskAlways == AtaSpec => []WriteIsOnDisk
<1>1. AtaInv => WriteIsOnDisk
    BY DEF AtaInv, Transfer, Position, Moved, WrittenSoFar, WriteIsOnDisk
<1> QED BY <1>1, Invariance, PTL

\* No sector changes but the one being written, and only to what was passed.
THEOREM OnlyTargetChangesAlways == AtaSpec => OnlyTargetChanges
<1>1. AtaInv /\ [AtaNext]_ataVars
        => [\A l \in Lba : disk'[l] # disk[l] =>
                op = "write" /\ l = sector + i /\ disk'[l] = buff[i]]_ataVars
    <2> SUFFICES ASSUME AtaInv, AtaNext, NEW l \in Lba, disk'[l] # disk[l]
                 PROVE  op = "write" /\ l = sector + i /\ disk'[l] = buff[i]
        BY DEF ataVars, device
    <2>1. DriveWriteDone
        BY DEF AtaNext, Driver, Drive, disk_initialize, disk_read, disk_write, Call, Select,
               ReturnOk, ClearFlag, Command, Delay, PollBusy, PollDrq, ata_wait_interrupt,
               PumpIn, PumpOut, PumpOutDone, SectorDone, Spin, DriveReadDone, DriveReady,
               DriveFails, Irq14, device
    <2>2. op = "write" /\ ~AtRest
        BY <2>1 DEF DriveWriteDone, AtaInv, AtaTypeOK, Handshake, AtRest
    <2> QED BY <2>1, <2>2 DEF DriveWriteDone, AtaInv, AtaTypeOK, Transfer, Position, Moved, InDrive
<1> QED BY <1>1, Invariance, PTL DEF AtaSpec, OnlyTargetChanges

=============================================================================
