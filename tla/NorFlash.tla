------------------------------ MODULE NorFlash ------------------------------
(***************************************************************************)
(* The W25Q256 driver (stm32_w25q256.c) and the boot of /mnt/flash: probe, *)
(* mount, the scan for a wholly erased partition, the format.              *)
(*                                                                         *)
(* External: the chip, which ignores every command but the status read     *)
(* while it is busy and leaves torn pages when it loses its supply; the    *)
(* partition layer, which adds the offset it was given; LittleFS, which    *)
(* mounts when page 0 of the partition is a superblock, formats by erasing *)
(* sector 0 and writing it, and programs erased pages only, away from a    *)
(* sector whose last operation failed, one operation at a time; a program  *)
(* that reads the raw partition.                                           *)
(***************************************************************************)
EXTENDS Integers, FiniteSets

CONSTANTS PagesPerSector,
          ReservedSectors,  \* W25Q256_FS_START_SECTOR
          FsSectors,        \* W25Q256_FS_NSECTORS
          Slow,             \* the chip may take longer than the driver waits
          MaxResets,        \* bound on power losses and warm resets
          MaxOps            \* bound on the operations of the file system

NorFlashAssumption ==
    /\ {PagesPerSector, ReservedSectors, FsSectors} \subseteq Nat \ {0}
    /\ {MaxResets, MaxOps} \subseteq Nat /\ Slow \in BOOLEAN

NPages == (ReservedSectors + FsSectors) * PagesPerSector
FsPages == FsSectors * PagesPerSector
Sector(p) == {q \in 0..(NPages - 1) : q \div PagesPerSector = p \div PagesPerSector}

\* The first page of the partition, in blocks of the parent device.
First == ReservedSectors * PagesPerSector

VARIABLES
    flash,  \* what each page of the chip holds
    busy,   \* what the chip is doing: operation, page, value, whose
    lock,   \* who holds the SPI bus
    tk,     \* the operation of each task: step, kind, next page, pages left, value, result
    boot,   \* where the boot is
    at,     \* the sector the scan is at
    resets, ops

vars == <<flash, busy, lock, tk, boot, at, resets, ops>>

Tasks == {"boot", "fs", "raw"}
NoBusy == [op |-> "none", page |-> 0, val |-> "none", by |-> "none"]
Idle == [pc |-> "idle", op |-> "none", page |-> 0, left |-> 0, val |-> "none", res |-> "none"]
PageValues == {"erased", "super", "data", "torn", "lego"}
Up == {"up", "absent", "failed"}

TypeOK ==
    /\ flash \in [0..(NPages - 1) -> PageValues]
    /\ busy.op \in {"none", "erase", "program"} /\ lock \in Tasks \cup {"none"}
    /\ boot \in {"probe", "mount", "scan", "erase", "write", "remount"} \cup Up /\ at \in 0..FsSectors
    /\ \A t \in Tasks : tk[t].pc \in {"idle", "lock", "wait", "cmd", "wait2", "read"}
    /\ \A t \in Tasks : lock = t <=> tk[t].pc \in {"wait", "cmd", "wait2", "read"}

\* A chip that was never used, one with a file system, one with other data.
Init ==
    /\ flash \in {[p \in 0..(NPages - 1) |-> IF p < ReservedSectors * PagesPerSector THEN "lego"
                     ELSE IF p = ReservedSectors * PagesPerSector /\ s = "fs" THEN "super"
                     ELSE IF p = NPages - 1 /\ s = "other" THEN "data" ELSE "erased"]
                    : s \in {"new", "fs", "other"}}
    /\ busy = NoBusy /\ lock = "none" /\ tk = [t \in Tasks |-> Idle]
    /\ boot = "probe" /\ at = 0 /\ resets = 0 /\ ops = 0

-----------------------------------------------------------------------------
(* The chip.                                                               *)

Effect == IF busy.op = "erase" THEN [p \in 0..(NPages - 1) |->
                    IF p \in Sector(busy.page) THEN "erased" ELSE flash[p]]
          ELSE [flash EXCEPT ![busy.page] = IF @ = "erased" THEN busy.val ELSE "torn"]
Torn == IF busy.op = "erase" THEN [p \in 0..(NPages - 1) |->
                    IF p \in Sector(busy.page) THEN "torn" ELSE flash[p]]
        ELSE [flash EXCEPT ![busy.page] = "torn"]

ChipDone ==
    /\ busy # NoBusy /\ flash' = Effect /\ busy' = NoBusy
    /\ UNCHANGED <<lock, tk, boot, at, resets, ops>>

Restart == lock' = "none" /\ tk' = [t \in Tasks |-> Idle] /\ boot' = "probe" /\ at' = 0
           /\ resets < MaxResets /\ resets' = resets + 1 /\ UNCHANGED ops

PowerLoss == Restart /\ flash' = (IF busy = NoBusy THEN flash ELSE Torn) /\ busy' = NoBusy
WarmReset == Restart /\ UNCHANGED <<flash, busy>>

-----------------------------------------------------------------------------
(* MTD operations.  A request is refused when it leaves the device.        *)

Request(t, op, page, n, val) ==
    /\ tk[t].pc = "idle" /\ page + n <= FsPages /\ First + page + n <= NPages
    /\ tk' = [tk EXCEPT ![t] = [pc |-> "lock", op |-> op, page |-> First + page,
                                left |-> n, val |-> val, res |-> "none"]]

\* w25q256_lock
Lock(t) ==
    /\ tk[t].pc = "lock" /\ lock = "none" /\ lock' = t
    /\ tk' = [tk EXCEPT ![t].pc = IF tk[t].op = "read" THEN "read" ELSE "wait"]
    /\ UNCHANGED <<flash, busy, boot, at, resets, ops>>

Finish(t, res) ==
    /\ lock' = "none" /\ tk' = [tk EXCEPT ![t].pc = "idle", ![t].res = res]

\* w25q256_wait_busy before a command, and its timeout
WaitReadyNever(t) ==             \* mutant: the command is sent at once
    /\ tk[t].pc = "wait" /\ tk' = [tk EXCEPT ![t].pc = "cmd"]
    /\ UNCHANGED <<flash, busy, lock, boot, at, resets, ops>>

WaitReady(t) ==
    /\ tk[t].pc = "wait" /\ busy = NoBusy /\ tk' = [tk EXCEPT ![t].pc = "cmd"]
    /\ UNCHANGED <<flash, busy, lock, boot, at, resets, ops>>

Timeout(t) ==
    /\ tk[t].pc \in {"wait", "wait2"} /\ busy # NoBusy /\ Slow /\ Finish(t, "err")
    /\ UNCHANGED <<flash, busy, boot, at, resets, ops>>

\* w25q256_erase_sector, w25q256_program_page: write enable and the command
Command(t) ==
    /\ tk[t].pc = "cmd" /\ tk' = [tk EXCEPT ![t].pc = "wait2"]
    /\ busy' = IF busy # NoBusy THEN busy
               ELSE [op |-> tk[t].op, page |-> tk[t].page, val |-> tk[t].val, by |-> t]
    /\ UNCHANGED <<flash, lock, boot, at, resets, ops>>

\* The wait after it, and the next block of w25q256_mtd_erase or _bwrite.
Step(t) == IF tk[t].op = "erase" THEN PagesPerSector ELSE 1

WaitDone(t) ==
    /\ tk[t].pc = "wait2" /\ busy = NoBusy
    /\ IF tk[t].left > Step(t)
       THEN /\ tk' = [tk EXCEPT ![t].pc = "wait", ![t].page = @ + Step(t), ![t].left = @ - Step(t)]
            /\ UNCHANGED lock
       ELSE Finish(t, "ok")
    /\ UNCHANGED <<flash, busy, boot, at, resets, ops>>

\* w25q256_mtd_bread, w25q256_mtd_read: a busy chip does not answer
ReadData(t) ==
    /\ tk[t].pc = "read" /\ Finish(t, IF busy = NoBusy THEN "ok" ELSE "junk")
    /\ UNCHANGED <<flash, busy, boot, at, resets, ops>>

-----------------------------------------------------------------------------
(* The boot.                                                               *)

\* w25q256_initialize: a busy chip does not give its JEDEC ID.
Probe ==
    /\ boot = "probe" /\ boot' = IF busy = NoBusy THEN "mount" ELSE "absent"
    /\ UNCHANGED <<flash, busy, lock, tk, at, resets, ops>>

HasFs == flash[First] = "super"

\* w25q256_mount: nx_mount, and whether its error asks for the scan
Mount ==
    /\ boot \in {"mount", "remount"} /\ at' = 0
    /\ boot' = IF HasFs THEN "up" ELSE IF boot = "mount" THEN "scan" ELSE "failed"
    /\ UNCHANGED <<flash, busy, lock, tk, resets, ops>>

ScanSector ==
    /\ boot = "scan"
    /\ IF at = FsSectors THEN boot' = "erase" /\ UNCHANGED at
       ELSE IF \E i \in 0..(PagesPerSector - 1) : flash[First + at * PagesPerSector + i] # "erased"
       THEN boot' = "failed" /\ UNCHANGED at
       ELSE at' = at + 1 /\ UNCHANGED boot
    /\ UNCHANGED <<flash, busy, lock, tk, resets, ops>>

\* nx_mount with "forceformat"
Format ==
    /\ boot \in {"erase", "write"} /\ tk["boot"].res = "none"
    /\ IF boot = "erase" THEN Request("boot", "erase", 0, PagesPerSector, "none")
       ELSE Request("boot", "program", 0, 1, "super")
    /\ UNCHANGED <<flash, busy, lock, boot, at, resets, ops>>

Formatted ==
    /\ boot \in {"erase", "write"} /\ tk["boot"].pc = "idle" /\ tk["boot"].res # "none"
    /\ boot' = (IF tk["boot"].res # "ok" THEN "failed" ELSE IF boot = "erase" THEN "write" ELSE "remount")
    /\ tk' = [tk EXCEPT !["boot"] = Idle]
    /\ UNCHANGED <<flash, busy, lock, at, resets, ops>>

-----------------------------------------------------------------------------
(* The file system, and a raw reader.                                      *)

FsErase ==
    /\ boot = "up" /\ ops < MaxOps /\ ops' = ops + 1
    /\ \E s \in 1..(FsSectors - 1), n \in 1..2 :
          Request("fs", "erase", s * PagesPerSector, n * PagesPerSector, "none")
    /\ UNCHANGED <<flash, busy, lock, boot, at, resets>>

FsWrite ==
    /\ boot = "up" /\ ops < MaxOps /\ ops' = ops + 1
    /\ \E p \in 1..(FsPages - 1), n \in 1..2 :
          /\ p + n <= FsPages
          /\ \A q \in (First + p)..(First + p + n - 1) :
                flash[q] = "erased" /\ (busy = NoBusy \/ q \notin Sector(busy.page))
          /\ Request("fs", "program", p, n, "data")
    /\ UNCHANGED <<flash, busy, lock, boot, at, resets>>

RawRead ==
    /\ boot \in {"up", "failed"} /\ Request("raw", "read", 0, 1, "none")
    /\ UNCHANGED <<flash, busy, lock, boot, at, resets, ops>>

Task(t) == Lock(t) \/ WaitReady(t) \/ Timeout(t) \/ Command(t) \/ WaitDone(t) \/ ReadData(t)
Boot == Probe \/ Mount \/ ScanSector \/ Format \/ Formatted
Next == ChipDone \/ PowerLoss \/ WarmReset \/ Boot \/ FsErase \/ FsWrite \/ RawRead
        \/ \E t \in Tasks : Task(t)

Spec == Init /\ [][Next]_vars

\* The boot and every task run, and get the bus in turn; the chip may hang.
FairSpec == Spec /\ WF_vars(Boot) /\ \A t \in Tasks : SF_vars(Lock(t)) /\ WF_vars(Task(t))

-----------------------------------------------------------------------------
(* Nothing the file system or the boot does reaches the first megabyte,    *)
(* where the LEGO bootloader's data is, and a power loss does not either.  *)
ReservedUntouched == \A p \in 0..(ReservedSectors * PagesPerSector - 1) : flash[p] = "lego"

(* A write that reports success has written its last page, and an erase    *)
(* its last sector, even after operations that timed out: no command is    *)
(* sent to a chip that would ignore it.                                    *)
DoneIsDone ==
    \A t \in Tasks : tk[t].pc = "wait2" /\ tk'[t].pc = "idle" /\ tk'[t].res = "ok"
       => IF tk[t].op = "erase" THEN \A p \in Sector(tk[t].page) : flash[p] = "erased"
          ELSE flash[tk[t].page] = tk[t].val

(* The boot formats only a partition that is erased as a whole: files, the *)
(* data of another system and what a power loss left are kept, wherever in *)
(* the partition they are.                                                 *)
NeverWipes ==
    busy.by # "boot" /\ busy'.by = "boot" /\ busy'.op = "erase"
       => \A p \in First..(NPages - 1) : flash[p] = "erased"

(* A read that is let through returns what the flash holds: whoever used   *)
(* the chip before released the bus only when it was ready again.          *)
ReadTrue == tk["raw"].res # "junk"

Waits(t) == tk[t].pc # "idle"
Booted == boot \in Up

(* Every operation and the boot come to an end, even on a chip that stays  *)
(* busy for ever.                                                          *)
Returns == (\A t \in Tasks : Waits(t) ~> ~Waits(t)) /\ []<>Booted

(* docs/en/drivers/w25q256.md:86: "If it returns -EFAULT (corrupt) or      *)
(* -EINVAL (fresh, unformatted chip), retry with "forceformat" to          *)
(* format-and-mount": a boot that found the chip mounts the partition.     *)
Mounts == boot # "failed"
=============================================================================
