-------------------------------- MODULE Ide --------------------------------
(***************************************************************************)
(* The IDE driver (drivers/disk/ide.c) on one drive: PIO, one command per  *)
(* sector, and a drive with a write cache that loses power.                *)
(*                                                                         *)
(*   drive   what IDENTIFY found: type, total_sectors, supports_lba48      *)
(*   xfer    the transfer being made and its loop variables; moved is the  *)
(*           set of pairs <<sector of the buffer, sector of the disk>>     *)
(*   cached  the sectors written that are still in the drive's cache       *)
(*   lost    the sectors lost with a power failure                         *)
(*                                                                         *)
(* Every wait is a loop of IDE_TIMEOUT_LOOPS polls, so a dead drive makes  *)
(* the sector's step end in an error.                                      *)
(***************************************************************************)
EXTENDS Integers, FiniteSets

CONSTANTS
    MAX_PER_OP,   \* 256, the sectors of a chunk
    LBA28,        \* 2^28, the sectors 28 bits can name
    IdeTotal,     \* the sectors of a drive
    IdeCounts,    \* the sector counts callers ask for
    MaxIdeReqs    \* bound on the number of transfers

ASSUME IdeAssumption ==
    /\ MAX_PER_OP \in Nat \ {0} /\ LBA28 \in Nat \ {0} /\ IdeTotal \in Nat
    /\ IdeCounts \subseteq Nat \ {0}

VARIABLES drive, xfer, cached, lost, ideReqs

ideVars == <<drive, xfer, cached, lost, ideReqs>>

NoXfer == [op |-> "none", arg |-> 0, lba |-> 0, user |-> 0, count |-> 0, rem |-> 0, s |-> 0,
           moved |-> {}, ret |-> "ok"]

IdeInit ==
    /\ drive = [type |-> "none", total |-> 0, lba48 |-> FALSE]
    /\ xfer = NoXfer /\ cached = {} /\ lost = {} /\ ideReqs = 0

\* ide_init with ide_identify: no drive, an ATAPI drive whose size is unknown,
\* or a disk with 28 or 48 bit addresses.  A disk of 28 bits cannot report more.
ide_init(type, lba48) ==
    /\ drive.type = "none" /\ ideReqs = 0
    /\ drive' = [type |-> type, lba48 |-> lba48 /\ type = "ata",
                 total |-> IF type # "ata" THEN 0
                           ELSE IF lba48 \/ IdeTotal <= LBA28 THEN IdeTotal ELSE LBA28]
    /\ UNCHANGED <<xfer, cached, lost, ideReqs>>

\* blockdev_read or blockdev_write with its check of the range, then the checks
\* of ide_read_sectors and ide_write_sectors.
ide_transfer(op, lba, count) ==
    /\ drive.type # "none" /\ xfer.rem = 0 /\ xfer.op # "flush" /\ ideReqs < MaxIdeReqs
    /\ ideReqs' = ideReqs + 1
    /\ xfer' = IF lba + count > drive.total THEN [NoXfer EXCEPT !.ret = "invalid"]
               ELSE [op |-> op, arg |-> lba, lba |-> lba, user |-> 0, count |-> count,
                     rem |-> count, s |-> 0, moved |-> {}, ret |-> "running"]
    /\ UNCHANGED <<drive, cached, lost>>

\* The sector named to the drive: 48 bits when it has them and they are needed,
\* 28 bits of it otherwise.
Addressed_Always28(lba) == lba % LBA28
Addressed(lba) == IF drive.lba48 /\ lba > LBA28 - 1 THEN lba ELSE lba % LBA28

CurLba(x) == x.lba + (x.count - x.rem) + x.s
Dest(x) == x.user + (x.count - x.rem) + x.s

Chunk(x) == IF x.rem > MAX_PER_OP THEN MAX_PER_OP ELSE x.rem

\* One sector moves; at the end of a chunk both user_buf and lba advance, and
\* remaining goes down.
AfterSector(x) ==
    LET y == [x EXCEPT !.moved = @ \cup {<<Dest(x), Addressed(CurLba(x))>>}, !.s = @ + 1]
        c == Chunk(x)
    IN  IF y.s < c THEN y
        ELSE [y EXCEPT !.s = 0, !.user = @ + c, !.lba = @ + c, !.rem = @ - c]

ide_sector_done ==
    /\ xfer.rem > 0
    /\ LET x == AfterSector(xfer)
       IN  xfer' = IF x.rem > 0 THEN x
                   ELSE IF x.op = "write" THEN [x EXCEPT !.op = "flush"]
                   ELSE [x EXCEPT !.ret = "ok"]
    /\ cached' = IF xfer.op = "write" THEN cached \cup {Addressed(CurLba(xfer))} ELSE cached
    /\ lost' = IF xfer.op = "write" THEN lost \ {Addressed(CurLba(xfer))} ELSE lost
    /\ UNCHANGED <<drive, ideReqs>>

\* BSY or DRQ timed out, or ERR: the call returns at once, with the sectors
\* before this one already moved.
ide_sector_failed ==
    /\ xfer.rem > 0
    /\ xfer' = [xfer EXCEPT !.rem = 0, !.ret = "error"]
    /\ UNCHANGED <<drive, cached, lost, ideReqs>>

\* CACHE FLUSH ends every write; the write fails when the flush does.
ide_flush_cache(ok) ==
    /\ xfer.op = "flush"
    /\ xfer' = [xfer EXCEPT !.op = "write", !.ret = IF ok THEN "ok" ELSE "error"]
    /\ cached' = IF ok THEN {} ELSE cached
    /\ UNCHANGED <<drive, lost, ideReqs>>

\* The power fails: the machine restarts, the drive has lost its cache.
IdePowerLoss ==
    /\ drive.type = "ata"
    /\ cached' = {} /\ lost' = lost \cup cached
    /\ xfer' = IF xfer.ret = "running" THEN [NoXfer EXCEPT !.ret = "error"] ELSE xfer
    /\ UNCHANGED <<drive, ideReqs>>

IdeNext ==
    \/ \E t \in {"ata", "atapi"}, b \in BOOLEAN : ide_init(t, b)
    \/ \E op \in {"read", "write"}, l \in 0..IdeTotal, c \in IdeCounts : ide_transfer(op, l, c)
    \/ ide_sector_done \/ ide_sector_failed
    \/ \E ok \in BOOLEAN : ide_flush_cache(ok)
    \/ IdePowerLoss

IdeSpec == IdeInit /\ [][IdeNext]_ideVars

(***************************************************************************)
(* Properties.                                                             *)
(***************************************************************************)

\* A transfer of at most one chunk that returned OK moved sector k of the
\* buffer from or to sector lba + k of the disk, for every k below count and
\* no other: also where it crosses the end of the 28-bit addresses.
IdeTransferExact ==
    xfer.ret = "ok" /\ xfer.op # "none" /\ xfer.count <= MAX_PER_OP =>
      xfer.moved = {<<k, xfer.arg + k>> : k \in 0..(xfer.count - 1)}

\* A write that returned OK survives a power failure: its sectors have left the
\* drive's cache before the call returns.
IdeWriteDurable ==
    xfer.op = "write" /\ xfer.ret = "ok" =>
      \A m \in xfer.moved : m[2] \notin cached \cup lost

\* An ATAPI drive, whose size the driver does not know, takes no transfer: the
\* range check of blockdev_read refuses every sector of a device of size 0.
AtapiTakesNoTransfer == drive.type = "atapi" => xfer.moved = {} /\ xfer.rem = 0

\* A successful transfer did what it reports, and nothing else is transferred.
IdeSound == IdeTransferExact /\ IdeWriteDurable /\ AtapiTakesNoTransfer
=============================================================================
