------------------------------ MODULE Partition ------------------------------
(***************************************************************************)
(* The registry of block devices (drivers/disk/blockdev.c), the partition  *)
(* manager (kernel/partition.c) and the shell's `part` commands            *)
(* (kernel/cmd/part.c).                                                    *)
(*                                                                         *)
(*   bdevs    blockdev_list_head, newest device first                      *)
(*   parts    g_part_mgr.partitions, newest entry first                    *)
(*   platter  the sectors of every disk, all that survives a reboot        *)
(*   did      the last command and what it returned                        *)
(*                                                                         *)
(* A name "%s:%d" is the parent's name with the index appended.  A sector  *)
(* is read as a partition table (an MBR, an EBR, or the first sector of a  *)
(* file system, whose table area is zero) or as a GPT header.              *)
(***************************************************************************)
EXTENDS Integers, Sequences, SequencesExt

CONSTANTS
    Disks,            \* the names of the disks the drivers found
    DiskSectors,      \* their size
    FIRST_LBA,        \* 2048, the lowest start cmd_part_create chooses
    GPT_TABLE,        \* 32, the sectors of a partition entry array
    U32,              \* 2^32, the width of lba_first and sector_count
    MAX_BLOCK_DEVS,   \* 64
    MAX_PARTITIONS,   \* 128
    PartSizes,        \* the sizes asked for, in sectors
    MaxPartOps        \* bound on the commands of one boot

ASSUME PartitionAssumption ==
    /\ DiskSectors \in Nat /\ FIRST_LBA \in 1..DiskSectors
    /\ GPT_TABLE + 3 <= DiskSectors /\ U32 > DiskSectors
    /\ PartSizes \subseteq Nat /\ MAX_BLOCK_DEVS \in Nat /\ MAX_PARTITIONS \in Nat

VARIABLES bdevs, parts, platter, did, partOps

partVars == <<bdevs, parts, platter, did, partOps>>

MbrSlot == 1..4
EmptySlot == [type |-> "empty", first |-> 0, count |-> 0]
NoSlots == [i \in MbrSlot |-> EmptySlot]
ZeroSector == [kind |-> "table", sig |-> FALSE, slots |-> NoSlots]
Table(slots) == [kind |-> "table", sig |-> TRUE, slots |-> slots]
Entry(type, first, count) ==
    [type |-> type, first |-> first % U32, count |-> count % U32]

IsDisk == [name |-> <<>>]   \* the device_data of a disk, where a partition has its entry
Unreadable == [kind |-> "unreadable", sig |-> FALSE, slots |-> NoSlots]

(***************************************************************************)
(* blockdev.c                                                              *)
(***************************************************************************)

blockdev_find(devs, name) == SelectInSeq(devs, LAMBDA d : d.name = name)

\* Refuses a full registry and a name already there.  The callers fill in the
\* geometry and the handlers, and make the device READY, before anyone looks.
blockdev_register(devs, name, total, data) ==
    IF Len(devs) >= MAX_BLOCK_DEVS \/ blockdev_find(devs, name) # 0 THEN devs
    ELSE <<[name |-> name, total |-> total, data |-> data]>> \o devs

blockdev_scan_all_disks(names) ==
    FoldLeft(LAMBDA devs, n : blockdev_register(devs, <<n>>, DiskSectors, IsDisk),
             <<>>, names)

\* blockdev_read and blockdev_write check the range against the device, then a
\* partition's handler adds its start and asks the parent, which checks again.
\* The result is the disk sector reached, or -1.
RECURSIVE Locate(_, _, _, _)
Locate(devs, name, lba, n) ==
    LET dev == devs[blockdev_find(devs, name)]
    IN  IF lba + n > dev.total THEN -1
        ELSE IF dev.data = IsDisk THEN lba
        ELSE Locate(devs, dev.data.parent, dev.data.start + lba, n)

ReadSector(devs, plat, name, lba) ==
    LET at == Locate(devs, name, lba, 1)
    IN  IF at = -1 THEN Unreadable ELSE plat[name[1]][at]

(***************************************************************************)
(* Scanning.  fault names the one transfer of the scan that fails.         *)
(***************************************************************************)

PartEntry(name, idx, type, start, count) ==
    [name |-> Append(name, idx), parent |-> name, type |-> type,
     start |-> start, count |-> count]

\* The logical partitions of the extended partition at base, from the EBR at
\* cur on.  A failed read ends the chain without an error.
RECURSIVE Logicals(_, _, _, _, _, _)
Logicals(devs, plat, name, base, cur, idx) ==
    LET ebr  == ReadSector(devs, plat, name, cur)
        own  == ebr.slots[1]
        used == own.type # "empty"
        next == ebr.slots[2].first
        mine == IF used
                THEN <<PartEntry(name, idx, own.type, (cur + own.first) % U32, own.count)>>
                ELSE <<>>
    IN  IF cur = 0 \/ ebr = Unreadable THEN <<>>
        ELSE IF next = 0 THEN mine
        ELSE mine \o Logicals(devs, plat, name, base, (base + next) % U32,
                              IF used THEN idx + 1 ELSE idx)

Primary(devs, plat, name, slots, i, fault) ==
    IF slots[i].type = "empty" THEN <<>>
    ELSE <<PartEntry(name, i, slots[i].type, slots[i].first, slots[i].count)>>
         \o IF slots[i].type = "extended" /\ fault # "ebr"
            THEN Logicals(devs, plat, name, slots[i].first, slots[i].first, 5)
            ELSE <<>>

scan_mbr(devs, plat, name, slots, fault) ==
    FlattenSeq([i \in MbrSlot |-> Primary(devs, plat, name, slots, i, fault)])

disk_is_gpt(mbr) == mbr.slots[1].type = "efi" /\ mbr.slots[1].first = 1

\* A checksum tells every two headers apart; crc is the header's own field, the
\* empty sequence when it is zero.
calculate_crc32(hdr) == <<hdr.my>> \o hdr.crc

\* The check runs over the header with its own checksum in place.
read_gpt_header(hdr) == hdr.kind = "gpt" /\ calculate_crc32(hdr) = hdr.crc

\* partition_scan_disk: what it returns, and the entries it finds in order.
partition_scan_disk(devs, plat, name, fault) ==
    LET mbr == ReadSector(devs, plat, name, 0)
        hdr == ReadSector(devs, plat, name, 1)
    IN  IF fault # "probe" /\ disk_is_gpt(mbr)
        THEN [rc |-> IF read_gpt_header(hdr) THEN 0 ELSE -1, found |-> <<>>]
        ELSE IF fault = "mbr" \/ mbr = Unreadable THEN [rc |-> -1, found |-> <<>>]
        ELSE IF ~mbr.sig THEN [rc |-> 0, found |-> <<>>]
        ELSE [rc |-> 0, found |-> scan_mbr(devs, plat, name, mbr.slots, fault)]

add_partitions_Reset(list, found) ==
    Reverse(SubSeq(found, 1, Min({MAX_PARTITIONS, Len(found)})))
\* add_partition for each of found: in front of the list, while there is room.
add_partitions(list, found) ==
    Reverse(SubSeq(found, 1, Min({Len(found), MAX_PARTITIONS - Len(list)}))) \o list

\* The devices are listed newest first, partition devices among them.
partition_scan_all(devs, plat, list) ==
    FoldLeft(LAMBDA l, d :
               add_partitions(l, partition_scan_disk(devs, plat, d.name, "none").found),
             list, SubSeq(devs, 1, Min({32, Len(devs)})))

partition_get_by_name_Last(list, name) == SelectLastInSeq(list, LAMBDA p : p.name = name)
partition_get_by_name(list, name) == SelectInSeq(list, LAMBDA p : p.name = name)

(***************************************************************************)
(* The commands.                                                           *)
(***************************************************************************)

Did(cmd, disk, rc, scan) == did' = [cmd |-> cmd, disk |-> disk, rc |-> rc, scan |-> scan]

\* A command that wrote the table of d ends with a scan of d.
ThenScan(cmd, d, plat, fault) ==
    LET s == partition_scan_disk(bdevs, plat, <<d>>, fault)
    IN  /\ platter' = plat
        /\ parts' = add_partitions(parts, s.found)
        /\ Did(cmd, d, 0, s.rc)

Refused(cmd, d) == UNCHANGED <<parts, platter>> /\ Did(cmd, d, -1, -1)

\* u32 sums: the end of a partition wraps at U32 before the comparison.
StartLba(slots, free) ==
    Max({FIRST_LBA} \cup {(slots[i].first + slots[i].count) % U32 : i \in 1..(free - 1)})

\* fault is the transfer that fails: the read of the MBR, its write, or one of
\* the scan.
cmd_part_create(d, type, size, fault) ==
    LET mbr  == platter[d][0]
        free == {i \in MbrSlot : mbr.slots[i].type = "empty"}
    IN  /\ partOps < MaxPartOps
        /\ IF fault \in {"read", "write"} \/ free = {} THEN Refused("create", d)
           ELSE LET k   == Min(free)
                    new == [mbr EXCEPT !.slots[k] = Entry(type, StartLba(mbr.slots, k), size)]
                IN  ThenScan("create", d, [platter EXCEPT ![d][0] = new], fault)
        /\ partOps' = partOps + 1
        /\ UNCHANGED bdevs

cmd_part_delete(d, i, fault) ==
    LET mbr == platter[d][0]
    IN  /\ partOps < MaxPartOps
        /\ IF fault \in {"read", "write"} \/ ~mbr.sig THEN Refused("delete", d)
           ELSE ThenScan("delete", d, [platter EXCEPT ![d][0].slots[i] = EmptySlot], fault)
        /\ partOps' = partOps + 1
        /\ UNCHANGED bdevs

GptHeader(my) ==
    [kind |-> "gpt", my |-> my, sig |-> FALSE, slots |-> NoSlots,
     crc |-> calculate_crc32([my |-> my, crc |-> <<>>])]

\* The four writes of disk_create_gpt; the disk after the first n of them.
disk_create_gpt(secs, n) ==
    LET pmbr == Table([NoSlots EXCEPT ![1] = Entry("efi", 1, U32 - 1)])
    IN  [l \in 0..(DiskSectors - 1) |->
            IF l = 0 /\ n >= 1 THEN pmbr
            ELSE IF l = 1 /\ n >= 2 THEN GptHeader(1)
            ELSE IF l \in 2..(1 + GPT_TABLE) /\ n >= 4 THEN ZeroSector
            ELSE IF l = DiskSectors - 1 /\ n >= 3 THEN GptHeader(DiskSectors - 1)
            ELSE secs[l]]

cmd_part_gpt(d, n, fault) ==
    LET plat == [platter EXCEPT ![d] = disk_create_gpt(@, n)]
    IN  /\ partOps < MaxPartOps
        /\ IF n = 4 THEN ThenScan("gpt", d, plat, fault)
           ELSE platter' = plat /\ parts' = parts /\ Did("gpt", d, -1, -1)
        /\ partOps' = partOps + 1
        /\ UNCHANGED bdevs

cmd_part_scan ==
    /\ partOps < MaxPartOps
    /\ parts' = partition_scan_all(bdevs, platter, parts)
    /\ did' = [did EXCEPT !.cmd = "scan", !.rc = 0, !.scan = -1]
    /\ partOps' = partOps + 1
    /\ UNCHANGED <<bdevs, platter>>

\* partition_get_blockdev makes the device; it stays when the mount then fails.
cmd_part_mount(k) ==
    LET p == parts[k]
    IN  /\ partOps < MaxPartOps
        /\ partition_get_by_name(parts, p.name) = k
        /\ bdevs' = blockdev_register(bdevs, p.name, p.count, p)
        /\ did' = [did EXCEPT !.cmd = "mount", !.rc = Len(bdevs') - Len(bdevs) - 1, !.scan = -1]
        /\ partOps' = partOps + 1
        /\ UNCHANGED <<parts, platter>>

\* A reset, at any moment between two writes: kmain registers the disks and
\* scans them.
Boot(plat) ==
    /\ bdevs' = blockdev_scan_all_disks(SetToSeq(Disks))
    /\ parts' = partition_scan_all(bdevs', plat, <<>>)
    /\ did' = [cmd |-> "boot", disk |-> "none", rc |-> 0, scan |-> -1]

partition_init == Boot(platter) /\ partOps' = partOps + 1 /\ partOps < MaxPartOps
                  /\ UNCHANGED platter

\* An empty table; or an extended partition of two logical ones in slot 1.
ExtendedDisk ==
    LET ext == [NoSlots EXCEPT ![1] = Entry("extended", FIRST_LBA, 6)]
        ebr(next) == Table([NoSlots EXCEPT ![1] = Entry("fat32", 1, 2), ![2] = next])
    IN  [l \in 0..(DiskSectors - 1) |->
            CASE l = 0 -> Table(ext)
              [] l = FIRST_LBA -> ebr(Entry("extended", 3, 3))
              [] l = FIRST_LBA + 3 -> ebr(EmptySlot)
              [] OTHER -> ZeroSector]
BlankDisk == [l \in 0..(DiskSectors - 1) |-> ZeroSector]
LabelledDisk == [BlankDisk EXCEPT ![0] = Table(NoSlots)]

PartInit ==
    /\ platter = [d \in Disks |-> BlankDisk]
    /\ bdevs = <<>> /\ parts = <<>> /\ partOps = 0
    /\ did = [cmd |-> "off", disk |-> "none", rc |-> 0, scan |-> -1]

\* The first boot, from the disks as they were left.
FirstBoot(plat) ==
    /\ did.cmd = "off"
    /\ platter' = plat /\ Boot(plat)
    /\ UNCHANGED partOps

PartCommand ==
    \/ \E d \in Disks, s \in PartSizes, f \in {"none", "read", "write", "probe", "mbr", "ebr"} :
          cmd_part_create(d, "exfat", s, f)
    \/ \E d \in Disks, i \in MbrSlot, f \in {"none", "read", "write", "probe", "mbr", "ebr"} :
          cmd_part_delete(d, i, f)
    \/ \E d \in Disks, n \in 0..4, f \in {"none", "probe"} : cmd_part_gpt(d, n, f)
    \/ cmd_part_scan
    \/ \E k \in 1..Len(parts) : cmd_part_mount(k)
    \/ partition_init

PartNext ==
    \/ \E plat \in [Disks -> {BlankDisk, LabelledDisk, ExtendedDisk}] : FirstBoot(plat)
    \/ did.cmd # "off" /\ PartCommand

(***************************************************************************)
(* Properties.                                                             *)
(***************************************************************************)

\* The registry and the list stay inside the bounds blockdev_register and
\* add_partition enforce, and every partition device's parent is registered.
PartTypeOK ==
    /\ Len(bdevs) <= MAX_BLOCK_DEVS /\ Len(parts) <= MAX_PARTITIONS
    /\ \A i \in 1..Len(bdevs) : bdevs[i].data # IsDisk =>
          \E j \in (i + 1)..Len(bdevs) : bdevs[j].name = bdevs[i].data.parent
    /\ \A d \in Disks, l \in 0..(DiskSectors - 1) :
          \A i \in MbrSlot : platter[d][l].slots[i].first \in 0..(U32 - 1)

\* After a command whose closing partition_scan_disk succeeded, looking a
\* primary partition up by name gives the extent now in the table, although
\* the entries of all earlier scans are still in the list: the newest entry is
\* the first.  It holds while the list has room and the disk has a signature.
LookupIsCurrent ==
    did.scan = 0 /\ Len(parts) < MAX_PARTITIONS /\ platter[did.disk][0].sig =>
      \A i \in MbrSlot :
        LET s == platter[did.disk][0].slots[i]
            k == partition_get_by_name(parts, <<did.disk, i>>)
        IN  s.type # "empty" =>
              k # 0 /\ parts[k].start = s.first /\ parts[k].count = s.count

\* What a partition device reads and writes lies inside the partition it was
\* made from and on the disk, whatever the table claims about the size.
AccessInsideWindow ==
    \A i \in 1..Len(bdevs) : bdevs[i].data # IsDisk =>
      \A lba \in 0..bdevs[i].total :
        LET at == Locate(bdevs, bdevs[i].name, lba, 1)
        IN  at # -1 => at < DiskSectors /\ lba < bdevs[i].data.count

\* No two devices have one name, so blockdev_find and the parent of a
\* partition device are never ambiguous, even when entries of several scans
\* with one name are mounted.
DeviceNamesUnique ==
    \A i, j \in 1..Len(bdevs) : bdevs[i].name = bdevs[j].name => i = j

\* A device keeps a pointer to its partition_t in device_data.  No command
\* frees or changes an entry of the list, so the pointer stays good until the
\* next boot: the list only grows at its head.
EntriesOutliveDevices ==
    [][did'.cmd # "boot" =>
         /\ Len(parts') >= Len(parts)
         /\ SubSeq(parts', Len(parts') - Len(parts) + 1, Len(parts')) = parts]_partVars

\* The list of partitions and the registry of devices are right together.
PartSound == PartTypeOK /\ LookupIsCurrent /\ AccessInsideWindow /\ DeviceNamesUnique
=============================================================================
