------------------------------- MODULE ExFat -------------------------------
(***************************************************************************)
(* The exFAT driver (fs/exfat.c) under the shell's file commands.          *)
(*                                                                         *)
(* As with FAT32, commands run one after the other and each is one action. *)
(* The driver keeps the whole FAT in fat_cache; bit 0 of fat_cache[0] is   *)
(* its dirty flag.  Directory and data clusters are written at once, the   *)
(* FAT only when a written file is closed or the volume is unmounted.  A   *)
(* power cut may come between any two commands.                            *)
(*                                                                         *)
(* Data abstraction.  The driver always makes groups of three directory    *)
(* slots (file, stream, name), so a directory, which is one cluster and    *)
(* never grows, is Groups groups; the one or two slots left over after     *)
(* them come first when all groups are in use, and the group written there *)
(* runs over the end of the buffer.  File data is counted in units,        *)
(* ClusterUnits to a cluster, and a unit remembers which file it was       *)
(* written for.  No time stamps, no attributes but the directory's.        *)
(***************************************************************************)
EXTENDS Integers, Sequences, FiniteSets, SequencesExt

CONSTANTS
    ExfatEntries,  \* fat_entries
    ExfatLast,     \* the last cluster inside the device
    Groups,        \* bytes_per_cluster / 96
    ClusterUnits,  \* units of file data in a cluster
    ExfatName,     \* the names the user types, of at most 15 characters
    ExfatText,     \* the sizes of a typed text, in units
    ExfatMaxSize   \* bound on a file's size, in units

ASSUME ExfatAssumption ==
    /\ ExfatEntries \in Nat /\ ExfatLast \in 2..(ExfatEntries - 1)
    /\ {Groups, ClusterUnits, ExfatMaxSize} \subseteq Nat \ {0}
    /\ ExfatText \subseteq Nat \ {0}

\* The mounted volume: the driver's memory (fat, dirty), the device (diskFat,
\* diskDirty, dirs, data) and, once the driver's next step is undefined or the
\* volume damaged, the cause in broken; no command runs after that.
VARIABLE exf

ExfatCluster == 2..(ExfatEntries - 1)
ExfatOnDisk == 2..ExfatLast
EXFAT_FAT_FREE == 0
EXFAT_FAT_END == ExfatEntries
root_cluster == 2

\* cut is not in the source: it marks a file that was extended from a cluster
\* boundary.  owner names the file in the data units.
NoGroup == [live |-> FALSE, dir |-> FALSE, name |-> "", first |-> 0, len |-> 0,
            owner |-> 0, cut |-> FALSE]
NewGroup(name, dir, first) ==
    [live |-> TRUE, dir |-> dir, name |-> name, first |-> first, len |-> 0,
     owner |-> first, cut |-> FALSE]
EmptyDir == [g \in 1..Groups |-> NoGroup]
NoData == [u \in 0..(ClusterUnits - 1) |-> 0]

\* What exfat_format leaves and exfat_mount reads.
ExfatFormatted ==
    LET fat == [c \in ExfatCluster |-> IF c = root_cluster THEN EXFAT_FAT_END
                                       ELSE EXFAT_FAT_FREE]
    IN  [fat |-> fat, dirty |-> FALSE, diskFat |-> fat, diskDirty |-> FALSE,
         dirs |-> [c \in ExfatOnDisk |-> EmptyDir],
         data |-> [c \in ExfatOnDisk |-> NoData], broken |-> ""]

-----------------------------------------------------------------------------

exfat_next_cluster(fat, c) == IF c \in ExfatCluster THEN fat[c] ELSE 0

\* The clusters from c up to the first value that is not a cluster number.
ExfatChain(fat, c) ==
    LET walk[k \in 1..ExfatEntries] ==
          IF k = 1 THEN c ELSE exfat_next_cluster(fat, walk[k - 1])
    IN  SelectSeq(walk, LAMBDA x : x \in ExfatCluster)

\* The free clusters in the order the search from cluster 2 finds them.
FreeClusters(v) == SetToSortSeq({c \in ExfatCluster : v.fat[c] = EXFAT_FAT_FREE}, <)

\* exfat_readdir: the groups of directory d up to the first free slot, which the
\* driver takes for the end of the directory.
ListedGroups(v, d) == {g \in 1..Groups : \A h \in 1..g : v.dirs[d][h].live}

exfat_lookup(v, d, name) ==
    LET hits == {g \in ListedGroups(v, d) : v.dirs[d][g].name = name}
    IN  IF hits = {} THEN 0 ELSE Min(hits)

\* What a function of the driver returns: the volume, and the place of the entry.
ExfatFail(v) == [vol |-> v, ok |-> FALSE, d |-> 0, g |-> 0]
ExfatDone(v, d, g) == [vol |-> v, ok |-> TRUE, d |-> d, g |-> g]

\* The new entry.  The directory is written at once, the FAT is not.
EnterGroup_Clean(v, d, g, group) == [v EXCEPT !.dirs[d][g] = group]
EnterGroup(v, d, g, group) == [v EXCEPT !.dirs[d][g] = group, !.dirty = TRUE]

\* exfat_create_file and exfat_mkdir after the search for a cluster.  A
\* directory's cluster is cleared on the device.
CreateIn(v, d, name, dir, c) ==
    LET holes == {g \in 1..Groups : ~v.dirs[d][g].live}
        w     == [v EXCEPT !.fat[c] = EXFAT_FAT_END]
        clear == IF dir /\ c \in ExfatOnDisk THEN [w EXCEPT !.dirs[c] = EmptyDir] ELSE w
    IN  IF holes = {} THEN ExfatDone([w EXCEPT !.broken = "overrun"], d, 1)
        ELSE IF dir /\ c \notin ExfatOnDisk
             THEN ExfatDone([w EXCEPT !.broken = "off the device"], d, 1)
        ELSE ExfatDone(EnterGroup(clear, d, Min(holes), NewGroup(name, dir, c)),
                       d, Min(holes))

exfat_create(v, d, name) ==
    IF exfat_lookup(v, d, name) # 0 \/ FreeClusters(v) = <<>> THEN ExfatFail(v)
    ELSE CreateIn(v, d, name, FALSE, Head(FreeClusters(v)))

exfat_mkdir(v, d, name) ==
    IF exfat_lookup(v, d, name) # 0 \/ FreeClusters(v) = <<>> THEN ExfatFail(v)
    ELSE CreateIn(v, d, name, TRUE, Head(FreeClusters(v)))

\* Frees the chain in memory and zeroes the entry on the device.  What the freed
\* clusters hold is forgotten: it is overwritten before it is read again.
Freed(v, cs) ==
    [v EXCEPT !.fat = [c \in ExfatCluster |-> IF c \in cs THEN EXFAT_FAT_FREE ELSE @[c]],
              !.data = [c \in ExfatOnDisk |-> IF c \in cs THEN NoData ELSE @[c]],
              !.dirs = [c \in ExfatOnDisk |-> IF c \in cs THEN EmptyDir ELSE @[c]]]
FreeGroup(v, d, g) ==
    [Freed(v, Range(ExfatChain(v.fat, v.dirs[d][g].first))) EXCEPT
        !.dirs[d][g] = NoGroup, !.dirty = TRUE]

exfat_unlink(v, d, name) ==
    IF exfat_lookup(v, d, name) = 0 THEN ExfatFail(v)
    ELSE ExfatDone(FreeGroup(v, d, exfat_lookup(v, d, name)), d, 0)

\* Whatever the directory still holds.
exfat_rmdir(v, d, name) ==
    LET g == exfat_lookup(v, d, name)
    IN  IF g = 0 THEN ExfatFail(v)
        ELSE IF ~v.dirs[d][g].dir THEN ExfatFail(v)
        ELSE exfat_unlink(v, d, name)

-----------------------------------------------------------------------------

\* exfat_write collects the clusters it needs: those the chain has from the
\* offset on, then new ones.  A new cluster is linked behind the one before it
\* in this list; the first of the list is linked to nothing.
AtMost(seq, n) == IF n < Len(seq) THEN SubSeq(seq, 1, n) ELSE seq
Collected(v, first, idx, needed) ==
    LET chain == ExfatChain(v.fat, first)
        have  == AtMost(SubSeq(chain, idx + 1, Len(chain)), needed)
    IN  have \o AtMost(FreeClusters(v), needed - Len(have))

Linked_NoLink(fat, clusters, taken) ==
    [c \in ExfatCluster |-> IF c \in taken THEN EXFAT_FAT_END ELSE fat[c]]
Linked(fat, clusters, taken) ==
    [c \in ExfatCluster |->
        IF \E i \in 1..(Len(clusters) - 1) : clusters[i] = c /\ clusters[i + 1] \in taken
        THEN clusters[1 + CHOOSE i \in 1..(Len(clusters) - 1) : clusters[i] = c]
        ELSE IF c \in taken THEN EXFAT_FAT_END ELSE fat[c]]

\* The data of units offset..offset+len-1; what lies off the device is dropped.
PutUnits(v, clusters, offset, len, owner) ==
    LET base == (offset \div ClusterUnits) * ClusterUnits
    IN  [v EXCEPT !.data = [c \in ExfatOnDisk |-> [u \in 0..(ClusterUnits - 1) |->
            IF \E i \in 1..Len(clusters) :
                  /\ clusters[i] = c
                  /\ base + (i - 1) * ClusterUnits + u \in offset..(offset + len - 1)
            THEN owner ELSE @[c][u]]]]

\* The size in the entry grows; the entry's first cluster never changes.
PutLength(v, d, g, end, cut) ==
    [v EXCEPT !.dirs[d][g].len = IF end > @ THEN end ELSE @,
              !.dirs[d][g].cut = @ \/ cut,
              !.dirty = TRUE]

exfat_sync(v) ==
    IF v.dirty THEN [v EXCEPT !.diskFat = v.fat, !.diskDirty = TRUE, !.dirty = FALSE]
    ELSE v

\* With too few free clusters the ones found stay taken in memory, and the
\* flag that would bring them to the device is not set.
exfat_write(v, d, g, offset, len) ==
    LET file     == v.dirs[d][g]
        idx      == offset \div ClusterUnits
        needed   == (offset + len - 1) \div ClusterUnits - idx + 1
        clusters == Collected(v, file.first, idx, needed)
        taken    == Range(clusters) \cap Range(FreeClusters(v))
        linked   == [v EXCEPT !.fat = Linked(v.fat, clusters, taken)]
    IN  IF Len(clusters) < needed THEN ExfatFail(linked)
        ELSE ExfatDone(PutLength(PutUnits(linked, clusters, offset, len, file.owner),
                                 d, g, offset + len, Head(clusters) \in taken),
                       d, g)

-----------------------------------------------------------------------------

\* Unit u of what exfat_read returns for the file: the chain is followed from its
\* first cluster; 0 when the chain ends before it.
exfat_read(v, file, u) ==
    LET chain == ExfatChain(v.fat, file.first)
        k     == 1 + u \div ClusterUnits
    IN  IF k > Len(chain) THEN 0 ELSE v.data[chain[k]][u % ClusterUnits]

\* A path is a name in the root directory or in a directory of the root.
ExfatPath == [dir : {""} \cup ExfatName, name : ExfatName]

\* The directory of the path's last name, or 0 if there is none.
ExfatParent(v, path) ==
    LET g == exfat_lookup(v, root_cluster, path.dir)
    IN  IF path.dir = "" THEN root_cluster
        ELSE IF g # 0 /\ v.dirs[root_cluster][g].dir THEN v.dirs[root_cluster][g].first
        ELSE 0

Sound == exf.broken = ""

\* touch and mkdir.
ExfatMake(path, dir) ==
    /\ Sound /\ ExfatParent(exf, path) # 0
    /\ exf' = (IF dir THEN exfat_mkdir(exf, ExfatParent(exf, path), path.name)
               ELSE exfat_create(exf, ExfatParent(exf, path), path.name)).vol

\* rm and rmdir.
ExfatRemove(path, dir) ==
    /\ Sound /\ ExfatParent(exf, path) # 0
    /\ exf' = (IF dir THEN exfat_rmdir(exf, ExfatParent(exf, path), path.name)
               ELSE exfat_unlink(exf, ExfatParent(exf, path), path.name)).vol

\* vfs_open with O_CREAT, vfs_write at the start or at the end, vfs_close.
\* Bounds: the path does not name a directory, and the file stays small.
ExfatOpened(v, d, name) ==
    IF exfat_lookup(v, d, name) # 0 THEN ExfatDone(v, d, exfat_lookup(v, d, name))
    ELSE exfat_create(v, d, name)
ExfatClosed(done) == IF done.ok THEN exfat_sync(done.vol) ELSE done.vol
ExfatStore(open, len, append) ==
    LET offset == IF append THEN open.vol.dirs[open.d][open.g].len ELSE 0
    IN  IF ~open.ok \/ open.vol.broken # "" THEN exf' = open.vol
        ELSE /\ ~open.vol.dirs[open.d][open.g].dir
             /\ offset + len <= ExfatMaxSize
             /\ exf' = ExfatClosed(exfat_write(open.vol, open.d, open.g, offset, len))
ExfatWrite(path, len, append) ==
    /\ Sound /\ ExfatParent(exf, path) # 0
    /\ ExfatStore(ExfatOpened(exf, ExfatParent(exf, path), path.name), len, append)

\* exfat_unmount_fs writes the FAT if the flag is set; exfat_mount reads it.
Reread(v) == [v EXCEPT !.fat = v.diskFat, !.dirty = v.diskDirty]
ExfatRemount == Sound /\ exf' = Reread(exfat_sync(exf))

\* The power fails between two commands and the volume is mounted again.
ExfatPowerCut ==
    /\ Sound
    /\ exf' = [Reread(exf) EXCEPT
                 !.broken = IF exf.dirty /\ exf.fat # exf.diskFat THEN "stale" ELSE ""]

ExfatInit == exf = ExfatFormatted

ExfatNext ==
    \/ \E path \in ExfatPath :
          \/ \E dir \in BOOLEAN : ExfatMake(path, dir) \/ ExfatRemove(path, dir)
          \/ \E len \in ExfatText, append \in BOOLEAN : ExfatWrite(path, len, append)
    \/ ExfatRemount
    \/ ExfatPowerCut

-----------------------------------------------------------------------------

ExfatTypeOK ==
    /\ \A f \in {exf.fat, exf.diskFat} :
          f \in [ExfatCluster -> {EXFAT_FAT_FREE, EXFAT_FAT_END} \cup ExfatCluster]
    /\ exf.dirty \in BOOLEAN /\ exf.diskDirty \in BOOLEAN
    /\ \A d \in ExfatOnDisk, g \in 1..Groups :
          /\ exf.dirs[d][g].len \in 0..ExfatMaxSize
          /\ exf.dirs[d][g].first \in {0} \cup ExfatCluster
    /\ exf.broken \in {"", "overrun", "off the device", "stale"}

\* The directories that can be reached, and the places of the entries in them,
\* those behind a free slot included.
LiveIn(d) == {<<d, g>> : g \in {h \in 1..Groups : exf.dirs[d][h].live}}
SubDirs == {exf.dirs[p[1]][p[2]].first :
              p \in {q \in LiveIn(root_cluster) : exf.dirs[q[1]][q[2]].dir}}
LiveEntries == UNION {LiveIn(d) : d \in {root_cluster} \cup SubDirs}
EntryAt(p) == exf.dirs[p[1]][p[2]]
ChainAt(fat, p) == ExfatChain(fat, EntryAt(p).first)

\* No cluster belongs to two entries, and every entry's clusters are allocated:
\* the table a mount reads back after a power cut with a clean flag is as good
\* as the one in memory (exfat_create_file, exfat_unlink, exfat_write).
ExfatChainsDisjoint ==
    Sound => \A p \in LiveEntries :
        /\ \A c \in Range(ChainAt(exf.fat, p)) :
              exf.fat[c] # EXFAT_FAT_FREE /\ c # root_cluster
        /\ \A q \in LiveEntries \ {p} :
              Range(ChainAt(exf.fat, p)) \cap Range(ChainAt(exf.fat, q)) = {}

\* What a file was given it keeps: exfat_read finds each unit up to its length
\* and it is the one written for it, unless the file was once extended from a
\* cluster boundary or has clusters off the device (exfat_write, exfat_read).
ExfatDataIntact ==
    Sound => \A p \in LiveEntries :
        /\ ~EntryAt(p).dir /\ ~EntryAt(p).cut
        /\ Range(ChainAt(exf.fat, p)) \subseteq ExfatOnDisk
        => \A u \in 0..(EntryAt(p).len - 1) : exfat_read(exf, EntryAt(p), u) = EntryAt(p).owner

\* While the dirty flag is clear a power cut loses nothing: the table on the
\* device has each entry's first cluster and as much of its chain as its length
\* needs, although a write that ran out of clusters changed only the table in
\* memory (exfat_sync, exfat_write's early return).
ExfatCleanOnDisk ==
    Sound /\ ~exf.dirty => \A p \in LiveEntries :
        LET mem  == ChainAt(exf.fat, p)
            need == 1 + IF EntryAt(p).len = 0 THEN 0
                        ELSE (EntryAt(p).len - 1) \div ClusterUnits
        IN  /\ exf.diskFat[EntryAt(p).first] # EXFAT_FAT_FREE
            /\ AtMost(ChainAt(exf.diskFat, p), need) = AtMost(mem, need)

\* Removing a file leaves every other file of the root directory findable: the
\* removed entry's slots are marked free (fs/exfat.c:291).
ExfatRemoveKeepsOthers ==
    [][\A n \in ExfatName : ExfatRemove([dir |-> "", name |-> n], FALSE) =>
         \A m \in ExfatName \ {n} :
            exfat_lookup(exf, root_cluster, m) # 0 =>
            exfat_lookup(exf', root_cluster, m) # 0]_exf

\* The mounted volume is sound: its table, its directories and its data.
ExfatSound == ExfatTypeOK /\ ExfatChainsDisjoint /\ ExfatDataIntact
=============================================================================
