------------------------------- MODULE Fat32 -------------------------------
(***************************************************************************)
(* The FAT32 driver (fs/fat32.c) under the shell's file commands           *)
(* (kernel/cmd/filesystem.c, the redirections of kernel/cmd/builtin.c) and *)
(* the VFS calls between them (fs/vfs.c).                                  *)
(*                                                                         *)
(* One volume is mounted as the root file system and the working directory *)
(* stays at the root.  All commands run one after the other, inside the    *)
(* keyboard interrupt, so a command is one action.  The volume is a record *)
(* vol and the driver's functions are operators from volumes to volumes:   *)
(*                                                                         *)
(*   fat, free_count, next_free, dirty   the driver's memory: fat_cache,   *)
(*                                       fsinfo and the dirty flag         *)
(*   diskFat, diskFree, diskNext         the first FAT and the FSInfo      *)
(*                                       sector on the device              *)
(*   disk                                the data clusters on the device   *)
(*                                                                         *)
(* Data abstraction.  A cluster is Slots directory slots; a slot is Zero   *)
(* (end of directory), Deleted (0xE5), a slot of a long name, Text (file   *)
(* data) or a short entry.  Text is never read as a directory, because     *)
(* every path the commands use goes through directories only.  A file's    *)
(* size is counted in units, ClusterSize to a cluster.  No time stamps.    *)
(***************************************************************************)
EXTENDS Integers, Sequences, FiniteSets, FiniteSetsExt, Functions

CONSTANTS
    FatEntries,   \* fat_entries: the FAT describes the clusters 2..FatEntries-1
    LastOnDisk,   \* the last cluster inside the device
    Slots,        \* bytes_per_cluster / 32
    Word,         \* 2^32, the width of free_count
    Name,         \* the names the user types
    Render,       \* Render[n]: the 8.3 entry made from n, printed again
    LfnSlots,     \* LfnSlots[n]: long-name slots made for n
    ClusterSize,  \* units of file data in a cluster
    TextSize,     \* the sizes of a typed text, in units
    MaxSize       \* bound on a file's size, in units

ASSUME GeometryAssumption ==
    /\ FatEntries \in Nat /\ LastOnDisk \in 4..(FatEntries - 1)
    /\ Slots \in Nat /\ Slots >= 3 /\ Word \in Nat /\ LastOnDisk <= Word /\ MaxSize \in Nat
    /\ ClusterSize \in Nat \ {0} /\ TextSize \subseteq Nat \ {0}
    /\ \A n \in Name : LfnSlots[n] \in Nat

VARIABLE vol

Cluster == 2..(FatEntries - 1)
OnDisk == 2..LastOnDisk
FREE == 0
EOC == FatEntries
RootCluster == 2

Zero == [kind |-> "zero"]
Deleted == [kind |-> "deleted"]
Text == [kind |-> "text"]
Lfn(last) == [kind |-> IF last THEN "lfnlast" ELSE "lfn"]
Entry(kind, name, first) ==
    [kind |-> kind, name |-> name, first |-> first, size |-> 0]

Blank == [i \in 1..Slots |-> Zero]
Data == [i \in 1..Slots |-> Text]

IsEntry(s) == s.kind \in {"file", "dir"}
Occupied(s) == s.kind \notin {"zero", "deleted"}

(***************************************************************************)
(* The allocation table.                                                   *)
(***************************************************************************)

\* The part of a sequence before the first element that stops a scan.
Before(seq, Stop(_)) ==
    LET stops == {i \in 1..Len(seq) : Stop(seq[i])}
    IN  IF stops = {} THEN seq ELSE SubSeq(seq, 1, Min(stops) - 1)

fat32_next_cluster(fat, c) ==
    IF c \notin Cluster \/ fat[c] = FREE THEN EOC ELSE fat[c]

\* The clusters the driver visits from c, in order: each of its loops over a
\* chain stops at the first value that is not a cluster number.
Chain(fat, c) ==
    LET walk[k \in 1..FatEntries] ==
          IF k = 1 THEN c ELSE fat32_next_cluster(fat, walk[k - 1])
    IN  Before(walk, LAMBDA x : x \notin Cluster)

\* The cluster tried at step i of the search, which starts at the FSInfo hint
\* and wraps at the end of the table.
Candidate(v, i) ==
    LET start == IF v.next_free \in Cluster THEN v.next_free ELSE 2
        c     == start + i
    IN  IF c >= FatEntries THEN 2 + (c - FatEntries) ELSE c

Free(v) == {i \in 0..(FatEntries - 3) : v.fat[Candidate(v, i)] = FREE}

Take_NoMark(v, c) ==
    [v EXCEPT !.next_free = IF c + 1 >= FatEntries THEN 2 ELSE c + 1, !.dirty = TRUE]
Take(v, c) ==
    [v EXCEPT !.fat[c] = EOC,
              !.free_count = (@ + Word - 1) % Word,
              !.next_free = IF c + 1 >= FatEntries THEN 2 ELSE c + 1,
              !.dirty = TRUE]

Taken(v, c) == [vol |-> Take(v, c), got |-> c]

fat32_alloc_cluster(v) ==
    IF Free(v) = {} THEN [vol |-> v, got |-> 0]
    ELSE Taken(v, Candidate(v, Min(Free(v))))

\* The contents of a cluster whose chain is freed are forgotten: a directory's
\* new cluster is overwritten before it is read, and file data is not observed.
Forget(disk, cs) == [c \in OnDisk |-> IF c \in cs THEN Blank ELSE disk[c]]

Release_NoDirty(v, freed) ==
    [v EXCEPT !.fat = [x \in Cluster |-> IF x \in freed THEN FREE ELSE @[x]],
              !.free_count = (@ + Cardinality(freed)) % Word,
              !.disk = Forget(@, freed)]
Release(v, freed) ==
    [v EXCEPT !.fat = [x \in Cluster |-> IF x \in freed THEN FREE ELSE @[x]],
              !.free_count = (@ + Cardinality(freed)) % Word,
              !.dirty = @ \/ freed # {},
              !.disk = Forget(@, freed)]

fat32_free_cluster_chain(v, c) == Release(v, Range(Chain(v.fat, c)))

\* blockdev_write refuses what lies beyond the device, and no caller looks.
fat32_write_cluster(v, c, buf) ==
    IF c \in OnDisk THEN [v EXCEPT !.disk[c] = buf] ELSE v

(***************************************************************************)
(* Directories.                                                            *)
(***************************************************************************)

\* The clusters of directory d that can be read before the first that cannot.
Readable(v, d) == Before(Chain(v.fat, d), LAMBDA c : c \notin OnDisk)

\* The slots of clusters in the order a scan meets them, as <<cluster, slot>>.
SlotsOf(cs) ==
    [k \in 1..(Len(cs) * Slots) |->
        <<cs[1 + ((k - 1) \div Slots)], 1 + ((k - 1) % Slots)>>]

Scan(v, d) == SlotsOf(Readable(v, d))

FatPlace(v, p) == v.disk[p[1]][p[2]]

None == <<0, 0>>

\* What a function of the driver returns: the volume and the slot it worked on.
Done(v, p) == [vol |-> v, ok |-> TRUE, pos |-> p]
Fail(v) == [vol |-> v, ok |-> FALSE, pos |-> None]

\* The first of the slots that passes a test.
First(slots, Test(_)) ==
    LET hits == {i \in 1..Len(slots) : Test(slots[i])}
    IN  IF hits = {} THEN None ELSE slots[Min(hits)]

\* The slots of d before the end mark: all that a scan for a name looks at.
Visible(v, d) == Before(Scan(v, d), LAMBDA p : FatPlace(v, p) = Zero)

\* The comparison is between the typed name and the entry printed in lower
\* case, so a name that is not its own 8.3 form is never found.
fat32_lookup(v, d, name) ==
    First(Visible(v, d), LAMBDA p : IsEntry(FatPlace(v, p)) /\ FatPlace(v, p).name = name)

FreeSlot_Last(v, d) ==
    First(Scan(v, d), LAMBDA p : FatPlace(v, p) = Deleted \/ p[2] = Slots)
FreeSlot(v, d) == First(Scan(v, d), LAMBDA p : ~Occupied(FatPlace(v, p)))

\* The search of fat32_create for a place for a new entry.  With no free slot
\* the directory gets one more cluster, which stays even if the rest fails.
Extend(v, last, a) ==
    IF a.got = 0 THEN Fail(v)
    ELSE Done(fat32_write_cluster([a.vol EXCEPT !.fat[last] = a.got], a.got, Blank),
              <<a.got, 1>>)

Place(v, d) ==
    IF FreeSlot(v, d) # None THEN Done(v, FreeSlot(v, d))
    ELSE IF Readable(v, d) # Chain(v.fat, d) THEN Fail(v)
    ELSE Extend(v, Chain(v.fat, d)[Len(Chain(v.fat, d))], fat32_alloc_cluster(v))

\* The buffer the new entries are put into: a directory cluster off the device
\* is still in memory, cleared.
Buffer(v, c) ==
    IF c \in OnDisk THEN v.disk[c] ELSE Blank

\* The new cluster of a directory: ".", ".." and the end mark.
DotEntries(own, parent) ==
    [i \in 1..Slots |-> CASE i = 1 -> Entry("dir", ".", own)
                          [] i = 2 -> Entry("dir", "..", parent)
                          [] OTHER -> Zero]

\* The entry and, before it, the long-name slots, of which the first carries
\* the last-part mark.  Whatever the slots held is overwritten.
WithEntry(buf, i, name, e) ==
    LET n == LfnSlots[name]
    IN  [j \in 1..Slots |-> CASE j = i + n -> e
                              [] j \in i..(i + n - 1) -> Lfn(j = i)
                              [] OTHER -> buf[j]]

\* The new entry, put in its place and written.
Enter(w, place, name, mode, first) ==
    Done(fat32_write_cluster(w, place.pos[1],
             WithEntry(Buffer(place.vol, place.pos[1]), place.pos[2], name,
                       Entry(mode, Render[name], first))),
         <<place.pos[1], place.pos[2] + LfnSlots[name]>>)

\* A directory's own cluster is written before the entry.
EnterDir(place, d, name, a) ==
    IF a.got = 0 THEN Fail(place.vol)
    ELSE Enter(fat32_write_cluster(a.vol, a.got, DotEntries(a.got, d)),
               place, name, "dir", a.got)

CreateAt(place, d, name, mode) ==
    IF ~place.ok \/ place.pos[2] + LfnSlots[name] > Slots THEN Fail(place.vol)
    ELSE IF mode = "file" THEN Enter(place.vol, place, name, "file", 0)
    ELSE EnterDir(place, d, name, fat32_alloc_cluster(place.vol))

fat32_create(v, d, name, mode) ==
    IF fat32_lookup(v, d, name) # None THEN Fail(v)
    ELSE CreateAt(Place(v, d), d, name, mode)

\* The long-name slots removed with the entry at slot i: the backward count
\* stops at the one with the last-part mark and does not include it.
LfnCount(buf, i) ==
    LET run == {n \in 0..(i - 1) : \A j \in (i - n)..(i - 1) : buf[j].kind = "lfn"}
    IN  Max(run)

\* The entry at slot i and its long-name slots marked deleted.
Erase(buf, i) ==
    [j \in 1..Slots |-> IF j \in (i - LfnCount(buf, i))..i THEN Deleted ELSE buf[j]]

UnlinkAt(v, p) ==
    IF p = None THEN Fail(v)
    ELSE Done(fat32_write_cluster(fat32_free_cluster_chain(v, FatPlace(v, p).first),
                                  p[1], Erase(v.disk[p[1]], p[2])), p)

fat32_unlink(v, d, name) == UnlinkAt(v, fat32_lookup(v, d, name))

(***************************************************************************)
(* File data.                                                              *)
(***************************************************************************)

\* fat32_write walks to the cluster of the offset.  An empty file gets its
\* first cluster on the way; a chain that ends too early is an error.
SkipStep(s, a) ==
    CASE ~s.ok -> s
      [] s.ok /\ s.cluster \in Cluster ->
           [s EXCEPT !.cluster = fat32_next_cluster(s.vol.fat, s.cluster)]
      [] s.ok /\ s.cluster \notin Cluster /\ s.first = 0 /\ a.got # 0 ->
           [s EXCEPT !.vol = a.vol, !.first = a.got, !.cluster = a.got]
      [] OTHER -> [s EXCEPT !.ok = FALSE]

SkipTo(v, first, idx) ==
    LET walk[k \in 0..idx] ==
          IF k = 0 THEN [vol |-> v, first |-> first, cluster |-> first, ok |-> TRUE,
                         clusters |-> <<>>]
          ELSE SkipStep(walk[k - 1], fat32_alloc_cluster(walk[k - 1].vol))
    IN  walk[idx]

\* ... and collects the clusters to write, allocating what is missing.  A new
\* cluster is linked behind the previous one of this call only.
CollectStep(s, a) ==
    CASE ~s.ok -> s
      [] s.ok /\ s.cluster \in Cluster ->
           [s EXCEPT !.cluster = fat32_next_cluster(s.vol.fat, @),
                     !.clusters = Append(@, s.cluster)]
      [] s.ok /\ s.cluster \notin Cluster /\ a.got = 0 -> [s EXCEPT !.ok = FALSE]
      [] OTHER ->
           [s EXCEPT !.vol = IF s.clusters = <<>> THEN a.vol
                             ELSE [a.vol EXCEPT !.fat[s.clusters[Len(s.clusters)]] = a.got],
                     !.first = IF s.clusters = <<>> /\ @ = 0 THEN a.got ELSE @,
                     !.cluster = a.got,
                     !.clusters = Append(@, a.got)]

Collect(s, needed) ==
    LET step[c \in 0..needed] ==
          IF c = 0 THEN s
          ELSE CollectStep(step[c - 1], fat32_alloc_cluster(step[c - 1].vol))
    IN  step[needed]

\* The data, then the size in the directory entry if the file grew.  The first
\* cluster of a file that had none goes to the inode and not to the entry.
PutData(v, cs) ==
    [v EXCEPT !.disk = [c \in OnDisk |-> IF c \in cs THEN Data ELSE @[c]]]
PutSize(v, pos, end) ==
    IF pos[1] \in OnDisk /\ end > FatPlace(v, pos).size
    THEN [v EXCEPT !.disk[pos[1]][pos[2]].size = end]
    ELSE v
Store(s, pos, end) ==
    IF ~s.ok THEN Fail(s.vol)
    ELSE Done(PutSize(PutData(s.vol, Range(s.clusters)), pos, end), pos)

\* On the file whose entry is at pos.
fat32_write(v, pos, offset, len) ==
    LET idx    == offset \div ClusterSize
        needed == (offset + len - 1) \div ClusterSize - idx + 1
        first  == IF pos[1] \in OnDisk THEN FatPlace(v, pos).first ELSE 0
    IN  Store(Collect(SkipTo(v, first, idx), needed), pos, offset + len)

fat32_sync(v) ==
    IF v.dirty THEN [v EXCEPT !.diskFat = v.fat, !.diskFree = v.free_count,
                              !.diskNext = v.next_free, !.dirty = FALSE]
    ELSE v

(***************************************************************************)
(* The commands.  A path is one name in the root directory or a name in a  *)
(* directory of the root.                                                  *)
(***************************************************************************)

Path == [dir : {""} \cup Name, name : Name]

\* The directory of the path's last name: its kind and first cluster.
DirAt(v, p) ==
    IF p = None THEN [mode |-> "none", first |-> 0]
    ELSE [mode |-> FatPlace(v, p).kind, first |-> FatPlace(v, p).first]
vfs_resolve_path(v, path) ==
    IF path.dir = "" THEN [mode |-> "dir", first |-> RootCluster]
    ELSE DirAt(v, fat32_lookup(v, RootCluster, path.dir))

vfs_create(v, path, mode) ==
    LET parent == vfs_resolve_path(v, path)
    IN  IF parent.mode # "dir" THEN Fail(v)
        ELSE fat32_create(v, parent.first, path.name, mode)

vfs_mkdir(v, path) == vfs_create(v, path, "dir")

\* Also for a directory, whatever it still holds; vfs_rmdir ends in the same call.
vfs_unlink(v, path) ==
    LET parent == vfs_resolve_path(v, path)
    IN  IF parent.mode = "none" THEN Fail(v)
        ELSE fat32_unlink(v, parent.first, path.name)

\* With O_CREAT: the file that is there, or a new one.
OpenIn(v, parent, name) ==
    IF parent.mode = "none" THEN Fail(v)
    ELSE IF fat32_lookup(v, parent.first, name) # None
         THEN Done(v, fat32_lookup(v, parent.first, name))
    ELSE fat32_create(v, parent.first, name, "file")
vfs_open(v, path) == OpenIn(v, vfs_resolve_path(v, path), path.name)

\* The inode is dirty when the write succeeded.
vfs_close(v, dirty) == IF dirty THEN fat32_sync(v) ELSE v

\* Bound: no path of rm, rmdir or a write goes through a regular file, whose
\* data the driver would read as a directory.
Direct(path) == vfs_resolve_path(vol, path).mode # "file"

\* vfs_write at the start or, with O_APPEND, at the end, and vfs_close.
\* Bound: the path does not name a directory, and the file stays small.
Closed(done) == vfs_close(done.vol, done.ok)
WriteOpened(open, len, append) ==
    LET pos == IF append /\ open.pos[1] \in OnDisk THEN FatPlace(open.vol, open.pos).size ELSE 0
    IN  /\ open.ok /\ open.pos[1] \in OnDisk => FatPlace(open.vol, open.pos).kind = "file"
        /\ pos + len <= MaxSize
        /\ vol' = IF open.ok THEN Closed(fat32_write(open.vol, open.pos, pos, len))
                  ELSE open.vol

WriteFile(path, len, append) ==
    Direct(path) /\ WriteOpened(vfs_open(vol, path), len, append)

cmd_touch(path) == vol' = vfs_create(vol, path, "file").vol
cmd_mkdir(path) == vol' = vfs_mkdir(vol, path).vol
\* cmd_rm and cmd_rmdir.
cmd_rm(path) == Direct(path) /\ vol' = vfs_unlink(vol, path).vol
\* cmd_write and echo >.
cmd_write(path, len) == WriteFile(path, len, FALSE)
\* echo >>.
cmd_echo(path, len) == WriteFile(path, len, TRUE)

\* What fat32_format and fat32_mount leave: the root directory in cluster 2 with
\* its two dot entries, and a free count that still includes cluster 2.
Formatted ==
    LET fat == [c \in Cluster |-> IF c = RootCluster THEN EOC ELSE FREE]
    IN  [fat |-> fat, free_count |-> LastOnDisk - 1, next_free |-> RootCluster + 1,
         dirty |-> FALSE,
         diskFat |-> fat, diskFree |-> LastOnDisk - 1, diskNext |-> RootCluster + 1,
         disk |-> [c \in OnDisk |-> IF c = RootCluster THEN DotEntries(2, 2)
                                    ELSE Blank]]

\* A volume on which another system has put a file of two clusters.
Imported(name) ==
    LET fat == [Formatted.fat EXCEPT ![3] = 4, ![4] = EOC]
    IN  [Formatted EXCEPT !.fat = fat, !.diskFat = fat,
                          !.free_count = LastOnDisk - 4, !.diskFree = LastOnDisk - 4,
                          !.next_free = 5, !.diskNext = 5,
                          !.disk[3] = Data, !.disk[4] = Data,
                          !.disk[2][3] = [Entry("file", name, 3) EXCEPT !.size = ClusterSize + 1]]

FatInit == vol \in {Formatted} \cup {Imported(n) : n \in {m \in Name : Render[m] = m}}

FatNext == \E path \in Path :
            \/ cmd_touch(path)
            \/ cmd_mkdir(path)
            \/ cmd_rm(path)
            \/ \E len \in TextSize : cmd_write(path, len) \/ cmd_echo(path, len)

FatSpec == FatInit /\ [][FatNext]_vol
-----------------------------------------------------------------------------

Slot == {Zero, Deleted, Text, Lfn(TRUE), Lfn(FALSE)} \cup
        [kind : {"file", "dir"}, name : Range(Render) \cup {".", ".."},
         first : {0} \cup Cluster, size : 0..MaxSize]

\* Every field of the driver's memory and of the device has its type.
TypeOK ==
    /\ \A f \in {vol.fat, vol.diskFat} : f \in [Cluster -> {FREE, EOC} \cup Cluster]
    /\ {vol.free_count, vol.diskFree} \subseteq 0..(Word - 1)
    /\ {vol.next_free, vol.diskNext} \subseteq Cluster
    /\ vol.dirty \in BOOLEAN
    /\ DOMAIN vol.disk = OnDisk
    /\ \A c \in OnDisk : \A i \in 1..Slots : vol.disk[c][i] \in Slot

\* The entries a listing shows, as slots: those of the root directory and those
\* of the directories in it.
FatLiveIn(v, d) ==
    {p \in Range(Visible(v, d)) : IsEntry(FatPlace(v, p)) /\ FatPlace(v, p).name \notin {".", ".."}}
Under(v, p) == IF FatPlace(v, p).kind = "dir" THEN FatLiveIn(v, FatPlace(v, p).first) ELSE {}
FatLive(v) == FatLiveIn(v, RootCluster) \cup UNION {Under(v, p) : p \in FatLiveIn(v, RootCluster)}

ChainOf(v, p) == Chain(v.fat, IF p = None THEN RootCluster ELSE FatPlace(v, p).first)

\* fat32_create, fat32_unlink and fat32_write keep the table sound: the chains of
\* the root directory and of all listed files and directories consist of
\* allocated clusters, have no cycle, and no two of them meet.
ChainsSound ==
    LET owners == {None} \cup FatLive(vol)
        chain  == [p \in owners |-> ChainOf(vol, p)]
    IN  /\ \A p \in owners :
             /\ Cardinality(Range(chain[p])) = Len(chain[p])
             /\ \A c \in Range(chain[p]) : vol.fat[c] # FREE
        /\ \A p, q \in owners : p # q => Range(chain[p]) \cap Range(chain[q]) = {}

\* The dirty flag is reliable: when fat32_sync or fat32_unmount would skip the
\* write, the FAT and the FSInfo sector on the device are the ones in memory.
CleanMeansOnDisk ==
    ~vol.dirty => /\ vol.diskFat = vol.fat
                  /\ vol.diskFree = vol.free_count
                  /\ vol.diskNext = vol.next_free

FatFreeClusters(v) == Cardinality({c \in Cluster : v.fat[c] = FREE})

\* Every command changes the FSInfo free count by exactly the number of clusters
\* it took from or gave back to the table, modulo the width of the counter, also
\* when it fails half way.
FreeCountFollows ==
    [][(vol'.free_count - vol.free_count - FatFreeClusters(vol') + FatFreeClusters(vol)) % Word = 0]_vol

\* The search of fat32_alloc_cluster, which starts at the hint and wraps, gives
\* up only when no cluster of the table is free.
AllocComplete ==
    fat32_alloc_cluster(vol).got = 0 <=> \A c \in Cluster : vol.fat[c] # FREE

\* The existence test of fat32_create works for a name in 8.3 lower case that no
\* other name renders to: no directory lists it twice.
UniqueNames ==
    \A n \in Name : Render[n] = n /\ (\A m \in Name : Render[m] = n => m = n) =>
        \A d \in {RootCluster} \cup {FatPlace(vol, p).first : p \in FatLiveIn(vol, RootCluster)} :
            Cardinality({p \in FatLiveIn(vol, d) : FatPlace(vol, p).name = n}) <= 1

\* An entry as a user knows it: where it is, its name, kind and contents.
FatListed(v) == {<<p, FatPlace(v, p).name, FatPlace(v, p).kind, FatPlace(v, p).first>> : p \in FatLive(v)}
Lost == FatListed(vol) \ FatListed(vol')
Gained == FatListed(vol') \ FatListed(vol)
LongSlots(v) == {p \in OnDisk \X (1..Slots) : FatPlace(v, p).kind \in {"lfn", "lfnlast"}}

\* One entry and what was under it is gone.
OneRemoved ==
    Gained = {} /\ \E e \in Lost : \A f \in Lost \ {e} : f[1] \in Under(vol, e[1])

\* fat32_create writes free directory slots only and fat32_unlink removes one
\* entry: a command that lists something new unlists nothing, and what a removal
\* unlists is one entry and what was under it.  So for every command that creates
\* no long name; a long one may overwrite the slots after the free one it found.
ShortNamesKeepOthers ==
    [][LongSlots(vol') \subseteq LongSlots(vol) => Lost = {} \/ OneRemoved]_vol

\* A file's size in its directory entry is what can be read: the chain of the
\* entry has room for it (fat32_read fails or stops where the chain ends).
SizeCovered ==
    \A p \in FatLive(vol) : FatPlace(vol, p).kind = "file" =>
        FatPlace(vol, p).size <= Len(ChainOf(vol, p)) * ClusterSize

\* After every command the volume in memory has all of this.
VolumeSound == TypeOK /\ ChainsSound /\ AllocComplete /\ UniqueNames

\* A command changes the listing and the free count by what it was asked, and by
\* nothing else.
OnlyWhatWasAsked == ShortNamesKeepOthers /\ FreeCountFollows
=============================================================================
