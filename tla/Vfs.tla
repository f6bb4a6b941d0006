-------------------------------- MODULE Vfs --------------------------------
(***************************************************************************)
(* The inode life cycle of the VFS (fs/vfs.c): reference counts, mounting, *)
(* path walks with mount points and "..", under the commands cd, ls, cat   *)
(* and mount (kernel/cmd/filesystem.c), the search for the root volume     *)
(* (kernel/findroot.c, kernel/cmd/root.c), and the parts of devfs, procfs, *)
(* fat32 and exfat that hand out inodes.                                   *)
(*                                                                         *)
(* An inode is a slot of ino; ref = 0 is an inode that was never made or   *)
(* has been freed.  A slot nothing points to is free for the next inode: a *)
(* leaked inode disappears from the model.  Every volume holds the same    *)
(* chain of directories, one at each depth, and a directory is known by    *)
(* its depth, 0 being the root directory.  /dev holds the directory blk,   *)
(* which holds one block device; version stands for the files of /proc.    *)
(***************************************************************************)
EXTENDS Integers, Sequences, FiniteSets, SequencesExt

CONSTANTS
    VfsDisks,     \* the number of disks that hold a volume
    ExfatDisks,   \* those formatted as exFAT; only this driver has an unmount
    Depth,        \* the depth of the deepest directory
    MaxInodes, \* bound on the inodes in use at once
    VfsPaths,     \* the paths the user types, as sequences of components
    MaxVfsOps     \* bound on the commands between two boots

DEV == 1
BLK == 2
PROC == 3
SATA == 4
Static == {DEV, BLK, PROC, SATA}
Ids == 1..MaxInodes

\* vfs: the kernel's memory; marked: the disks with a .root file.
VARIABLES vfs, marked

vfsVars == <<vfs, marked>>

\* kind: the driver's operations; vol: the root inode of the volume, disk: its
\* disk; node and up: first_cluster and parent_cluster; named: dir_cluster # 0.
Inode(kind, vol, disk, node, up, named) ==
    [ref |-> 1, kind |-> kind, vol |-> vol, disk |-> disk, node |-> node,
     up |-> up, named |-> named]
NoInode == [Inode("none", 0, 0, 0, 0, FALSE) EXCEPT !.ref = 0]

\* What devfs_init and procfs_init leave.  The block device's inode is made by
\* the first lookup.
devfs_create_dir(name) == Inode(name, 0, 0, 0, 0, TRUE)
procfs_init == Inode("proc", 0, 0, 0, 0, TRUE)
InodeTable ==
    [i \in Ids |-> CASE i = DEV -> devfs_create_dir("dev")
                     [] i = BLK -> devfs_create_dir("blk")
                     [] i = PROC -> procfs_init
                     [] OTHER -> NoInode]
NoMnt == 0
PoweredOff ==
    [ino |-> InodeTable, root_inode |-> 0, fs_root |-> 0, current_dir |-> 0,
     mnt |-> NoMnt, mounted |-> <<>>, candidates |-> <<>>, current_root |-> 0,
     sata |-> "none", dead |-> {}, ops |-> 0,
     unpaid |-> {}, rechosen |-> FALSE, up |-> FALSE, fault |-> ""]

\* The pointers that outlive a command.
Holders(v) == {v.root_inode, v.fs_root, v.current_dir, v.mnt, v.current_root}
              \cup Range(v.mounted) \cup Static
Live(v, i) == i # 0 /\ v.ino[i].ref > 0
Fault(v, what) == [v EXCEPT !.fault = IF @ = "" THEN what ELSE @]

\* A read through a pointer.
Deref(v, i) ==
    IF i = 0 THEN Fault(v, "null")
    ELSE IF ~Live(v, i) THEN Fault(v, "freed inode")
    ELSE IF v.ino[i].vol \in v.dead THEN Fault(v, "freed volume")
    ELSE v

vfs_inode_ref(v, i) == IF Live(v, i) THEN [v EXCEPT !.ino[i].ref = @ + 1] ELSE v

\* The last reference frees the inode and its i_private; for the block device
\* that is the entry in the list of /dev/blk.
vfs_inode_unref(v, i) ==
    IF i = 0 THEN v
    ELSE IF ~Live(v, i) THEN Fault(v, "freed inode")
    ELSE [v EXCEPT !.ino[i].ref = @ - 1,
                   !.sata = IF i = SATA /\ v.ino[i].ref = 1 THEN "freed" ELSE @]

\* An inode from vfs_alloc_inode, in a slot nothing points to.
UnusedSlots(v, cur) == {i \in Ids \ (Holders(v) \cup {cur}) : v.ino[i].ref = 0}
vfs_alloc_inode(v, cur, inode) ==
    [vol |-> [v EXCEPT !.ino[Min(UnusedSlots(v, cur))] = inode],
     got |-> Min(UnusedSlots(v, cur))]

\* An inode that nothing points to is leaked: its slot can be used again.
Swept(v) ==
    [v EXCEPT !.ino = [i \in Ids |-> IF i \in Holders(v) THEN @[i] ELSE NoInode],
              !.unpaid = @ \cap Holders(v),
              !.dead = {d \in @ : \E i \in Holders(v) \ {0} : v.ino[i].vol = d}]

\* ok: the walk goes on; cur: the inode it has reached.  unpaid collects the
\* inodes that were returned without a reference taken for the caller.
At(v, cur, ok) == [v |-> v, cur |-> cur, ok |-> ok]
Unpaid(v, i) == [v EXCEPT !.unpaid = @ \cup ({i} \ {0})]

-----------------------------------------------------------------------------

\* fat32_parent, exfat_parent: the root directory is its own parent, and no
\* reference is taken; else a fresh inode, which takes the root for its parent.
ParentUp_Root(inode) == 0
ParentUp(inode) == inode.up
VolumeParent(v, i) ==
    IF v.ino[i].node = 0 THEN At(Unpaid(v, i), i, TRUE)
    ELSE LET a == vfs_alloc_inode(v, i, [v.ino[i] EXCEPT !.ref = 1, !.up = 0,
                                           !.node = ParentUp(v.ino[i]), !.named = FALSE])
         IN  At(a.vol, a.got, TRUE)

\* devfs_parent takes no reference; procfs_parent is the root of procfs, for
\* that root itself as well, and takes one.
parent_inode(v, i) == CASE i = DEV -> v.root_inode [] i = BLK -> DEV [] i = SATA -> BLK
devfs_parent(v, i) == At(Unpaid(v, parent_inode(v, i)), parent_inode(v, i), TRUE)
procfs_parent(v) == At(vfs_inode_ref(v, PROC), PROC, TRUE)

get_parent_inode(v, i) ==
    IF i = v.root_inode THEN At(vfs_inode_ref(v, i), i, TRUE)
    ELSE CASE i \in {DEV, BLK, SATA} -> devfs_parent(v, i)
           [] v.ino[i].kind \in {"proc", "procfile"} -> procfs_parent(v)
           [] OTHER -> VolumeParent(v, i)

\* Whether vfs_build_path makes "/" of an inode.  A name that cannot be found is
\* left out of the path, so every inode made by VolumeParent passes for the root.
vfs_build_path_root(v, cur) ==
    ~(cur # 0 /\ v.ino[cur].kind \in {"vol", "procfile"} /\ v.ino[cur].named)
    /\ cur \notin Static

\* check_mount_points on the path of cur and the component.
MountAt(v, cur, comp) ==
    IF ~vfs_build_path_root(v, cur) THEN 0
    ELSE CASE comp = "dev" -> DEV [] comp = "proc" -> PROC
           [] comp = "mnt" -> v.mnt [] OTHER -> 0

\* The drivers' lookup: a fresh inode on a volume, the one shared inode, with
\* no reference taken, in devfs.
VolumeLookup(v, i) ==
    LET a == vfs_alloc_inode(v, i, [v.ino[i] EXCEPT !.ref = 1, !.node = @ + 1,
                                      !.up = v.ino[i].node, !.named = TRUE])
    IN  At(a.vol, a.got, TRUE)
devfs_lookup(v, i, comp) ==
    CASE i = DEV /\ comp = "blk" -> At(Unpaid(v, BLK), BLK, TRUE)
      [] i = BLK /\ comp = "sata" /\ v.sata = "none" ->
           At([v EXCEPT !.ino[SATA] = Inode("sata", 0, 0, 0, 0, TRUE), !.sata = "made",
                        !.unpaid = @ \cup {SATA}], SATA, TRUE)
      [] i = BLK /\ comp = "sata" /\ v.sata = "made" -> At(Unpaid(v, SATA), SATA, TRUE)
      [] i = BLK /\ v.sata = "freed" -> At(Fault(v, "freed inode"), i, FALSE)
      [] OTHER -> At(v, i, FALSE)
\* procfs_lookup makes a fresh inode.  A file's i_private is not an entry of the
\* tree, and a lookup in it follows whatever lies behind it.
procfs_lookup(v, i, comp) ==
    IF i # PROC THEN At(Fault(v, "not an entry"), i, FALSE)
    ELSE IF comp # "version" THEN At(v, i, FALSE)
    ELSE LET a == vfs_alloc_inode(v, i, Inode("procfile", 0, 0, 0, 0, TRUE))
         IN  At(a.vol, a.got, TRUE)
Lookup(v, i, comp) ==
    CASE v.ino[i].kind \in {"dev", "blk"} -> devfs_lookup(v, i, comp)
      [] v.ino[i].kind \in {"proc", "procfile"} -> procfs_lookup(v, i, comp)
      [] v.ino[i].kind = "vol" /\ comp = "d" /\ v.ino[i].node < Depth -> VolumeLookup(v, i)
      [] OTHER -> At(v, i, FALSE)

\* From cur to next, whose reference the callee took or did not take.
Moved(from, s) ==
    IF s.ok THEN At(vfs_inode_unref(s.v, from), s.cur, TRUE)
    ELSE At(vfs_inode_unref(s.v, from), from, FALSE)

\* One component of vfs_walk.
Step(s, comp, v) ==
    IF comp = "." THEN s
    ELSE IF comp = ".." /\ s.cur = 0 THEN At(s.v, 0, FALSE)
    ELSE IF comp # ".." /\ MountAt(s.v, s.cur, comp) # 0
            /\ (s.cur # s.v.root_inode => v.fault = "")
         THEN Moved(s.cur, At(vfs_inode_ref(s.v, MountAt(s.v, s.cur, comp)),
                              MountAt(s.v, s.cur, comp), TRUE))
    ELSE IF v.fault # "" THEN At(v, s.cur, FALSE)
    ELSE Moved(s.cur, IF comp = ".." THEN get_parent_inode(v, s.cur)
                      ELSE Lookup(v, s.cur, comp))
WalkStep(s, comp) ==
    IF ~s.ok \/ s.v.fault # "" THEN s ELSE Step(s, comp, Deref(s.v, s.cur))

\* An empty path is the root, whatever volume was mounted last.
vfs_walk(v, dir, path) ==
    IF path = <<>> THEN At(vfs_inode_ref(v, v.root_inode), v.root_inode, TRUE)
    ELSE FoldLeft(WalkStep, At(vfs_inode_ref(Deref(v, dir), dir), dir, TRUE), path)

-----------------------------------------------------------------------------

Running == vfs.up /\ vfs.fault = "" /\ vfs.ops < MaxVfsOps
Command(v) == vfs' = Swept([v EXCEPT !.ops = @ + 1])

\* cmd_cd.  The old directory's reference is dropped unless it is the root of
\* the volume or of devfs; update_current_path reads the new one.
DropCwd_Root(v) == IF v.current_dir = DEV THEN v ELSE vfs_inode_unref(v, v.current_dir)
DropCwd(v) ==
    IF v.current_dir \in {v.fs_root, DEV} THEN v ELSE vfs_inode_unref(v, v.current_dir)
ChangeTo(v, new) ==
    IF v.fault # "" THEN v
    ELSE IF v.ino[new].kind \in {"sata", "procfile"} THEN vfs_inode_unref(v, new)
    ELSE Deref([DropCwd(v) EXCEPT !.current_dir = new], new)
cmd_cd(path) ==
    LET s == vfs_walk(vfs, vfs.current_dir, path)
    IN  /\ Running /\ vfs.fs_root # 0
        /\ Command(IF s.ok /\ s.v.fault = "" THEN ChangeTo(Deref(s.v, s.cur), s.cur)
                   ELSE s.v)
        /\ UNCHANGED marked

\* cd without an argument.
cmd_cd_home ==
    /\ Running /\ vfs.fs_root # 0
    /\ Command(ChangeTo(Deref(vfs_inode_ref(vfs, vfs.fs_root), vfs.fs_root), vfs.fs_root))
    /\ UNCHANGED marked

\* cmd_ls.  devfs_readdir visits every entry of the directory; the inodes that
\* cmd_ls looks up for the sizes of files are given back at once.
devfs_readdir(v, i) == IF i = BLK /\ v.sata = "freed" THEN Fault(v, "freed inode") ELSE v
vfs_readdir(v, i) == IF v.fault = "" THEN devfs_readdir(Deref(v, i), i) ELSE v
GiveBack(v, target) ==
    IF v.fault # "" \/ target \in {v.current_dir, v.fs_root} THEN v
    ELSE vfs_inode_unref(v, target)
Listed(v, target) == GiveBack(vfs_readdir(v, target), target)
cmd_ls(start, path) ==
    LET s == vfs_walk(vfs, start, path)
    IN  /\ Running /\ vfs.fs_root # 0
        /\ Command(IF s.ok /\ s.v.fault = "" THEN Listed(Deref(s.v, s.cur), s.cur)
                   ELSE s.v)
        /\ UNCHANGED marked

\* The i_private of /proc is an entry of the tree, and procfs_read calls what its
\* name spells.
procfs_read(v, i) == IF i = PROC THEN Fault(v, "not a function") ELSE v
CloseCat(v, i) == IF v.fault # "" THEN v ELSE vfs_inode_unref(v, i)

\* cmd_cat: vfs_open, vfs_read and vfs_close, also on a directory.
cmd_cat(path) ==
    LET s == vfs_walk(vfs, vfs.current_dir, path)
    IN  /\ Running /\ vfs.fs_root # 0
        /\ Command(IF s.ok /\ s.v.fault = "" /\ s.cur # 0
                   THEN CloseCat(procfs_read(Deref(s.v, s.cur), s.cur), s.cur)
                   ELSE s.v)
        /\ UNCHANGED marked

-----------------------------------------------------------------------------

\* vfs_mount: a new root inode, which becomes root_inode; one reference for the
\* caller and one for root_inode.
RootOf(i, disk) == [Inode("vol", i, disk, 0, 0, FALSE) EXCEPT !.ref = 2]
MountOn(v, disk, i) == [v EXCEPT !.ino[i] = RootOf(i, disk), !.root_inode = i]
vfs_mount(v, disk) == MountOn(v, disk, Min(UnusedSlots(v, 0)))

\* vfs_unmount.  exfat_unmount_fs frees the volume under the root inode.
vfs_unmount(v, i) ==
    [vfs_inode_unref(v, i) EXCEPT
        !.dead = @ \cup IF v.ino[i].disk \in ExfatDisks THEN {i} ELSE {},
        !.root_inode = 0]

\* cmd_mount, and cmd_format after the formatting.  The old volume is unmounted
\* after the new one has been mounted.
Switched(v, root) == [v EXCEPT !.fs_root = root, !.current_dir = root]
MountOver(v, root) ==
    Switched(IF v.fs_root = 0 THEN v ELSE vfs_unmount(v, v.fs_root), root)
cmd_mount(disk) ==
    /\ Running
    /\ UnusedSlots(vfs, 0) # {}
    /\ Command(MountOver(vfs_mount(vfs, disk), Min(UnusedSlots(vfs, 0))))
    /\ UNCHANGED marked

\* cmd_part_mount: a volume at /mnt, which is root_inode from then on.
cmd_part_mount(disk) ==
    /\ Running /\ vfs.mnt = NoMnt
    /\ Command([vfs_mount(vfs, disk) EXCEPT !.mnt = Min(UnusedSlots(vfs, 0))])
    /\ UNCHANGED marked

-----------------------------------------------------------------------------

\* scan_mounted_filesystems and collect_root_candidates.  With exactly one
\* marked volume that one is the root.
Scanned == FoldLeft(vfs_mount, PoweredOff, [d \in 1..VfsDisks |-> d])
RootAt(v, d) == CHOOSE i \in Ids : v.ino[i].vol = i /\ v.ino[i].disk = d
WithCandidates(v) ==
    [v EXCEPT !.mounted = [d \in 1..VfsDisks |-> RootAt(v, d)],
              !.candidates = SelectSeq([d \in 1..VfsDisks |-> RootAt(v, d)],
                                       LAMBDA i : v.ino[i].disk \in marked),
              !.up = TRUE]
findroot_scan_and_mount(v) ==
    IF Len(v.candidates) # 1 THEN v
    ELSE [Switched(v, v.candidates[1]) EXCEPT !.current_root = v.candidates[1]]

\* Power on, or a reboot after which only the markers are left.
Boot ==
    /\ vfs' = findroot_scan_and_mount(WithCandidates(Scanned))
    /\ UNCHANGED marked

\* The disks as they come to the machine.
Insert(ds) == ~vfs.up /\ marked = {} /\ marked' = ds /\ UNCHANGED vfs

\* A .root file removed from, or made on, a volume of the table findroot keeps.
Used(v, is) == FoldLeft(Deref, v, SetToSeq(is))
DisksOf(v, is) == {v.ino[i].disk : i \in is}

\* findroot_switch_to, the assignments of the command, and its ls of the root.
SwitchTo(v, i, again) ==
    Command(Deref([Switched(vfs_inode_ref(v, i), i) EXCEPT
                     !.current_root = i, !.rechosen = again], i))

\* cmd_setroot: findroot_set_root removes every marker and makes one.
Remarked_Keep(target) == marked \cup target
Remarked(target) == target
cmd_setroot(k) ==
    LET v == Used(vfs, Range(vfs.mounted))
        i == vfs.mounted[k]
    IN  /\ Running
        /\ IF v.fault # "" THEN Command(v) /\ UNCHANGED marked
           ELSE /\ SwitchTo(v, i, FALSE)
                /\ marked' = Remarked(DisksOf(v, {i}))

\* cmd_chooseroot: findroot_choose_root removes the markers of the candidates
\* found at boot, but for the chosen one, and makes none.
cmd_chooseroot(k) ==
    LET i == vfs.candidates[k]
        others == Range(vfs.candidates) \ {i}
        v == Used(vfs, others)
    IN  /\ Running
        /\ IF v.fault # "" THEN Command(v) /\ UNCHANGED marked
           ELSE /\ SwitchTo(v, i, vfs.current_root # 0)
                /\ marked' = marked \ DisksOf(v, others)

VfsInit == vfs = PoweredOff /\ marked = {}

VfsNext ==
    \/ \E ds \in SUBSET (1..VfsDisks) : Insert(ds)
    \/ Boot
    \/ \E path \in VfsPaths :
          \/ cmd_cd(path)
          \/ \E start \in {vfs.current_dir, vfs.fs_root} : cmd_ls(start, path)
          \/ cmd_cat(path)
    \/ cmd_cd_home
    \/ \E disk \in 1..VfsDisks : cmd_mount(disk) \/ cmd_part_mount(disk)
    \/ \E k \in DOMAIN vfs.mounted : cmd_setroot(k)
    \/ \E k \in DOMAIN vfs.candidates : cmd_chooseroot(k)

-----------------------------------------------------------------------------

\* A pointer the kernel keeps is to an inode that has not been freed, unless
\* that inode was once handed out without a reference: by the parent operation
\* of a root directory, by devfs_lookup or by devfs_parent.  Everywhere else
\* vfs_inode_ref and vfs_inode_unref balance.
PointersAlive ==
    \A i \in Holders(vfs) \ ({0, SATA} \cup vfs.unpaid) : Live(vfs, i)

\* The working directory and the root are on a volume whose driver data still
\* exists, although cmd_mount frees the old volume and findroot's tables keep
\* pointing at it.
ShellOnLiveVolume ==
    vfs.fault = "" => \A i \in {vfs.fs_root, vfs.current_dir} \ {0} :
                         Live(vfs, i) => vfs.ino[i].vol \notin vfs.dead

\* The root chosen by boot, setroot or chooseroot is the root of the next boot:
\* its disk is the only marked one.  Excepted is chooseroot after an earlier
\* choice, which works on the candidates found at boot.
RootPersists ==
    vfs.up /\ vfs.current_root # 0 /\ ~vfs.rechosen =>
        marked = {vfs.ino[vfs.current_root].disk}

\* ".." leads out of a directory the way the walk came in, if the directory was
\* entered by its name (exfat_lookup records the parent, exfat_parent uses it).
DotDotGoesUp ==
    [][cmd_cd(<<"..">>) =>
         LET here == vfs.ino[vfs.current_dir]
             there == vfs'.ino[vfs'.current_dir]
         IN  vfs'.fault = "" /\ here.kind = "vol" /\ here.named =>
               there.kind = "vol" /\ there.node = here.node - 1]_vfsVars

\* The shell, the mounts and the tables of findroot refer to what still exists.
VfsSound == PointersAlive /\ ShellOnLiveVolume
=============================================================================
