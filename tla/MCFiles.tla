------------------------------ MODULE MCFiles ------------------------------
(***************************************************************************)
(* Small instances of the VFS and of the exFAT and FAT32 drivers.  They    *)
(* share no state, so a behaviour follows one of them, the one in focus.   *)
(* For FAT32 "a" is its own 8.3 form; "long" stands for a name of more     *)
(* than twelve characters, which gets one long-name slot and whose 8.3     *)
(* entry prints as its cut-off form.                                       *)
(***************************************************************************)
EXTENDS Vfs, ExFat, Fat32

MCName == {"a", "b", "long"}
MCPair == {"a", "long"}
MCRender == ("b" :> "b") @@ ("a" :> "a") @@ ("long" :> "cut")
MCLfnSlots == ("b" :> 0) @@ ("a" :> 0) @@ ("long" :> 1)

VARIABLE focus

vars == <<focus, vfsVars, exf, vol>>

Paths == {<<>>, <<"d">>, <<"..">>, <<"d", "d">>, <<"dev", "blk">>, <<"sata">>,
          <<"mnt">>, <<"proc">>, <<"..", "..">>, <<".">>, <<"proc", "version">>,
          <<"version", "d">>}

Init ==
    /\ focus \in {"vfs", "exfat", "fat32"}
    /\ VfsInit /\ ExfatInit /\ FatInit
    /\ focus # "fat32" => vol = Formatted

Next ==
    /\ UNCHANGED focus
    /\ \/ focus = "vfs" /\ VfsNext /\ UNCHANGED <<exf, vol>>
       \/ focus = "exfat" /\ ExfatNext /\ UNCHANGED <<vfsVars, vol>>
       \/ focus = "fat32" /\ FatNext /\ UNCHANGED <<vfsVars, exf>>

Spec == Init /\ [][Next]_vars
=============================================================================
