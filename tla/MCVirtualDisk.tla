---------------------------- MODULE MCVirtualDisk -----------------------------
(***************************************************************************)
(* Small disks for TLC.  States that differ only in what no command looks  *)
(* at are identified: the fields of free inodes, which are all assigned    *)
(* when the inode is used again; what blocks hold that are free or belong  *)
(* to files, which is written over before it could be read as entries; the *)
(* saved metadata, which are read while they equal those in memory; and    *)
(* the sizes of directories and used, which only add up, but for the       *)
(* difference that is shown.  Where bytes are taken away from directories, *)
(* or files are entered, sizes, first blocks and the blocks of files are   *)
(* read: no VIEW then.                                                     *)
(***************************************************************************)
EXTENDS VirtualDisk, TLC

CONSTANTS x, y

MCNames == {x, y}
AllFit == SUBSET MCNames
OneFits == {named \in AllFit : Cardinality(named) <= 1}
Symmetric == Permutations(MCNames)

Looked ==
  <<mem.files, ShownMetaDataSize, mem.iused, mem.bused,
    [i \in mem.iused |->
       [mem.inode[i] EXCEPT !.size = IF mem.inode[i].dir THEN 0 ELSE @]],
    disk = mem,
    [b \in {BlockOf(i) : i \in Directories} |-> content[b]],
    cwd, calls>>

=============================================================================
