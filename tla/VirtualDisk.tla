----------------------------- MODULE VirtualDisk ------------------------------
(***************************************************************************)
(* Lab 6: a file system in one file of the host.  The program keeps the    *)
(* superblock, the table of inodes and the two bitmaps in memory, changes  *)
(* them there and saves all of them at the end of an operation, while the  *)
(* blocks of directories and files are written as it goes.  Every command  *)
(* of the menu is an action; the recursive deletion of a directory is one  *)
(* action per call and per return, on an explicit stack.  When the disk is *)
(* full an exception ends the program; the next run loads what is saved.   *)
(* So it is when a block is read as a directory that holds a file's data,  *)
(* which commands given to the wrong kind of name make possible: the code  *)
(* checks few of them, and Usage says which of them users give.            *)
(***************************************************************************)
EXTENDS Integers, Sequences, FiniteSets

CONSTANTS
  LastINode,     \* numberOfINodes - 1 (99)
  LastBlock,     \* numberOfDataBlocks - 1
  Names,         \* names of files and directories
  DataBlockSize, \* in bytes (2048)
  DirectBlocks,  \* length of directDataBlocks (8)
  Word,          \* number of values of an unsigned int (2^32)
  MetaDataSize,  \* bytes of the superblock, the inodes and the bitmaps
  Fitting,       \* sets of names whose entries fit one data block
  Usage,         \* what users do besides the plain commands; see Usages
  DATA           \* content of a block of a file

INodes == 0..LastINode
Blocks == 0..LastBlock
EntryMaps == UNION {[named -> INodes] : named \in Fitting}
MaxSize == DirectBlocks * DataBlockSize - 1  \* bound of the size of a file

\* Hard links to files and to directories; a name that exists is given to
\* something new, which replaces its entry and frees nothing; bytes are added
\* to or taken away from a directory; a file is entered as a directory, by
\* command 11 or in the path of a hard link; a directory gets more entries
\* than its block holds.
Usages == {"filelink", "dirlink", "samename", "resizedir", "enterfile", "fulldir"}

ASSUME DiskAssumption ==
  /\ LastINode \in Nat /\ LastBlock \in Nat
  /\ DataBlockSize \in Nat \ {0} /\ DirectBlocks \in Nat \ {0}
  /\ MetaDataSize \in Nat /\ IsFiniteSet(Names)
  /\ Word \in Nat /\ Word > MaxSize
  /\ Word > MetaDataSize + (LastBlock + 1) * DataBlockSize
  /\ Usage \subseteq Usages
  /\ {} \in Fitting /\ Fitting \subseteq SUBSET Names
  /\ \A named \in Fitting : SUBSET named \subseteq Fitting
  /\ DATA \notin UNION {[named -> INodes] : named \in SUBSET Names}

VARIABLES
  mem,      \* superblock, inodes and bitmaps in memory
  disk,     \* the same as last saved
  content,  \* blocks on the disk: the entries of a directory, or DATA
  cwd,      \* currentINodeNumber
  calls     \* pending calls of deleteDirectoryRecursively

vars == <<mem, disk, content, cwd, calls>>

NoEntries == [n \in {} |-> 0]

UnusedINode == [dir |-> FALSE, blocks |-> << >>, size |-> 0, links |-> 0,
                parent |-> 0]

\* A faulty variant: every directory gets home as its parent.
DirectoryINodeInHome(b, parent) ==
  [dir |-> TRUE, blocks |-> <<b>>, size |-> DataBlockSize, links |-> 1,
   parent |-> 0]

DirectoryINode(b, parent) ==
  [dir |-> TRUE, blocks |-> <<b>>, size |-> DataBlockSize, links |-> 1,
   parent |-> parent]

\* The constructor has made a new disk, with home as inode 0.
Init ==
  /\ mem = [files |-> 1, used |-> MetaDataSize + DataBlockSize,
            inode |-> [i \in INodes |->
                         IF i = 0 THEN DirectoryINode(0, 0) ELSE UnusedINode],
            first |-> [i \in INodes |-> 0],
            iused |-> {0}, bused |-> {0}]
  /\ disk = mem
  /\ content = [b \in Blocks |-> NoEntries]
  /\ cwd = 0
  /\ calls = << >>

-----------------------------------------------------------------------------
(* Reading *)

\* readDirectoryDataBlock of directDataBlocks[0], whether it is used or not.
BlockOf(i) == IF mem.inode[i].blocks = << >> THEN mem.first[i]
              ELSE mem.inode[i].blocks[1]
Entries(i) == content[BlockOf(i)]
Readable(i) == Entries(i) # DATA
Named(n) == Readable(cwd) /\ n \in DOMAIN Entries(cwd)
IsFile(n) == Named(n) /\ ~ mem.inode[Entries(cwd)[n]].dir

\* The blocks of a file, or the inodes that a directory names.
Elements(f) == {f[j] : j \in DOMAIN f}

FreeINodes == INodes \ mem.iused
FreeBlocks == Blocks \ mem.bused

\* findFirstFreeBlock, called k times with the bit set after each.
FirstFree(free, k) ==
  [j \in 1..k |-> CHOOSE b \in free :
                    Cardinality({c \in free : c < b}) = j - 1]

\* All that a path from home leads to; the type of what it passes is not
\* checked.
Passed(i) == Readable(i) /\ (mem.inode[i].dir \/ "enterfile" \in Usage)
Reachable ==
  LET reach[k \in 0..(LastINode + 1)] ==
        IF k = 0 THEN {0}
        ELSE LET before == reach[k - 1]
             IN  before \cup UNION {Elements(Entries(i)) :
                                      i \in {j \in before : Passed(j)}}
  IN  reach[LastINode + 1]

\* What copyFileToSystemDisk writes: whole blocks, and the remainder of the
\* size for the last block.
CopiedBytes(i) ==
  IF mem.inode[i].blocks = << >> THEN 0
  ELSE (Len(mem.inode[i].blocks) - 1) * DataBlockSize
         + (mem.inode[i].size % DataBlockSize)

\* "Metadata size" of showDiskUsage.
ShownMetaDataSize == (mem.used - mem.inode[0].size) % Word

-----------------------------------------------------------------------------
(* Changes of the metadata *)

Added(entries, n, i) ==
  [m \in DOMAIN entries \cup {n} |-> IF m = n THEN i ELSE entries[m]]
Erased(entries, n) == [m \in DOMAIN entries \ {n} |-> entries[m]]

\* A faulty variant: home is not updated.
GrownBelowHome(m, i, delta) ==
  LET up[j \in INodes] == IF j = 0 THEN {} ELSE {j} \cup up[m.inode[j].parent]
  IN  [m EXCEPT !.inode = [j \in INodes |->
         IF j \in up[i] THEN [m.inode[j] EXCEPT !.size = (@ + delta) % Word]
         ELSE m.inode[j]]]

\* updateParentsDirectory: directory i and those above it grow.
Grown(m, i, delta) ==
  LET up[j \in INodes] == IF j = 0 THEN {0} ELSE {j} \cup up[m.inode[j].parent]
  IN  [m EXCEPT !.inode = [j \in INodes |->
         IF j \in up[i] THEN [m.inode[j] EXCEPT !.size = (@ + delta) % Word]
         ELSE m.inode[j]]]

\* A faulty variant: the bitmap of the data blocks is not written.
SaveWithoutBitmap(m, delta, newFiles) ==
  /\ mem' = [m EXCEPT !.used = (@ + delta) % Word,
                      !.files = (@ + newFiles) % Word]
  /\ disk' = [mem' EXCEPT !.bused = disk.bused]

\* updateMetaData: the superblock is updated, and all is saved.
Save(m, delta, newFiles) ==
  /\ mem' = [m EXCEPT !.used = (@ + delta) % Word,
                      !.files = (@ + newFiles) % Word]
  /\ disk' = mem'

\* writeDirectoryDataBlock: entries that do not fit go on in the next block.
Written(b, entries) ==
  LET own == [content EXCEPT ![b] = entries]
  IN  IF DOMAIN entries \in Fitting THEN own ELSE [own EXCEPT ![b + 1] = DATA]

\* A new inode with its blocks, in memory.  When all of them are taken away
\* directDataBlocks[0] still has the number of the first.
Allocated(i, inode) ==
  [mem EXCEPT !.inode[i] = inode,
              !.first[i] = IF inode.blocks = << >> THEN @ ELSE inode.blocks[1],
              !.iused = @ \cup {i},
              !.bused = @ \cup Elements(inode.blocks)]

\* A faulty variant: the blocks are freed though another name is left.
FileUnlinkedAtOnce(i) ==
  LET last == mem.inode[i].links = 1
  IN  [mem EXCEPT !.inode[i].links = @ - 1,
                  !.iused = IF last THEN @ \ {i} ELSE @,
                  !.bused = @ \ Elements(mem.inode[i].blocks)]

\* A name of a file is removed, and with the last one the file.
FileUnlinked(i) ==
  LET last == mem.inode[i].links = 1
  IN  [mem EXCEPT !.inode[i].links = @ - 1,
                  !.iused = IF last THEN @ \ {i} ELSE @,
                  !.bused = IF last THEN @ \ Elements(mem.inode[i].blocks) ELSE @]

\* The program ends, by command 13 or by an exception, and is run again.
Reload ==
  /\ mem' = disk /\ cwd' = 0 /\ calls' = << >>
  /\ UNCHANGED disk

-----------------------------------------------------------------------------
(* The commands *)

Menu == calls = << >>

\* n may be added to the entries of the current directory.
MayBeGiven(n) ==
  /\ Readable(cwd)
  /\ Named(n) => "samename" \in Usage
  /\ DOMAIN Entries(cwd) \cup {n} \notin Fitting => "fulldir" \in Usage

NewFileBlocks(size) == (size + DataBlockSize - 1) \div DataBlockSize

EntryAdded(n, i) == Written(BlockOf(cwd), Added(Entries(cwd), n, i))

\* A faulty variant: a new directory finds what its block held before.
NotFilled(c, b) == c

ZeroFilled(c, b) == [c EXCEPT ![b] = NoEntries]

createDirectory(n) ==
  /\ Menu /\ MayBeGiven(n)
  /\ FreeINodes # {} /\ FreeBlocks # {}
  /\ LET i == FirstFree(FreeINodes, 1)[1]
         b == FirstFree(FreeBlocks, 1)[1]
     IN  /\ Save(Grown(Allocated(i, DirectoryINode(b, cwd)), cwd, DataBlockSize),
                 DataBlockSize, 1)
         /\ content' = ZeroFilled(EntryAdded(n, i), b)
  /\ UNCHANGED <<cwd, calls>>

\* "Works if only file < 8 * DataBlockSize".  The entries of the current
\* directory are read after the blocks have been written.
copyFileFromSystemDisk(n, size) ==
  /\ Menu /\ MayBeGiven(n)
  /\ FreeINodes # {} /\ NewFileBlocks(size) <= Cardinality(FreeBlocks)
  /\ LET i      == FirstFree(FreeINodes, 1)[1]
         blocks == FirstFree(FreeBlocks, NewFileBlocks(size))
         inode  == [dir |-> FALSE, blocks |-> blocks, size |-> size,
                    links |-> 1, parent |-> cwd]
     IN  /\ BlockOf(cwd) \notin Elements(blocks)
         /\ Save(Grown(Allocated(i, inode), cwd, size), size, 1)
         /\ content' = [b \in Blocks |-> IF b \in Elements(blocks) THEN DATA
                                         ELSE EntryAdded(n, i)[b]]
  /\ UNCHANGED <<cwd, calls>>

\* "No free blocks available" ends the program: before anything is written
\* if inodes have run out or a directory was to be created or a file to be
\* extended, after all free blocks have been written if a file was copied.
\* Then a current directory that cannot be read ends it, too.
CreateDirectoryFails ==
  /\ Menu
  /\ FreeINodes = {} \/ FreeBlocks = {}
  /\ Reload
  /\ UNCHANGED content

CopyFails(size) ==
  /\ Menu
  /\ \/ /\ FreeINodes = {}
        /\ UNCHANGED content
     \/ LET free    == Cardinality(FreeBlocks)
            count   == NewFileBlocks(size)
            written == Elements(FirstFree(FreeBlocks, IF count > free THEN free ELSE count))
        IN  /\ FreeINodes # {}
            /\ count > free \/ ~ Readable(cwd) \/ BlockOf(cwd) \in written
            /\ content' = [b \in Blocks |-> IF b \in written THEN DATA ELSE content[b]]
  /\ Reload

\* The source path leads to inode i.  The time of modification that is set
\* in the current directory and those above it after the save is left out,
\* as all times are.
createHardLink(i, n) ==
  /\ Menu /\ MayBeGiven(n)
  /\ (IF mem.inode[i].dir THEN "dirlink" ELSE "filelink") \in Usage
  /\ i \in Reachable \ {0}
  /\ Save([mem EXCEPT !.inode[i].links = @ + 1], 0, 1)
  /\ content' = EntryAdded(n, i)
  /\ UNCHANGED <<cwd, calls>>

\* deleteFile, for a file in directory base.
FileRemoved(base, n) ==
  LET i     == Entries(base)[n]
      delta == IF mem.inode[i].links = 1 THEN - mem.inode[i].size ELSE 0
  IN  /\ Save(Grown(FileUnlinked(i), base, delta), delta, -1)
      /\ content' = Written(BlockOf(base), Erased(Entries(base), n))

deleteFile(n) ==
  /\ Menu /\ IsFile(n)
  /\ FileRemoved(cwd, n)
  /\ UNCHANGED <<cwd, calls>>

\* Blocks to allocate or to free when a file changes its size.
BlocksBetween(small, large) == large \div DataBlockSize - small \div DataBlockSize

\* Commands 8 and 9 do not look at the type either.
Resized(n) == Named(n) /\ (IsFile(n) \/ "resizedir" \in Usage)

\* The new blocks keep what they hold.  Files stay smaller than MaxSize, and
\* the number of blocks within directDataBlocks.
addNBytes(n, bytes) ==
  /\ Menu /\ Resized(n)
  /\ LET i     == Entries(cwd)[n]
         file  == mem.inode[i]
         count == BlocksBetween(file.size, file.size + bytes)
         new   == FirstFree(FreeBlocks, count)
     IN  /\ file.size + bytes <= IF file.dir THEN Word - 1 ELSE MaxSize
         /\ Len(file.blocks) + count <= DirectBlocks
         /\ count <= Cardinality(FreeBlocks)
         /\ Save(Grown(Allocated(i, [file EXCEPT !.size = @ + bytes,
                                                 !.blocks = @ \o new]),
                       cwd, bytes),
                 bytes, 0)
  /\ UNCHANGED <<content, cwd, calls>>

AddFails(n, bytes) ==
  /\ Menu /\ Resized(n)
  /\ LET size == mem.inode[Entries(cwd)[n]].size
     IN  BlocksBetween(size, size + bytes) > Cardinality(FreeBlocks)
  /\ Reload
  /\ UNCHANGED content

Freed(blocks, count) == {blocks[Len(blocks) + 1 - j] : j \in 1..count}

\* By at most the size: less than nothing is not asked for.  More blocks than
\* there are lead to an index before the array, which ends the program: Exit.
\* That is for directories, whose size has that of all below; a file has all
\* the blocks of its size, see BlocksExact.
takeAwayNBytes(n, bytes) ==
  /\ Menu /\ Resized(n)
  /\ LET i     == Entries(cwd)[n]
         file  == mem.inode[i]
         count == BlocksBetween(file.size - bytes, file.size)
         m     == [mem EXCEPT
                     !.inode[i].size = @ - bytes,
                     !.inode[i].blocks = SubSeq(@, 1, Len(@) - count),
                     !.bused = @ \ Freed(file.blocks, count)]
     IN  /\ bytes <= file.size
         /\ count <= Len(file.blocks)
         /\ Save(Grown(m, cwd, - bytes), - bytes, 0)
  /\ UNCHANGED <<content, cwd, calls>>

\* A name that is not found leads home, and that of a file to the file,
\* though errors are printed.
changeDirectory(n) ==
  /\ Menu /\ Readable(cwd)
  /\ IsFile(n) => "enterfile" \in Usage
  /\ cwd' = IF Named(n) THEN Entries(cwd)[n] ELSE 0
  /\ UNCHANGED <<mem, disk, content, calls>>

changeToParentDirectory ==
  /\ Menu
  /\ cwd' = mem.inode[cwd].parent
  /\ UNCHANGED <<mem, disk, content, calls>>

\* Command 13; or a directory could not be read, or an index was wrong.
Exit == Menu /\ Reload /\ UNCHANGED content

-----------------------------------------------------------------------------
(* deleteDirectoryRecursively *)

\* A faulty variant: the children of the directory are not deleted.
CallChildless(base, n, callers) ==
  /\ mem' = [mem EXCEPT !.inode[Entries(base)[n]].links = @ - 1]
  /\ calls' = <<[base |-> base, name |-> n, entries |-> Entries(base),
                 todo |-> {}]>> \o callers

\* The call for the directory n in base: one link less and, if it was the
\* last one, the children are to be deleted.  The entries of base are read
\* now and written back at the end.
Call(base, n, callers) ==
  LET i == Entries(base)[n]
  IN  /\ mem' = [mem EXCEPT !.inode[i].links = @ - 1]
      /\ calls' = <<[base |-> base, name |-> n, entries |-> Entries(base),
                     todo |-> IF mem.inode[i].links = 1 THEN DOMAIN Entries(i)
                              ELSE {}]>> \o callers

\* The children are read before anything is written.
Unreadable(i) == mem.inode[i].links = 1 /\ ~ Readable(i)

DeleteDirectory(n) ==
  /\ Menu /\ Named(n) /\ ~ IsFile(n) /\ ~ Unreadable(Entries(cwd)[n])
  /\ Call(cwd, n, << >>)
  /\ UNCHANGED <<disk, content, cwd>>

Top == calls[1]
Deleted == Top.entries[Top.name]

\* One of the children that are left, in any order.
DeleteChild(n) ==
  /\ ~ Menu /\ n \in Top.todo
  /\ LET child   == Entries(Deleted)[n]
         callers == [calls EXCEPT ![1].todo = @ \ {n}]
     IN  IF ~ mem.inode[child].dir
         THEN FileRemoved(Deleted, n) /\ calls' = callers /\ UNCHANGED cwd
         ELSE IF Unreadable(child)
         THEN Reload /\ UNCHANGED content
         ELSE Call(Deleted, n, callers) /\ UNCHANGED <<disk, content, cwd>>

\* All children are gone: the directory is freed and erased from base.
Return ==
  /\ ~ Menu /\ Top.todo = {}
  /\ LET last  == mem.inode[Deleted].links = 0
         m     == IF last
                  THEN [mem EXCEPT !.iused = @ \ {Deleted},
                                   !.bused = @ \ {BlockOf(Deleted)}]
                  ELSE mem
         delta == IF last THEN - mem.inode[Deleted].size ELSE 0
     IN  Save(Grown(m, Top.base, delta), delta, -1)
  /\ content' = Written(BlockOf(Top.base), Erased(Top.entries, Top.name))
  /\ calls' = Tail(calls)
  /\ UNCHANGED cwd

-----------------------------------------------------------------------------

Next ==
  \/ \E n \in Names :
       \/ createDirectory(n) \/ DeleteDirectory(n) \/ deleteFile(n)
       \/ changeDirectory(n) \/ DeleteChild(n)
       \/ \E i \in INodes : createHardLink(i, n)
       \/ \E size \in 0..MaxSize : copyFileFromSystemDisk(n, size)
       \/ \E bytes \in 1..MaxSize :
            addNBytes(n, bytes) \/ takeAwayNBytes(n, bytes) \/ AddFails(n, bytes)
  \/ \E size \in 0..MaxSize : CopyFails(size)
  \/ CreateDirectoryFails
  \/ changeToParentDirectory
  \/ Return
  \/ Exit

Spec == Init /\ [][Next]_vars

-----------------------------------------------------------------------------
(* Properties.  Those about the file tree are for the moments when a       *)
(* command is awaited.  TypeOK, BlocksExact, NamesCounted and ParentsHold  *)
(* are for Usage \subseteq {"filelink"}; each of the other Usages breaks   *)
(* some of them.                                                           *)

Directories == {i \in mem.iused : mem.inode[i].dir}
Files == mem.iused \ Directories

\* The names: pairs of a directory and a name in it.
AllNames == UNION {{d} \X DOMAIN Entries(d) : d \in {j \in Directories : Readable(j)}}
NamesOf(i) == {e \in AllNames : Entries(e[1])[e[2]] = i}

\* The superblock, the inodes and the bitmaps have their types, and what is
\* read as a directory has been written as one, not as a part of a file, if
\* commands 8 and 9 are not used for directories and no directory gets more
\* entries than its block holds.
TypeOK ==
  /\ mem.files \in 0..(Word - 1) /\ mem.used \in 0..(Word - 1)
  /\ 0 \in mem.iused /\ mem.iused \subseteq INodes /\ mem.bused \subseteq Blocks
  /\ \A i \in INodes :
       /\ mem.inode[i].size \in 0..(Word - 1)
       /\ mem.inode[i].links \in Nat
       /\ mem.inode[i].parent \in INodes
       /\ Len(mem.inode[i].blocks) <= DirectBlocks
  /\ \A i \in Directories : Entries(i) # DATA
  /\ cwd \in INodes

\* Whenever a command is awaited the disk holds the numbers, sizes, links,
\* blocks and bitmaps that are in memory: ending the program there, or by an
\* exception in the next command, loses none of them.  (createHardLink
\* changes times after its save, and those may be lost.)
Saved == Menu => disk = mem

\* A data block belongs to one file or directory and is marked as used, and
\* no other block is: no operation gives away a block that is in use or leaks
\* one, whatever names are left of a file whose blocks are freed.  A file has
\* the whole blocks of its size, or one more: growing and shrinking in any
\* order never frees a block it does not have.  It need not have a block for
\* its last bytes: of one block, a file loses it with its first byte.  This
\* is for commands 8 and 9 given names of files, and the other conditions.
BlocksExact ==
  Menu =>
    /\ mem.bused = UNION {Elements(mem.inode[i].blocks) : i \in mem.iused}
    /\ \A i \in mem.iused :
         LET blocks == mem.inode[i].blocks
         IN  /\ Cardinality(Elements(blocks)) = Len(blocks)
             /\ \A j \in mem.iused \ {i} :
                  Elements(blocks) \cap Elements(mem.inode[j].blocks) = {}
    /\ \A i \in Files :
         Len(mem.inode[i].blocks) - (mem.inode[i].size \div DataBlockSize) \in {0, 1}

\* The inodes in use are those that can be reached from home, so the deletion
\* of a directory deletes all of its tree and no more.  countHardLinks of
\* each is the number of its names (home has none but counts one), and the
\* superblock counts the names, and home.  A new name must not exist, and
\* directories must keep their blocks for it: commands 8 and 9 are for files.
NamesCounted ==
  Menu =>
    /\ Reachable = mem.iused
    /\ \A i \in mem.iused \ {0} :
         mem.inode[i].links = Cardinality(NamesOf(i)) /\ mem.inode[i].links > 0
    /\ mem.files = (Cardinality(AllNames) + 1) % Word

\* The parent of a directory is a directory in use that holds its name;
\* the current directory is in use, as long as no file is entered.  So "Go to
\* the parent directory" leads up the tree, wherever it is used.
ParentsHold ==
  Menu =>
    /\ cwd \in Directories
    /\ \A i \in Directories \ {0} :
         \E e \in NamesOf(i) : e[1] = mem.inode[i].parent

\* The claim of koncpecja.md for the field "number of the inode of the parent
\* directory": it is one, for every directory.
ParentIsDirectory ==
  Menu => \A i \in Directories : mem.inode[i].parent \in Directories

\* The size shown for the metadata is the same all the time: the superblock
\* and home count the same bytes.
MetaDataSizeShown == Menu => ShownMetaDataSize = MetaDataSize

\* The test of koncpecja.md: a file that is copied from the virtual disk is
\* the same as the one that was copied to it; here, it has its size.
CopiedBackWhole ==
  Menu => \A i \in Files : CopiedBytes(i) = mem.inode[i].size

=============================================================================
