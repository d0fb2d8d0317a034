--------------------------- MODULE VirtualDiskProofs ---------------------------
(***************************************************************************)
(* The invariants of the virtual disk of lab 6, for disks of any size, any *)
(* names and sizes of files.  Most theorems are for users who know what    *)
(* the code does not check, Usage \subseteq {"filelink"}: links are made to *)
(* files, names of new things are new and their entries fit the block of   *)
(* the directory, commands 8 and 9 are given files, and only directories   *)
(* are entered.                                                            *)
(***************************************************************************)
EXTENDS VirtualDisk, FiniteSetTheorems, WellFoundedInduction, TLAPS

-----------------------------------------------------------------------------
(* Numbers *)

\* A nonempty set of numbers has a smallest one.
LEMMA Smallest ==
  ASSUME NEW T \in SUBSET Nat, T # {}
  PROVE  \E m \in T : \A k \in T : m <= k
<1>1. \E m \in T : \A k \in T : ~ (<<k, m>> \in OpToRel(<, Nat))
  BY NatLessThanWellFounded, WFMin
<1>2. \A k, m \in T : k < m => <<k, m>> \in OpToRel(<, Nat)
  BY DEF OpToRel
<1>3. PICK m \in T : \A k \in T : ~ (<<k, m>> \in OpToRel(<, Nat))
  BY <1>1
<1>4. \A k \in T : ~ (k < m)
  BY <1>2, <1>3
<1>5. \A k \in T : k \in Nat /\ m \in Nat
  OBVIOUS
<1> QED
  BY <1>4, <1>5

\* Remainders that differ by a multiple of the divisor are the same.
LEMMA RemainderUnique ==
  ASSUME NEW w \in Nat, w > 0, NEW k \in Int,
         NEW x \in 0..(w - 1), NEW y \in 0..(w - 1), y = w * k + x
  PROVE  x = y
<1>1. CASE k = 0
  BY <1>1
<1>2. CASE k >= 1
  <2>1. w * k >= w
    BY <1>2
  <2> QED  BY <2>1
<1>3. CASE k <= -1
  <2>1. w * k <= - w
    BY <1>3
  <2> QED  BY <2>1
<1> QED
  BY <1>1, <1>2, <1>3

\* Two unsigned numbers that change by the same keep their distance.
LEMMA DistanceKept ==
  ASSUME NEW w \in Nat, w > 0, NEW a \in Int, NEW b \in Int, NEW d \in Int
  PROVE  (((a + d) % w) - ((b + d) % w)) % w = (a - b) % w
<1> DEFINE q == (a + d) \div w
           r == (b + d) \div w
           s == (a - b) \div w
           x == ((a + d) % w) - ((b + d) % w)
           t == x \div w
<1>1. /\ q \in Int /\ r \in Int /\ s \in Int /\ t \in Int /\ x \in Int
      /\ a + d = w * q + ((a + d) % w)
      /\ b + d = w * r + ((b + d) % w)
      /\ a - b = w * s + ((a - b) % w)
      /\ x = w * t + (x % w)
      /\ (a - b) % w \in 0..(w - 1) /\ x % w \in 0..(w - 1)
  OBVIOUS
<1> DEFINE y == (a - b) % w
           z == x % w
           u == (a + d) % w
           v == (b + d) % w
<1>2. /\ u \in Int /\ v \in Int /\ y \in 0..(w - 1) /\ z \in 0..(w - 1)
      /\ a + d = w * q + u /\ b + d = w * r + v /\ a - b = w * s + y
      /\ u - v = w * t + z
  BY <1>1
<1> HIDE DEF q, r, s, t, u, v, x, y, z
<1>3. w * s + y - (w * q - w * r) = w * t + z
  BY <1>1, <1>2
<1>4. w * s - (w * q - w * r) - w * t = w * (s - q + r - t)
  BY <1>1
<1>5. z = w * (s - q + r - t) + y
  BY <1>1, <1>2, <1>3, <1>4
<1>6. y = z
  BY <1>1, <1>2, <1>5, RemainderUnique
<1> QED
  BY <1>6 DEF x, y, z

-----------------------------------------------------------------------------
(* Free inodes and blocks *)

\* A finite set of numbers has a member with as many smaller ones as wanted.
LEMMA RankedMember ==
  ASSUME NEW S \in SUBSET Nat, IsFiniteSet(S), NEW k \in Nat, k < Cardinality(S)
  PROVE  \E b \in S : Cardinality({c \in S : c < b}) = k
<1> DEFINE Below(b) == {c \in S : c < b}
           T == {r \in Nat : r < Cardinality(S) /\ ~ \E b \in S : Cardinality(Below(b)) = r}
<1> SUFFICES ASSUME T # {}
             PROVE  FALSE
  OBVIOUS
<1>1. PICK m \in T : \A r \in T : m <= r
  BY Smallest
<1>2. Cardinality(S) \in Nat /\ \A b \in S : IsFiniteSet(Below(b))
  BY FS_CardinalityType, FS_Subset
<1>3. m \in Nat /\ m < Cardinality(S) /\ \A b \in S : Cardinality(Below(b)) # m
  OBVIOUS
<1>4. \A r \in Nat : r < m => \E b \in S : Cardinality(Below(b)) = r
  BY <1>1, <1>2, <1>3
<1>5. \A b \in S : b \in Nat
  OBVIOUS
<1>6. \A b, c : c \in Below(b) <=> c \in S /\ c < b
  OBVIOUS
<1> HIDE DEF T, Below
<1>7. CASE m = 0
  <2>1. S # {}
    BY <1>3, <1>7, FS_EmptySet
  <2>2. PICK b \in S : \A c \in S : b <= c
    BY <2>1, Smallest
  <2>3. \A c \in S : ~ (c < b)
    BY <2>2, <1>5
  <2>4. Below(b) = {}
    BY <2>3, <1>6
  <2> QED  BY <1>3, <1>7, <2>4, FS_EmptySet
<1>8. CASE m > 0
  <2>1. PICK b \in S : Cardinality(Below(b)) = m - 1
    BY <1>3, <1>4, <1>8
  <2>2. IsFiniteSet(Below(b)) /\ b \notin Below(b)
    BY <1>2, <1>5, <1>6
  <2>3. Cardinality(Below(b) \cup {b}) = m - 1 + 1
    BY <2>1, <2>2, FS_AddElement
  <2>4. m - 1 + 1 = m
    BY <1>3
  <2> DEFINE U == {c \in S : c > b}
  <2>5. CASE U = {}
    <3>1. \A c \in S : c \in Below(b) \cup {b}
      BY <2>5, <1>5, <1>6
    <3>2. S = Below(b) \cup {b}
      BY <3>1, <1>6
    <3> QED  BY <1>3, <2>3, <2>4, <3>2
  <2>6. CASE U # {}
    <3>1. U \in SUBSET Nat
      OBVIOUS
    <3>2. PICK d \in U : \A c \in U : d <= c
      BY <2>6, <3>1, Smallest
    <3>3. d \in S /\ d > b /\ \A c \in S : c > b => d <= c
      BY <3>2
    <3>4. \A c \in S : c < d <=> (c < b \/ c = b)
      BY <3>3, <1>5
    <3>5. Below(d) = Below(b) \cup {b}
      BY <3>4, <1>6
    <3> QED  BY <1>3, <2>3, <2>4, <3>3, <3>5
  <2> QED  BY <2>5, <2>6
<1> QED
  BY <1>3, <1>7, <1>8

\* findFirstFreeBlock, asked k times, gives k different free ones.
LEMMA FirstFreeResult ==
  ASSUME NEW free \in SUBSET Nat, IsFiniteSet(free),
         NEW k \in Nat, k <= Cardinality(free)
  PROVE  /\ FirstFree(free, k) \in Seq(free)
         /\ Len(FirstFree(free, k)) = k
         /\ \A i, j \in 1..k : FirstFree(free, k)[i] = FirstFree(free, k)[j] => i = j
<1> DEFINE rank(b) == Cardinality({c \in free : c < b})
           g(j) == CHOOSE b \in free : rank(b) = j - 1
<1>1. FirstFree(free, k) = [j \in 1..k |-> g(j)]
  BY DEF FirstFree
<1>2. \A j \in 1..k : g(j) \in free /\ rank(g(j)) = j - 1
  <2> SUFFICES ASSUME NEW j \in 1..k
               PROVE  g(j) \in free /\ rank(g(j)) = j - 1
    OBVIOUS
  <2>1. j - 1 \in Nat /\ j - 1 < Cardinality(free)
    BY FS_CardinalityType
  <2>2. \E b \in free : rank(b) = j - 1
    BY <2>1, RankedMember
  <2> HIDE DEF rank
  <2> QED  BY <2>2
<1> HIDE DEF rank, g
<1>3. FirstFree(free, k) \in Seq(free) /\ Len(FirstFree(free, k)) = k
  BY <1>1, <1>2
<1>4. \A i, j \in 1..k : FirstFree(free, k)[i] = FirstFree(free, k)[j] => i = j
  <2> SUFFICES ASSUME NEW i \in 1..k, NEW j \in 1..k, g(i) = g(j)
               PROVE  i = j
    BY <1>1
  <2>1. i - 1 = j - 1
    BY <1>2
  <2> QED  BY <2>1
<1> QED
  BY <1>3, <1>4

-----------------------------------------------------------------------------
(* Going up to home *)

\* The recursion over the parents has a solution, whatever the parents are:
\* the inodes in every set that contains an inode and is closed upwards.
LEMMA PathExists ==
  ASSUME NEW P \in [INodes -> INodes]
  PROVE  \E up : up = [j \in INodes |-> IF j = 0 THEN {0} ELSE {j} \cup up[P[j]]]
<1> DEFINE Closed(S) == \A j \in S : j # 0 => P[j] \in S
           F == [j \in INodes |-> {k \in INodes :
                   \A S \in SUBSET INodes : Closed(S) /\ j \in S => k \in S}]
<1>1. 0 \in INodes
  BY DiskAssumption DEF INodes
<1>2. F[0] = {0}
  <2>1. Closed({0}) /\ {0} \in SUBSET INodes
    BY <1>1
  <2> QED  BY <1>1, <2>1
<1>3. ASSUME NEW j \in INodes, j # 0
      PROVE  F[j] = {j} \cup F[P[j]]
  <2>1. \A k \in INodes : k \in F[j] <=>
          \A S \in SUBSET INodes : Closed(S) /\ j \in S => k \in S
    BY <1>3
  <2>2. \A k \in INodes : k \in F[P[j]] <=>
          \A S \in SUBSET INodes : Closed(S) /\ P[j] \in S => k \in S
    BY <1>3
  <2>3. F[j] \subseteq INodes /\ F[P[j]] \subseteq INodes
    BY <1>3
  <2>4. F[P[j]] \subseteq F[j]
    <3>1. \A S \in SUBSET INodes : Closed(S) /\ j \in S => P[j] \in S
      BY <1>3
    <3> QED  BY <2>1, <2>2, <2>3, <3>1
  <2>5. Closed({j} \cup F[P[j]]) /\ {j} \cup F[P[j]] \in SUBSET INodes
    <3>1. P[j] \in F[P[j]]
      BY <1>3, <2>2
    <3>2. ASSUME NEW k \in F[P[j]], k # 0
          PROVE  P[k] \in F[P[j]]
      <4>1. P[k] \in INodes /\ k \in INodes
        BY <2>3
      <4>2. \A S \in SUBSET INodes : Closed(S) /\ P[j] \in S => k \in S
        BY <2>2, <4>1
      <4>3. \A S \in SUBSET INodes : Closed(S) /\ P[j] \in S => P[k] \in S
        BY <3>2, <4>2
      <4> QED  BY <2>2, <4>1, <4>3
    <3> HIDE DEF F
    <3> QED  BY <1>3, <2>3, <3>1, <3>2
  <2> HIDE DEF F, Closed
  <2>6. F[j] \subseteq {j} \cup F[P[j]]
    BY <2>1, <2>3, <2>5
  <2>7. j \in F[j]
    BY <1>3, <2>1
  <2> QED  BY <2>4, <2>6, <2>7
<1>4. F = [j \in INodes |-> F[j]]
  OBVIOUS
<1> HIDE DEF F
<1>5. F = [j \in INodes |-> IF j = 0 THEN {0} ELSE {j} \cup F[P[j]]]
  BY <1>2, <1>3, <1>4
<1> QED
  BY <1>5

\* The directories in a grow.
Enlarged(m, a, delta) ==
  [m EXCEPT !.inode = [j \in INodes |->
     IF j \in a THEN [m.inode[j] EXCEPT !.size = (@ + delta) % Word]
     ELSE m.inode[j]]]

\* updateParentsDirectory changes the sizes of some directories of a tree,
\* and that of home in any case.
LEMMA GrownResult ==
  ASSUME NEW m, NEW delta, NEW S \in SUBSET INodes, NEW i \in S,
         \A j \in INodes : m.inode[j].parent \in INodes,
         \A j \in S : m.inode[j].parent \in S,
         \A T \in SUBSET (S \ {0}) :
           T # {} => \E j \in T : m.inode[j].parent \notin T
  PROVE  \E a \in SUBSET S : 0 \in a /\ Grown(m, i, delta) = Enlarged(m, a, delta)
<1> DEFINE P == [j \in INodes |-> m.inode[j].parent]
           Path(up) == up = [j \in INodes |->
             IF j = 0 THEN {0} ELSE {j} \cup up[m.inode[j].parent]]
           u == CHOOSE up : Path(up)
<1>1. Path(u)
  <2>1. P \in [INodes -> INodes]
    OBVIOUS
  <2>2. PICK up : up = [j \in INodes |-> IF j = 0 THEN {0} ELSE {j} \cup up[P[j]]]
    BY <2>1, PathExists
  <2>3. \A j \in INodes : P[j] = m.inode[j].parent
    OBVIOUS
  <2> HIDE DEF P
  <2>4. Path(up)
    BY <2>2, <2>3
  <2> HIDE DEF Path
  <2> QED  BY <2>4
<1>2. Grown(m, i, delta) = Enlarged(m, u[i], delta)
  BY DEF Grown, Enlarged
<1>3. \A j \in INodes : u[j] = IF j = 0 THEN {0} ELSE {j} \cup u[m.inode[j].parent]
  <2> HIDE DEF u
  <2> QED  BY <1>1
<1> HIDE DEF u
<1>4. u[i] \subseteq S /\ 0 \in u[i]
  <2> DEFINE T == {j \in S \ {0} : ~ (u[j] \subseteq S /\ 0 \in u[j])}
  <2>1. 0 \in INodes
    BY DiskAssumption DEF INodes
  <2>2. ASSUME T # {}
        PROVE  FALSE
    <3>1. PICK j \in T : m.inode[j].parent \notin T
      BY <2>2
    <3>2. j \in INodes /\ j # 0 /\ m.inode[j].parent \in S
      OBVIOUS
    <3>3. u[j] = {j} \cup u[m.inode[j].parent] /\ u[0] = {0}
      BY <1>3, <2>1, <3>2
    <3>4. CASE m.inode[j].parent = 0
      BY <3>1, <3>2, <3>3, <3>4
    <3>5. CASE m.inode[j].parent # 0
      BY <3>1, <3>2, <3>3, <3>5
    <3> QED  BY <3>4, <3>5
  <2>3. u[0] = {0}
    BY <1>3, <2>1
  <2> QED  BY <2>2, <2>3
<1> QED
  BY <1>2, <1>4

-----------------------------------------------------------------------------
(* The inductive invariant *)

INodeRecords == [dir : BOOLEAN, blocks : Seq(Blocks), size : 0..(Word - 1),
                 links : Nat, parent : INodes]
Metadata == [files : 0..(Word - 1), used : 0..(Word - 1),
             inode : [INodes -> INodeRecords], first : [INodes -> Blocks],
             iused : SUBSET INodes, bused : SUBSET Blocks]
Contents == [Blocks -> EntryMaps \cup {DATA}]
Frames == [base : INodes, name : Names, entries : EntryMaps, todo : SUBSET Names]

Typed ==
  /\ mem \in Metadata /\ disk \in Metadata /\ content \in Contents
  /\ cwd \in INodes /\ calls \in Seq(Frames)

\* Of metadata m and contents c: the directories, their entries, the names
\* and those of inode i.
Dirs(m) == {i \in m.iused : m.inode[i].dir}
Block(m, i) == m.inode[i].blocks[1]
Ents(m, c, i) == c[Block(m, i)]
Held(m, c) == {e \in Dirs(m) \X Names : e[2] \in DOMAIN Ents(m, c, e[1])}
HeldOf(m, c, i) == {e \in Held(m, c) : Ents(m, c, e[1])[e[2]] = i}

\* The blocks of the inodes; no block occurs twice.
Distinct(f) == \A j, k \in 1..Len(f) : f[j] = f[k] => j = k
BlocksOf(m, i) == m.inode[i].blocks
Owned(m) ==
  /\ m.bused = UNION {Elements(BlocksOf(m, i)) : i \in m.iused}
  /\ \A i \in m.iused : Distinct(BlocksOf(m, i))
  /\ \A i, j \in m.iused : i # j =>
       Elements(BlocksOf(m, i)) \cap Elements(BlocksOf(m, j)) = {}
Measured(m) ==
  /\ \A i \in Dirs(m) : Len(BlocksOf(m, i)) = 1
  /\ \A i \in m.iused \ Dirs(m) :
       Len(BlocksOf(m, i)) - (m.inode[i].size \div DataBlockSize) \in {0, 1}
  /\ \A i \in INodes : Len(BlocksOf(m, i)) <= DirectBlocks

\* The parents of the directories lead to home.
Parent(m, i) == m.inode[i].parent
Acyclic(m) ==
  \A S \in SUBSET (Dirs(m) \ {0}) : S # {} => \E d \in S : Parent(m, d) \notin S
Rooted(m) ==
  /\ 0 \in Dirs(m) /\ Parent(m, 0) = 0
  /\ \A d \in Dirs(m) : Parent(m, d) \in Dirs(m)
  /\ Acyclic(m)

\* Names are of inodes in use; a directory has one name, in its parent, and a
\* file as many as it has links.  G: the directories that are being deleted.
NamesLead(m, c) ==
  \A d \in Dirs(m) :
    /\ Ents(m, c, d) \in EntryMaps
    /\ \A n \in DOMAIN Ents(m, c, d) : Ents(m, c, d)[n] \in m.iused \ {0}
DirsNamed(m, c) ==
  \A d \in Dirs(m) \ {0} :
    \E n \in DOMAIN Ents(m, c, Parent(m, d)) :
      HeldOf(m, c, d) = {<<Parent(m, d), n>>}
Links(m, i) == m.inode[i].links
DirLinks(m, G) == \A d \in Dirs(m) : Links(m, d) = IF d \in G THEN 0 ELSE 1
FilesNamed(m, c) ==
  \A i \in m.iused \ Dirs(m) :
    Links(m, i) = Cardinality(HeldOf(m, c, i)) /\ Links(m, i) > 0
Counted(m, c) == m.files = (Cardinality(Held(m, c)) + 1) % Word

\* The superblock and home count the same.
Distance(m) == (m.used - m.inode[0].size) % Word

\* The pending calls: each deletes a directory in that of its caller, which
\* still holds the names that are left to be deleted.
DirOf(f) == f.entries[f.name]
GoneOf(k) == {DirOf(k[j]) : j \in 1..Len(k)}
BaseOf(w, k, j) == IF j = Len(k) THEN w ELSE DirOf(k[j + 1])
Pending(m, c, w, k) ==
  /\ w \in Dirs(m) /\ w \notin GoneOf(k)
  /\ \A j \in 1..Len(k) :
       /\ k[j].base = BaseOf(w, k, j)
       /\ k[j].entries = Ents(m, c, k[j].base)
       /\ k[j].name \in DOMAIN k[j].entries
       /\ DirOf(k[j]) \in Dirs(m) \ {0}
       /\ DOMAIN Ents(m, c, DirOf(k[j])) =
            k[j].todo \cup (IF j = 1 THEN {} ELSE {k[j - 1].name})
       /\ j > 1 => k[j - 1].name \notin k[j].todo
       /\ \A h \in 1..Len(k) : h # j => DirOf(k[h]) # DirOf(k[j])

Shape(m, c) ==
  /\ Owned(m) /\ Measured(m) /\ Rooted(m)
  /\ NamesLead(m, c) /\ DirsNamed(m, c) /\ FilesNamed(m, c)

Kept(m, c, w, k) ==
  /\ Shape(m, c) /\ Counted(m, c) /\ Distance(m) = MetaDataSize
  /\ DirLinks(m, GoneOf(k)) /\ Pending(m, c, w, k)

Inv == Typed /\ Kept(mem, content, cwd, calls) /\ Saved

-----------------------------------------------------------------------------
(* Saving *)

\* What changes of files' blocks, of sizes and of the superblock leave; and
\* changes of the sizes of directories and of the superblock alone.
TreeAlike(m, r) ==
  /\ r.iused = m.iused /\ Dirs(r) = Dirs(m)
  /\ \A j \in INodes : Links(r, j) = Links(m, j) /\ Parent(r, j) = Parent(m, j)
  /\ \A j \in Dirs(m) : BlocksOf(r, j) = BlocksOf(m, j)
Alike(m, r) ==
  /\ TreeAlike(m, r) /\ r.bused = m.bused
  /\ \A j \in INodes : /\ BlocksOf(r, j) = BlocksOf(m, j)
                       /\ j \in m.iused \ Dirs(m) => r.inode[j].size = m.inode[j].size

\* Metadata m are saved, with other sizes of directories and another number
\* of files.
SavedAs(m, count) ==
  /\ mem' \in Metadata /\ disk' = mem' /\ Alike(m, mem')
  /\ mem'.files = (m.files + count) % Word
  /\ Distance(mem') = Distance(m)

\* updateParentsDirectory and updateMetaData change sizes of directories and
\* the superblock only, and home and the superblock by the same.
LEMMA SavedGrown ==
  ASSUME NEW m \in Metadata, NEW delta \in Int, NEW count \in Int,
         NEW S \in SUBSET INodes, NEW i \in S,
         \A j \in S : Parent(m, j) \in S,
         \A T \in SUBSET (S \ {0}) : T # {} => \E j \in T : Parent(m, j) \notin T,
         \A j \in S : j \in m.iused => j \in Dirs(m),
         Save(Grown(m, i, delta), delta, count)
  PROVE  SavedAs(m, count)
<1>1. 0 \in INodes /\ Word \in Nat /\ Word > 0
  BY DiskAssumption DEF INodes, MaxSize
<1>2. \A j \in INodes : m.inode[j] \in INodeRecords
  BY DEF Metadata
<1>3. \A j \in INodes : m.inode[j].parent \in INodes
  BY <1>2 DEF INodeRecords
<1>4. PICK a \in SUBSET S : 0 \in a /\ Grown(m, i, delta) = Enlarged(m, a, delta)
  <2>1. \A j \in S : m.inode[j].parent \in S
    BY DEF Parent
  <2>2. \A T \in SUBSET (S \ {0}) : T # {} => \E j \in T : m.inode[j].parent \notin T
    BY DEF Parent
  <2> QED  BY <1>3, <2>1, <2>2, GrownResult
<1> DEFINE g == [j \in INodes |->
                IF j \in a THEN [m.inode[j] EXCEPT !.size = (@ + delta) % Word]
                ELSE m.inode[j]]
<1>5. /\ mem' = [m EXCEPT !.inode = g, !.used = (m.used + delta) % Word,
                          !.files = (m.files + count) % Word]
      /\ disk' = mem'
  BY <1>4 DEF Save, Enlarged, Metadata
<1>6. \A j \in INodes :
        /\ g[j] \in INodeRecords
        /\ g[j].dir = m.inode[j].dir /\ g[j].blocks = m.inode[j].blocks
        /\ g[j].links = m.inode[j].links /\ g[j].parent = m.inode[j].parent
        /\ g[j].size = IF j \in a THEN (m.inode[j].size + delta) % Word
                       ELSE m.inode[j].size
  <2> SUFFICES ASSUME NEW j \in INodes
               PROVE  /\ g[j] \in INodeRecords
                      /\ g[j].dir = m.inode[j].dir /\ g[j].blocks = m.inode[j].blocks
                      /\ g[j].links = m.inode[j].links /\ g[j].parent = m.inode[j].parent
                      /\ g[j].size = IF j \in a THEN (m.inode[j].size + delta) % Word
                                     ELSE m.inode[j].size
    OBVIOUS
  <2>1. m.inode[j] \in INodeRecords /\ m.inode[j].size \in Int
    BY <1>2 DEF INodeRecords
  <2>2. (m.inode[j].size + delta) % Word \in 0..(Word - 1)
    BY <1>1, <2>1
  <2> QED  BY <2>1, <2>2 DEF INodeRecords
<1>7. g \in [INodes -> INodeRecords]
  BY <1>6
<1> HIDE DEF g
<1>8. m.used \in Int /\ m.files \in Int
  BY DEF Metadata
<1>9. (m.used + delta) % Word \in 0..(Word - 1) /\ (m.files + count) % Word \in 0..(Word - 1)
  BY <1>1, <1>8
<1>10. mem' \in Metadata
  BY <1>5, <1>7, <1>9 DEF Metadata
<1>11. /\ mem'.inode = g /\ mem'.iused = m.iused /\ mem'.bused = m.bused
       /\ mem'.used = (m.used + delta) % Word
       /\ mem'.files = (m.files + count) % Word
  BY <1>5 DEF Metadata
<1>12. Alike(m, mem')
  <2>1. m.iused \subseteq INodes
    BY DEF Metadata
  <2>2. Dirs(mem') = Dirs(m)
    BY <1>6, <1>11, <2>1 DEF Dirs
  <2>3. \A j \in INodes : j \in m.iused \ Dirs(m) => j \notin a
    OBVIOUS
  <2>4. Dirs(m) \subseteq INodes
    BY <2>1 DEF Dirs
  <2> QED  BY <1>6, <1>11, <2>2, <2>3, <2>4 DEF Alike, TreeAlike, BlocksOf, Links, Parent
<1>13. Distance(mem') = Distance(m)
  <2>1. m.inode[0].size \in Int
    BY <1>1, <1>2 DEF INodeRecords
  <2>2. mem'.inode[0].size = (m.inode[0].size + delta) % Word
    BY <1>1, <1>4, <1>6, <1>11
  <2>3. (((m.used + delta) % Word) - ((m.inode[0].size + delta) % Word)) % Word
          = (m.used - m.inode[0].size) % Word
    BY <1>1, <1>8, <2>1, DistanceKept, ZenonT(40)
  <2> QED  BY <1>11, <2>2, <2>3 DEF Distance
<1> QED
  BY <1>5, <1>10, <1>11, <1>12, <1>13 DEF SavedAs

\* So it is when the directory that grows is in use.
LEMMA GrownSaved ==
  ASSUME NEW m \in Metadata, NEW c, Shape(m, c),
         NEW i \in Dirs(m), NEW delta \in Int, NEW count \in Int,
         Save(Grown(m, i, delta), delta, count)
  PROVE  SavedAs(m, count)
<1>1. Dirs(m) \in SUBSET INodes
  BY DEF Dirs, Metadata
<1>2. \A j \in Dirs(m) : Parent(m, j) \in Dirs(m)
  BY DEF Shape, Rooted
<1>3. \A T \in SUBSET (Dirs(m) \ {0}) : T # {} => \E j \in T : Parent(m, j) \notin T
  BY DEF Shape, Rooted, Acyclic
<1> QED
  BY <1>1, <1>2, <1>3, SavedGrown

\* And when nothing grows.
LEMMA PlainSaved ==
  ASSUME NEW m \in Metadata, NEW count \in Int, Save(m, 0, count)
  PROVE  SavedAs(m, count)
<1>1. Word \in Nat /\ Word > 0 /\ m.used \in 0..(Word - 1) /\ m.files \in Int
  BY DiskAssumption DEF MaxSize, Metadata
<1>2. (m.used + 0) % Word = m.used
  <2>0. PICK u \in 0..(Word - 1) : u = m.used
    BY <1>1
  <2> DEFINE q == u \div Word
             y == u % Word
  <2>1. q \in Int /\ y \in 0..(Word - 1) /\ u = Word * q + y /\ u + 0 = u
    BY <1>1
  <2> HIDE DEF q, y
  <2>2. y = u
    BY <1>1, <2>1, RemainderUnique
  <2> QED  BY <2>0, <2>1, <2>2 DEF y
<1>3. (m.files + count) % Word \in 0..(Word - 1)
  BY <1>1
<1>4. /\ mem' = [m EXCEPT !.used = m.used, !.files = (m.files + count) % Word]
      /\ disk' = mem'
  BY <1>2 DEF Save
<1>5. /\ mem' \in Metadata /\ mem'.inode = m.inode /\ mem'.iused = m.iused
      /\ mem'.bused = m.bused /\ mem'.used = m.used
      /\ mem'.files = (m.files + count) % Word
  BY <1>3, <1>4 DEF Metadata
<1>6. Alike(m, mem')
  BY <1>5 DEF Alike, TreeAlike, Dirs, Links, Parent, BlocksOf
<1>7. Distance(mem') = Distance(m)
  BY <1>5 DEF Distance
<1> QED
  BY <1>4, <1>5, <1>6, <1>7 DEF SavedAs

\* The directories that pending calls write back are in use.
LEMMA BasesUsed ==
  ASSUME NEW m, NEW c, NEW w, NEW k \in Seq(Frames), Pending(m, c, w, k),
         NEW j \in 1..Len(k)
  PROVE  k[j].base \in Dirs(m)
<1>1. CASE j = Len(k)
  BY <1>1 DEF Pending, BaseOf
<1>2. CASE j # Len(k)
  <2>1. j + 1 \in 1..Len(k)
    BY <1>2
  <2>2. DirOf(k[j + 1]) \in Dirs(m)
    BY <2>1 DEF Pending
  <2>3. k[j].base = DirOf(k[j + 1])
    BY <1>2 DEF Pending, BaseOf
  <2> QED  BY <2>2, <2>3
<1> QED
  BY <1>1, <1>2

\* What is as it was when the tree is alike.
TreeKept(m, r, c) ==
  /\ Rooted(r) /\ NamesLead(r, c) /\ DirsNamed(r, c) /\ FilesNamed(r, c)
  /\ Held(r, c) = Held(m, c)
  /\ \A G : DirLinks(m, G) => DirLinks(r, G)
  /\ \A w : \A k \in Seq(Frames) : Pending(m, c, w, k) => Pending(r, c, w, k)

\* The tree and the pending calls do not depend on files' blocks and on sizes.
LEMMA TreeAlikeKept ==
  ASSUME NEW m \in Metadata, NEW r \in Metadata, TreeAlike(m, r), NEW c, Shape(m, c)
  PROVE  TreeKept(m, r, c)
<1>1. /\ r.iused = m.iused /\ Dirs(r) = Dirs(m)
      /\ m.iused \subseteq INodes /\ Dirs(m) \subseteq m.iused
      /\ \A j \in INodes : Links(r, j) = Links(m, j) /\ Parent(r, j) = Parent(m, j)
      /\ \A j \in Dirs(m) : BlocksOf(r, j) = BlocksOf(m, j)
  BY DEF TreeAlike, Metadata, Dirs
<1>2. /\ Rooted(m) /\ NamesLead(m, c) /\ DirsNamed(m, c) /\ FilesNamed(m, c)
  BY DEF Shape
<1>4. Rooted(r)
  BY <1>1, <1>2 DEF Rooted, Acyclic
<1>5. \A d \in Dirs(m) : Ents(r, c, d) = Ents(m, c, d)
  BY <1>1 DEF Ents, Block, BlocksOf
<1>6. Held(r, c) = Held(m, c)
  BY <1>1, <1>5 DEF Held
<1>7. \A e \in Held(m, c) : e[1] \in Dirs(m)
  BY DEF Held
<1>8. \A i : HeldOf(r, c, i) = HeldOf(m, c, i)
  BY <1>5, <1>6, <1>7 DEF HeldOf
<1>9. NamesLead(r, c)
  BY <1>1, <1>2, <1>5 DEF NamesLead
<1>10. DirsNamed(r, c)
  <2>1. \A d \in Dirs(m) : Ents(r, c, Parent(r, d)) = Ents(m, c, Parent(m, d))
    BY <1>1, <1>2, <1>5 DEF Rooted
  <2> QED  BY <1>1, <1>2, <1>8, <2>1 DEF DirsNamed
<1>11. FilesNamed(r, c)
  BY <1>1, <1>2, <1>8 DEF FilesNamed
<1>12. \A G : DirLinks(m, G) => DirLinks(r, G)
  BY <1>1 DEF DirLinks
<1>13. ASSUME NEW w, NEW k \in Seq(Frames), Pending(m, c, w, k)
       PROVE  Pending(r, c, w, k)
  <2>1. \A j \in 1..Len(k) : k[j].base \in Dirs(m)
    BY <1>13, BasesUsed
  <2> QED  BY <1>1, <1>5, <1>13, <2>1 DEF Pending
<1> QED
  BY <1>4, <1>6, <1>9, <1>10, <1>11, <1>12, <1>13 DEF TreeKept

\* A command that saves keeps the invariant if what it has changed before
\* has the shape, and the superblock is to count the names that are there.
LEMMA SavedKept ==
  ASSUME NEW m \in Metadata, NEW c, Shape(m, c), Distance(m) = MetaDataSize,
         NEW w, NEW k \in Seq(Frames), DirLinks(m, GoneOf(k)), Pending(m, c, w, k),
         NEW count \in Int, SavedAs(m, count),
         (m.files + count) % Word = (Cardinality(Held(m, c)) + 1) % Word
  PROVE  mem' \in Metadata /\ disk' = mem' /\ Kept(mem', c, w, k)
<1>1. /\ mem' \in Metadata /\ disk' = mem' /\ Alike(m, mem')
      /\ mem'.files = (m.files + count) % Word
      /\ Distance(mem') = Distance(m)
  BY DEF SavedAs
<1>2. TreeKept(m, mem', c)
  BY <1>1, TreeAlikeKept DEF Alike
<1>3. /\ m.iused \subseteq INodes /\ Dirs(m) \subseteq m.iused
      /\ mem'.iused = m.iused /\ mem'.bused = m.bused /\ Dirs(mem') = Dirs(m)
      /\ \A j \in INodes : BlocksOf(mem', j) = BlocksOf(m, j)
      /\ \A j \in m.iused \ Dirs(m) : mem'.inode[j].size = m.inode[j].size
  BY <1>1 DEF Alike, TreeAlike, Metadata, Dirs
<1>4. Owned(mem')
  BY <1>3 DEF Shape, Owned
<1>5. Measured(mem')
  BY <1>3 DEF Shape, Measured
<1>6. Counted(mem', c)
  BY <1>1, <1>2 DEF Counted, TreeKept
<1>7. DirLinks(mem', GoneOf(k)) /\ Pending(mem', c, w, k)
  BY <1>2 DEF TreeKept
<1> QED
  BY <1>1, <1>2, <1>4, <1>5, <1>6, <1>7 DEF Kept, Shape, TreeKept

-----------------------------------------------------------------------------
(* Names *)

\* What is known of entries: they have names, and go to inodes.
LEMMA EntriesTyped ==
  ASSUME NEW f \in EntryMaps
  PROVE  /\ DOMAIN f \subseteq Names /\ DOMAIN f \in Fitting /\ f # DATA
         /\ \A n \in DOMAIN f : f[n] \in INodes
<1>1. PICK D \in Fitting : f \in [D -> INodes]
  BY DEF EntryMaps
<1>2. D \in SUBSET Names /\ DOMAIN f = D
  BY <1>1, DiskAssumption
<1>3. f \in UNION {[named -> INodes] : named \in SUBSET Names}
  BY <1>1, <1>2
<1> QED
  BY <1>1, <1>2, <1>3, DiskAssumption

\* There may be none.
LEMMA NoEntriesTyped == NoEntries \in EntryMaps
<1>1. NoEntries \in [{} -> INodes] /\ {} \in Fitting
  BY DiskAssumption DEF NoEntries
<1> QED
  BY <1>1 DEF EntryMaps

\* Entries g are f with a name more.
OneMore(f, g, n, i) ==
  /\ g \in EntryMaps /\ DOMAIN g = DOMAIN f \cup {n} /\ g[n] = i
  /\ \A x \in DOMAIN f : g[x] = f[x]

\* An entry that is added for a new name.
LEMMA EntryGiven ==
  ASSUME NEW f \in EntryMaps, NEW n \in Names, n \notin DOMAIN f, NEW i \in INodes,
         DOMAIN f \cup {n} \in Fitting
  PROVE  OneMore(f, Added(f, n, i), n, i)
<1>1. PICK D \in Fitting : f \in [D -> INodes]
  BY DEF EntryMaps
<1>2. Added(f, n, i) \in [D \cup {n} -> INodes] /\ D \cup {n} \in Fitting
  BY <1>1 DEF Added
<1>3. Added(f, n, i) \in EntryMaps
  BY <1>2 DEF EntryMaps
<1> QED
  BY <1>3 DEF Added, OneMore

\* Entries g are f without a name.
OneLess(f, g, n) ==
  /\ g \in EntryMaps /\ DOMAIN g = DOMAIN f \ {n}
  /\ \A x \in DOMAIN f \ {n} : g[x] = f[x]

\* An entry that is erased.
LEMMA EntryTaken ==
  ASSUME NEW f \in EntryMaps, NEW n
  PROVE  OneLess(f, Erased(f, n), n)
<1>1. PICK D \in Fitting : f \in [D -> INodes]
  BY DEF EntryMaps
<1>2. D \ {n} \in Fitting
  BY DiskAssumption
<1>5. Erased(f, n) \in [D \ {n} -> INodes]
  BY <1>1 DEF Erased
<1>3. Erased(f, n) \in EntryMaps
  BY <1>2, <1>5 DEF EntryMaps
<1> QED
  BY <1>3 DEF Erased, OneLess

\* Contents e of r are those c of m with a name more, n for i in w, and with
\* directories without entries.
NameGiven(m, c, r, e, w, n, i) ==
  /\ w \in Dirs(m) /\ n \in Names
  /\ Dirs(m) \subseteq Dirs(r) /\ n \notin DOMAIN Ents(m, c, w)
  /\ DOMAIN Ents(r, e, w) = DOMAIN Ents(m, c, w) \cup {n}
  /\ Ents(r, e, w)[n] = i
  /\ \A x \in DOMAIN Ents(m, c, w) : Ents(r, e, w)[x] = Ents(m, c, w)[x]
  /\ \A d \in Dirs(m) \ {w} : Ents(r, e, d) = Ents(m, c, d)
  /\ \A d \in Dirs(r) \ Dirs(m) : DOMAIN Ents(r, e, d) = {}

\* The names are those before and the new one.
HeldMore(m, c, r, e, w, n, i) ==
  /\ Held(r, e) = Held(m, c) \cup {<<w, n>>} /\ <<w, n>> \notin Held(m, c)
  /\ HeldOf(r, e, i) = HeldOf(m, c, i) \cup {<<w, n>>}
  /\ \A j : j # i => HeldOf(r, e, j) = HeldOf(m, c, j)

\* So a name is added.
LEMMA NameAdded ==
  ASSUME NEW m, NEW c, NEW r, NEW e, NEW w, NEW n, NEW i,
         NameGiven(m, c, r, e, w, n, i)
  PROVE  HeldMore(m, c, r, e, w, n, i)
<1> USE DEF NameGiven
<1>1. ASSUME NEW p \in Dirs(r) \X Names
      PROVE  p[2] \in DOMAIN Ents(r, e, p[1]) <=>
               p = <<w, n>> \/ (p[1] \in Dirs(m) /\ p[2] \in DOMAIN Ents(m, c, p[1]))
  <2>1. PICK d \in Dirs(r), x \in Names : p = <<d, x>>
    OBVIOUS
  <2>2. x \in DOMAIN Ents(r, e, d) <=>
          (d = w /\ x = n) \/ (d \in Dirs(m) /\ x \in DOMAIN Ents(m, c, d))
    <3>1. CASE d = w
      BY <3>1
    <3>2. CASE d \in Dirs(m) \ {w}
      <4>1. Ents(r, e, d) = Ents(m, c, d) /\ d # w
        BY <3>2
      <4> QED  BY <3>2, <4>1
    <3>3. CASE d \notin Dirs(m)
      <4>1. DOMAIN Ents(r, e, d) = {} /\ d # w
        BY <3>3
      <4> QED  BY <3>3, <4>1
    <3> QED  BY <3>1, <3>2, <3>3
  <2> QED  BY <2>1, <2>2
<1>2. Held(r, e) = Held(m, c) \cup {<<w, n>>} /\ <<w, n>> \notin Held(m, c)
  BY <1>1 DEF Held
<1>3. \A p \in Held(m, c) : Ents(r, e, p[1])[p[2]] = Ents(m, c, p[1])[p[2]]
  BY DEF Held
<1>4. HeldOf(r, e, i) = HeldOf(m, c, i) \cup {<<w, n>>}
  BY <1>2, <1>3 DEF HeldOf
<1>5. \A j : j # i => HeldOf(r, e, j) = HeldOf(m, c, j)
  BY <1>2, <1>3 DEF HeldOf
<1> QED
  BY <1>2, <1>4, <1>5 DEF HeldMore

\* Contents e of r are those c of m without name n of w, and without
\* directories that have no entries.
NameGone(m, c, r, e, w, n) ==
  /\ w \in Dirs(r) /\ n \in Names
  /\ Dirs(r) \subseteq Dirs(m) /\ n \in DOMAIN Ents(m, c, w)
  /\ DOMAIN Ents(r, e, w) = DOMAIN Ents(m, c, w) \ {n}
  /\ \A x \in DOMAIN Ents(m, c, w) \ {n} : Ents(r, e, w)[x] = Ents(m, c, w)[x]
  /\ \A d \in Dirs(r) \ {w} : Ents(r, e, d) = Ents(m, c, d)
  /\ \A d \in Dirs(m) \ Dirs(r) : DOMAIN Ents(m, c, d) = {}

\* The names are those before but that one.
HeldLess(m, c, r, e, w, n, i) ==
  /\ Held(r, e) = Held(m, c) \ {<<w, n>>} /\ <<w, n>> \in HeldOf(m, c, i)
  /\ HeldOf(r, e, i) = HeldOf(m, c, i) \ {<<w, n>>}
  /\ \A j : j # i => HeldOf(r, e, j) = HeldOf(m, c, j)

\* So a name is removed.
LEMMA NameErased ==
  ASSUME NEW m, NEW c, NEW r, NEW e, NEW w, NEW n, NameGone(m, c, r, e, w, n)
  PROVE  HeldLess(m, c, r, e, w, n, Ents(m, c, w)[n])
<1> DEFINE i == Ents(m, c, w)[n]
<1> USE DEF NameGone
<1>1. \A p \in Dirs(m) \X Names :
        p[1] \in Dirs(r) /\ p[2] \in DOMAIN Ents(r, e, p[1]) <=>
          p # <<w, n>> /\ p[2] \in DOMAIN Ents(m, c, p[1])
  OBVIOUS
<1>2. Held(r, e) = Held(m, c) \ {<<w, n>>} /\ <<w, n>> \in Held(m, c)
  BY <1>1 DEF Held
<1>3. \A p \in Held(r, e) : Ents(r, e, p[1])[p[2]] = Ents(m, c, p[1])[p[2]]
  BY <1>2 DEF Held
<1>4. <<w, n>> \in HeldOf(m, c, i)
  BY <1>2 DEF HeldOf
<1>5. HeldOf(r, e, i) = HeldOf(m, c, i) \ {<<w, n>>}
  BY <1>2, <1>3 DEF HeldOf
<1>6. \A j : j # i => HeldOf(r, e, j) = HeldOf(m, c, j)
  BY <1>2, <1>3 DEF HeldOf
<1> QED
  BY <1>2, <1>4, <1>5, <1>6 DEF HeldLess

-----------------------------------------------------------------------------
(* Blocks of directories and new inodes *)

\* A directory has a block of its own, that is marked as used.
LEMMA DirBlocks ==
  ASSUME NEW m \in Metadata, Owned(m), Measured(m), NEW d \in Dirs(m)
  PROVE  /\ Block(m, d) \in m.bused /\ Block(m, d) \in Blocks
         /\ Elements(BlocksOf(m, d)) = {Block(m, d)}
         /\ \A i \in m.iused \ {d} : Block(m, d) \notin Elements(BlocksOf(m, i))
         /\ \A i \in Dirs(m) \ {d} : Block(m, d) # Block(m, i)
<1>1. \A i \in Dirs(m) : i \in m.iused /\ i \in INodes /\ m.inode[i] \in INodeRecords
  BY DEF Dirs, Metadata
<1>2. ASSUME NEW i \in Dirs(m)
      PROVE  Elements(BlocksOf(m, i)) = {Block(m, i)}
  <2>1. BlocksOf(m, i) \in Seq(Blocks) /\ Len(BlocksOf(m, i)) = 1
    BY <1>1 DEF BlocksOf, INodeRecords, Measured
  <2> QED  BY <2>1 DEF Elements, Block, BlocksOf
<1>3. d \in m.iused /\ Block(m, d) \in m.bused
  BY <1>1, <1>2 DEF Owned
<1>4. m.bused \subseteq Blocks
  BY DEF Metadata
<1>5. \A i \in m.iused \ {d} : Block(m, d) \notin Elements(BlocksOf(m, i))
  BY <1>2, <1>3 DEF Owned
<1>6. \A i \in Dirs(m) \ {d} : Block(m, d) # Block(m, i)
  BY <1>1, <1>2, <1>5
<1> QED
  BY <1>2, <1>3, <1>4, <1>5, <1>6

\* What directDataBlocks[0] may become when an inode is changed.
LEMMA FirstBlock ==
  ASSUME NEW f \in [INodes -> Blocks], NEW i \in INodes, NEW q \in Seq(Blocks)
  PROVE  [f EXCEPT ![i] = IF q = << >> THEN @ ELSE q[1]] \in [INodes -> Blocks]
<1>1. q # << >> => q[1] \in Blocks
  OBVIOUS
<1> QED
  BY <1>1

\* Metadata m with inode i in use.
Occupied(m, i, x) ==
  [m EXCEPT !.inode[i] = x, !.first[i] = IF x.blocks = << >> THEN @ ELSE x.blocks[1],
            !.iused = @ \cup {i}, !.bused = @ \cup Elements(x.blocks)]

\* What an inode may be.
FreshINode(m, x) ==
  /\ x \in INodeRecords /\ Elements(x.blocks) \subseteq Blocks \ m.bused
  /\ Distinct(x.blocks)
  /\ Len(x.blocks) <= DirectBlocks
  /\ IF x.dir THEN Len(x.blocks) = 1
     ELSE Len(x.blocks) - (x.size \div DataBlockSize) \in {0, 1}

\* Metadata r are m with inode i.
INodeMore(m, r, i, x) ==
  /\ r \in Metadata /\ Owned(r) /\ Measured(r)
  /\ r.iused = m.iused \cup {i} /\ r.files = m.files /\ r.used = m.used
  /\ Dirs(r) = Dirs(m) \cup (IF x.dir THEN {i} ELSE {})
  /\ r.inode[i] = x /\ \A j \in INodes \ {i} : r.inode[j] = m.inode[j]

\* A new inode with free blocks.
LEMMA INodeAdded ==
  ASSUME NEW m \in Metadata, Owned(m), Measured(m),
         NEW i \in INodes \ m.iused, NEW x, FreshINode(m, x),
         NEW r, r = Occupied(m, i, x)
  PROVE  INodeMore(m, r, i, x)
<1> USE DEF Occupied, FreshINode
<1>1. /\ m.inode \in [INodes -> INodeRecords]
      /\ m.iused \subseteq INodes /\ m.bused \subseteq Blocks
  BY DEF Metadata
<1>2. /\ r.iused = m.iused \cup {i} /\ r.files = m.files /\ r.used = m.used
      /\ r.bused = m.bused \cup Elements(x.blocks)
      /\ r.inode[i] = x /\ \A j \in INodes \ {i} : r.inode[j] = m.inode[j]
  BY <1>1 DEF Metadata
<1>3. r \in Metadata
  <2>1. [m.inode EXCEPT ![i] = x] \in [INodes -> INodeRecords]
    BY <1>1
  <2>2. m.iused \cup {i} \in SUBSET INodes
    BY <1>1
  <2>3. m.bused \cup Elements(x.blocks) \in SUBSET Blocks
    BY <1>1
  <2> DEFINE g == [m.first EXCEPT ![i] = IF x.blocks = << >> THEN @ ELSE x.blocks[1]]
  <2>4. g \in [INodes -> Blocks]
    BY FirstBlock DEF Metadata, INodeRecords
  <2> HIDE DEF g
  <2>5. r = [m EXCEPT !.inode = [m.inode EXCEPT ![i] = x], !.first = g,
                      !.iused = m.iused \cup {i}, !.bused = m.bused \cup Elements(x.blocks)]
    BY DEF g, Metadata
  <2> QED  BY <2>1, <2>2, <2>3, <2>4, <2>5 DEF Metadata
<1>4. Dirs(r) = Dirs(m) \cup (IF x.dir THEN {i} ELSE {})
  BY <1>1, <1>2 DEF Dirs
<1>5. BlocksOf(r, i) = x.blocks /\ \A j \in m.iused : BlocksOf(r, j) = BlocksOf(m, j)
  BY <1>1, <1>2 DEF BlocksOf
<1>6. Owned(r)
  <2>1. \A j \in m.iused : Elements(BlocksOf(m, j)) \subseteq m.bused
    BY DEF Owned
  <2>2. \A j \in m.iused : Elements(BlocksOf(m, j)) \cap Elements(x.blocks) = {}
    BY <2>1
  <2>3. r.bused = UNION {Elements(BlocksOf(r, j)) : j \in r.iused}
    <3>1. \A b : b \in m.bused <=> \E j \in m.iused : b \in Elements(BlocksOf(m, j))
      BY DEF Owned
    <3>2. \A b : b \in r.bused <=> \E j \in r.iused : b \in Elements(BlocksOf(r, j))
      BY <1>2, <1>5, <3>1
    <3> QED  BY <3>2
  <2>4. \A j \in r.iused : Distinct(BlocksOf(r, j))
    <3>1. \A j \in m.iused : Distinct(BlocksOf(r, j))
      BY <1>5 DEF Owned
    <3>2. Distinct(BlocksOf(r, i))
      BY <1>5
    <3> QED  BY <1>2, <3>1, <3>2
  <2>5. \A j, k \in r.iused : j # k =>
          Elements(BlocksOf(r, j)) \cap Elements(BlocksOf(r, k)) = {}
    <3> SUFFICES ASSUME NEW j \in r.iused, NEW k \in r.iused, j # k
                 PROVE  Elements(BlocksOf(r, j)) \cap Elements(BlocksOf(r, k)) = {}
      OBVIOUS
    <3>1. CASE j = i
      BY <1>2, <1>5, <2>2, <3>1
    <3>2. CASE k = i
      BY <1>2, <1>5, <2>2, <3>2
    <3>3. CASE j # i /\ k # i
      <4>1. j \in m.iused /\ k \in m.iused
        BY <1>2, <3>3
      <4> QED  BY <1>5, <4>1 DEF Owned
    <3> QED  BY <3>1, <3>2, <3>3
  <2> QED  BY <2>3, <2>4, <2>5 DEF Owned
<1>7. Measured(r)
  <2>1. \A j \in INodes : j # i => BlocksOf(r, j) = BlocksOf(m, j) /\ r.inode[j].size = m.inode[j].size
    BY <1>2 DEF BlocksOf
  <2>2. \A j \in Dirs(r) : Len(BlocksOf(r, j)) = 1
    BY <1>4, <1>5 DEF Measured, Dirs
  <2>3. \A j \in r.iused \ Dirs(r) :
          Len(BlocksOf(r, j)) - (r.inode[j].size \div DataBlockSize) \in {0, 1}
    <3> SUFFICES ASSUME NEW j \in r.iused \ Dirs(r)
                 PROVE  Len(BlocksOf(r, j)) - (r.inode[j].size \div DataBlockSize) \in {0, 1}
      OBVIOUS
    <3>1. CASE j = i
      BY <1>2, <1>4, <1>5, <3>1
    <3>2. CASE j # i
      <4>1. j \in m.iused \ Dirs(m) /\ j \in INodes
        BY <1>1, <1>2, <1>4, <3>2
      <4> QED  BY <2>1, <3>2, <4>1 DEF Measured
    <3> QED  BY <3>1, <3>2
  <2>4. \A j \in INodes : Len(BlocksOf(r, j)) <= DirectBlocks
    BY <1>5, <2>1 DEF Measured
  <2> QED  BY <2>2, <2>3, <2>4 DEF Measured
<1> QED
  BY <1>2, <1>3, <1>4, <1>6, <1>7 DEF INodeMore

-----------------------------------------------------------------------------
(* The commands, before the sizes are updated and all is saved *)

\* Names, as inodes and blocks, are finitely many.
LEMMA HeldFinite ==
  ASSUME NEW m \in Metadata, NEW c
  PROVE  /\ IsFiniteSet(INodes) /\ IsFiniteSet(Blocks)
         /\ IsFiniteSet(Held(m, c)) /\ \A i : IsFiniteSet(HeldOf(m, c, i))
<1>1. IsFiniteSet(INodes) /\ IsFiniteSet(Blocks)
  BY FS_Interval, DiskAssumption DEF INodes, Blocks
<1>2. Dirs(m) \subseteq INodes
  BY DEF Dirs, Metadata
<1>3. IsFiniteSet(Dirs(m) \X Names)
  BY <1>1, <1>2, FS_Subset, FS_Product, DiskAssumption
<1>4. IsFiniteSet(Held(m, c))
  BY <1>3, FS_Subset DEF Held
<1> QED
  BY <1>1, <1>4, FS_Subset DEF HeldOf

\* Metadata r and contents e have the shape, and as much is to be added to the
\* number of files as there are more names than before.
Outcome(m, c, r, e, G, count) ==
  /\ r \in Metadata /\ e \in Contents /\ Shape(r, e) /\ DirLinks(r, G)
  /\ r.files = m.files /\ Distance(r) = Distance(m)
  /\ Cardinality(Held(r, e)) = Cardinality(Held(m, c)) + count

\* One name more counts one.
LEMMA MoreCounted ==
  ASSUME NEW m \in Metadata, NEW c, NEW r, NEW e, NEW w, NEW n, NEW i,
         HeldMore(m, c, r, e, w, n, i)
  PROVE  /\ Cardinality(Held(r, e)) = Cardinality(Held(m, c)) + 1
         /\ Cardinality(HeldOf(r, e, i)) = Cardinality(HeldOf(m, c, i)) + 1
<1>1. IsFiniteSet(Held(m, c)) /\ IsFiniteSet(HeldOf(m, c, i))
  BY HeldFinite
<1>2. <<w, n>> \notin Held(m, c) /\ <<w, n>> \notin HeldOf(m, c, i)
  BY DEF HeldMore, HeldOf
<1>3. Cardinality(Held(m, c) \cup {<<w, n>>}) = Cardinality(Held(m, c)) + 1
  BY <1>1, <1>2, FS_AddElement
<1>4. Cardinality(HeldOf(m, c, i) \cup {<<w, n>>}) = Cardinality(HeldOf(m, c, i)) + 1
  BY <1>1, <1>2, FS_AddElement
<1> QED
  BY <1>3, <1>4 DEF HeldMore

\* One name less counts one.
LEMMA LessCounted ==
  ASSUME NEW m \in Metadata, NEW c, NEW r, NEW e, NEW w, NEW n, NEW i,
         HeldLess(m, c, r, e, w, n, i)
  PROVE  /\ Cardinality(Held(r, e)) = Cardinality(Held(m, c)) - 1
         /\ Cardinality(HeldOf(r, e, i)) = Cardinality(HeldOf(m, c, i)) - 1
<1>1. IsFiniteSet(Held(m, c)) /\ IsFiniteSet(HeldOf(m, c, i))
  BY HeldFinite
<1>2. <<w, n>> \in Held(m, c) /\ <<w, n>> \in HeldOf(m, c, i)
  BY DEF HeldLess, HeldOf
<1>3. Cardinality(Held(m, c) \ {<<w, n>>}) = Cardinality(Held(m, c)) - 1
  BY <1>1, <1>2, FS_RemoveElement
<1>4. Cardinality(HeldOf(m, c, i) \ {<<w, n>>}) = Cardinality(HeldOf(m, c, i)) - 1
  BY <1>1, <1>2, FS_RemoveElement
<1> QED
  BY <1>3, <1>4 DEF HeldLess

\* createDirectory: a directory without entries and a name for it.
LEMMA DirectoryAdded ==
  ASSUME NEW m \in Metadata, NEW c \in Contents, Shape(m, c), DirLinks(m, {}),
         NEW w \in Dirs(m), NEW n \in Names, n \notin DOMAIN Ents(m, c, w),
         DOMAIN Ents(m, c, w) \cup {n} \in Fitting,
         NEW i \in INodes \ m.iused, NEW b \in Blocks \ m.bused,
         NEW r, r = Occupied(m, i, DirectoryINode(b, w)),
         NEW e, e = [[c EXCEPT ![Block(m, w)] = Added(@, n, i)] EXCEPT ![b] = NoEntries]
  PROVE  Outcome(m, c, r, e, {}, 1) /\ w \in Dirs(r)
<1> DEFINE x == DirectoryINode(b, w)
<1>1. 0 \in Dirs(m) /\ 0 \in m.iused /\ Dirs(m) \subseteq m.iused /\ m.iused \subseteq INodes
  BY DEF Shape, Rooted, Dirs, Metadata
<1>2. w \in INodes /\ w # i /\ 0 # i
  BY <1>1
<1>3. DataBlockSize \in 0..(Word - 1) /\ 1 <= DirectBlocks
  <2>1. (LastBlock + 1) * DataBlockSize >= DataBlockSize
    BY DiskAssumption
  <2> QED  BY <2>1, DiskAssumption
<1>4. /\ x \in INodeRecords /\ x.dir /\ x.blocks = <<b>> /\ Elements(x.blocks) = {b}
      /\ x.links = 1 /\ x.parent = w /\ Len(x.blocks) = 1
  BY <1>2, <1>3 DEF DirectoryINode, INodeRecords, Elements
<1> HIDE DEF x
<1>5. /\ r \in Metadata /\ Owned(r) /\ Measured(r)
      /\ r.iused = m.iused \cup {i} /\ r.files = m.files /\ r.used = m.used
      /\ Dirs(r) = Dirs(m) \cup {i}
      /\ r.inode[i] = x /\ \A j \in INodes \ {i} : r.inode[j] = m.inode[j]
  <2>1. r = Occupied(m, i, x)
    BY DEF x
  <2>2. FreshINode(m, x)
    BY <1>3, <1>4 DEF FreshINode, Distinct
  <2>3. Dirs(m) \cup (IF x.dir THEN {i} ELSE {}) = Dirs(m) \cup {i}
    BY <1>4
  <2>4. INodeMore(m, r, i, x)
    BY <2>1, <2>2, INodeAdded DEF Shape
  <2> QED  BY <2>3, <2>4 DEF INodeMore
<1>6. \A d \in Dirs(m) : Block(m, d) \in Blocks /\ Block(m, d) # b
  BY DirBlocks DEF Shape
<1>7. /\ e \in Contents /\ e[b] = NoEntries
      /\ e[Block(m, w)] = Added(Ents(m, c, w), n, i)
      /\ \A z \in Blocks \ {b, Block(m, w)} : e[z] = c[z]
  <2>1. Ents(m, c, w) \in EntryMaps
    BY DEF Shape, NamesLead
  <2>2. Added(Ents(m, c, w), n, i) \in EntryMaps
    BY <2>1, EntryGiven DEF OneMore
  <2>3. NoEntries \in EntryMaps
    BY NoEntriesTyped
  <2> QED  BY <1>6, <2>2, <2>3 DEF Contents, Ents
<1>8. /\ \A d \in Dirs(m) \ {w} : Ents(r, e, d) = Ents(m, c, d)
      /\ Ents(r, e, w) = Added(Ents(m, c, w), n, i)
      /\ Ents(r, e, i) = NoEntries
  <2>1. \A d \in Dirs(m) : Block(r, d) = Block(m, d)
    BY <1>1, <1>5 DEF Block
  <2>2. Block(r, i) = b
    BY <1>4, <1>5 DEF Block
  <2>3. \A d \in Dirs(m) \ {w} : Block(m, d) \in Blocks \ {b, Block(m, w)}
    BY <1>6, DirBlocks DEF Shape
  <2> QED  BY <1>7, <2>1, <2>2, <2>3 DEF Ents
<1>9. /\ Ents(m, c, w) \in EntryMaps
      /\ Ents(r, e, w) \in EntryMaps
      /\ DOMAIN Ents(r, e, w) = DOMAIN Ents(m, c, w) \cup {n} /\ Ents(r, e, w)[n] = i
      /\ \A y \in DOMAIN Ents(m, c, w) : Ents(r, e, w)[y] = Ents(m, c, w)[y]
  <2>1. Ents(m, c, w) \in EntryMaps
    BY DEF Shape, NamesLead
  <2>2. i \in INodes
    OBVIOUS
  <2> DEFINE f == Ents(m, c, w)
             g == Added(f, n, i)
  <2>3. n \notin DOMAIN f /\ DOMAIN f \cup {n} \in Fitting
    OBVIOUS
  <2> HIDE DEF f
  <2>4. /\ g \in EntryMaps /\ DOMAIN g = DOMAIN f \cup {n} /\ g[n] = i
        /\ \A y \in DOMAIN f : g[y] = f[y]
    BY <2>1, <2>2, <2>3, EntryGiven DEF f, OneMore
  <2> QED  BY <1>8, <2>1, <2>4 DEF f
<1>10. Ents(r, e, i) \in EntryMaps /\ DOMAIN Ents(r, e, i) = {}
  BY <1>8, NoEntriesTyped DEF NoEntries
<1>11. /\ Cardinality(Held(r, e)) = Cardinality(Held(m, c)) + 1
       /\ HeldOf(r, e, i) = HeldOf(m, c, i) \cup {<<w, n>>}
       /\ \A j : j # i => HeldOf(r, e, j) = HeldOf(m, c, j)
  <2>1. NameGiven(m, c, r, e, w, n, i)
    BY <1>5, <1>8, <1>9, <1>10 DEF NameGiven
  <2>2. HeldMore(m, c, r, e, w, n, i)
    BY <2>1, NameAdded
  <2>3. Cardinality(Held(r, e)) = Cardinality(Held(m, c)) + 1
    BY <2>2, MoreCounted
  <2> QED  BY <2>2, <2>3 DEF HeldMore
<1>12. HeldOf(m, c, i) = {}
  <2>1. \A p \in Held(m, c) : Ents(m, c, p[1])[p[2]] \in m.iused
    BY DEF Held, Shape, NamesLead
  <2> QED  BY <2>1 DEF HeldOf
<1>13. \A j \in INodes : j # i => Parent(r, j) = Parent(m, j) /\ Links(r, j) = Links(m, j)
  BY <1>5 DEF Parent, Links
<1>14. Parent(r, i) = w /\ Links(r, i) = 1
  BY <1>4, <1>5 DEF Parent, Links
<1>15. Rooted(r)
  <2>1. 0 \in Dirs(r) /\ Parent(r, 0) = 0 /\ \A d \in Dirs(r) : Parent(r, d) \in Dirs(r)
    BY <1>1, <1>2, <1>5, <1>13, <1>14 DEF Shape, Rooted
  <2>2. ASSUME NEW S \in SUBSET (Dirs(r) \ {0}), S # {}
        PROVE  \E d \in S : Parent(r, d) \notin S
    <3>1. CASE S = {i}
      BY <1>2, <1>14, <3>1
    <3>2. CASE S # {i}
      <4>1. S \ {i} # {} /\ S \ {i} \in SUBSET (Dirs(m) \ {0})
        BY <1>5, <2>2, <3>2
      <4>2. PICK d \in S \ {i} : Parent(m, d) \notin S \ {i}
        BY <4>1 DEF Shape, Rooted, Acyclic
      <4>3. d \in Dirs(m) /\ Parent(m, d) \in Dirs(m) /\ i \notin Dirs(m)
        BY <1>1, <4>1, <4>2 DEF Shape, Rooted
      <4>4. Parent(r, d) = Parent(m, d)
        BY <1>1, <1>13, <4>2, <4>3
      <4> QED  BY <4>2, <4>3, <4>4
    <3> QED  BY <3>1, <3>2
  <2> QED  BY <2>1, <2>2 DEF Rooted, Acyclic
<1>16. NamesLead(r, e)
  <2> SUFFICES ASSUME NEW d \in Dirs(r)
               PROVE  /\ Ents(r, e, d) \in EntryMaps
                      /\ \A y \in DOMAIN Ents(r, e, d) : Ents(r, e, d)[y] \in r.iused \ {0}
    BY DEF NamesLead
  <2>1. CASE d = i
    BY <1>10, <2>1
  <2>2. CASE d = w
    <3>1. \A y \in DOMAIN Ents(m, c, w) : Ents(m, c, w)[y] \in m.iused \ {0}
      BY DEF Shape, NamesLead
    <3> QED  BY <1>2, <1>5, <1>9, <2>2, <3>1, ZenonT(40)
  <2>3. CASE d \in Dirs(m) \ {w}
    BY <1>5, <1>8, <2>3 DEF Shape, NamesLead
  <2>4. d = i \/ d = w \/ d \in Dirs(m) \ {w}
    BY <1>5
  <2> QED  BY <2>1, <2>2, <2>3, <2>4
<1>17. DirsNamed(r, e)
  <2> SUFFICES ASSUME NEW d \in Dirs(r) \ {0}
               PROVE  \E y \in DOMAIN Ents(r, e, Parent(r, d)) :
                        HeldOf(r, e, d) = {<<Parent(r, d), y>>}
    BY DEF DirsNamed
  <2>1. CASE d = i
    BY <1>9, <1>11, <1>12, <1>14, <2>1
  <2>2. CASE d # i
    <3>1. d \in Dirs(m) \ {0} /\ Parent(r, d) = Parent(m, d) /\ Parent(m, d) \in Dirs(m)
      BY <1>1, <1>5, <1>13, <2>2 DEF Shape, Rooted
    <3>2. PICK y \in DOMAIN Ents(m, c, Parent(m, d)) : HeldOf(m, c, d) = {<<Parent(m, d), y>>}
      BY <3>1 DEF Shape, DirsNamed
    <3>3. y \in DOMAIN Ents(r, e, Parent(r, d))
      BY <1>8, <1>9, <3>1, <3>2
    <3> QED  BY <1>11, <2>2, <3>1, <3>2, <3>3
  <2> QED  BY <2>1, <2>2
<1>18. FilesNamed(r, e)
  <2>1. r.iused \ Dirs(r) = m.iused \ Dirs(m)
    BY <1>1, <1>5
  <2>2. \A j \in m.iused \ Dirs(m) : j \in INodes /\ j # i
    BY <1>1
  <2> QED  BY <1>11, <1>13, <2>1, <2>2 DEF Shape, FilesNamed
<1>19. DirLinks(r, {})
  BY <1>1, <1>5, <1>13, <1>14 DEF DirLinks
<1>20. Distance(r) = Distance(m)
  BY <1>1, <1>2, <1>5 DEF Distance
<1> QED
  BY <1>5, <1>7, <1>11, <1>15, <1>16, <1>17, <1>18, <1>19, <1>20 DEF Outcome, Shape

\* Entries that are written to the block of a directory.
WrittenTo(m, c, e, w, v) ==
  /\ e \in Contents /\ Ents(m, e, w) = v
  /\ \A d \in Dirs(m) \ {w} : Ents(m, e, d) = Ents(m, c, d)

\* No other directory changes.
LEMMA EntriesWritten ==
  ASSUME NEW m \in Metadata, NEW c \in Contents, Owned(m), Measured(m),
         NEW w \in Dirs(m), NEW v \in EntryMaps,
         NEW e, e = [c EXCEPT ![Block(m, w)] = v]
  PROVE  WrittenTo(m, c, e, w, v)
<1>1. Block(m, w) \in Blocks /\ \A d \in Dirs(m) \ {w} : Block(m, d) # Block(m, w)
  BY DirBlocks
<1>2. \A d \in Dirs(m) \ {w} : Block(m, d) \in Blocks
  BY DirBlocks
<1>3. e \in Contents /\ e[Block(m, w)] = v
  BY <1>1 DEF Contents
<1>4. \A d \in Dirs(m) \ {w} : e[Block(m, d)] = c[Block(m, d)]
  BY <1>1, <1>2 DEF Contents
<1> QED
  BY <1>3, <1>4 DEF WrittenTo, Ents

\* A file i that is new, or has other names, gets a name more in directory w.
FileNamed(m, r, i, links) ==
  /\ r.iused = m.iused \cup {i} /\ i \in INodes \ {0} /\ i \notin Dirs(m)
  /\ Dirs(r) = Dirs(m) /\ Owned(r) /\ Measured(r)
  /\ Links(r, i) = links /\ links \in Nat \ {0}
  /\ \A j \in m.iused \ {i} : Links(r, j) = Links(m, j)
  /\ \A j \in Dirs(m) : Parent(r, j) = Parent(m, j)
  /\ \A j \in Dirs(m) : BlocksOf(r, j) = BlocksOf(m, j)
  /\ r.files = m.files /\ Distance(r) = Distance(m)

\* The shape is kept.
LEMMA NameOfFileAdded ==
  ASSUME NEW m \in Metadata, NEW c \in Contents, Shape(m, c),
         NEW G, DirLinks(m, G), NEW w \in Dirs(m), NEW n \in Names,
         n \notin DOMAIN Ents(m, c, w), DOMAIN Ents(m, c, w) \cup {n} \in Fitting,
         NEW r \in Metadata, NEW i,
         FileNamed(m, r, i, Cardinality(HeldOf(m, c, i)) + 1),
         NEW e \in Contents, Ents(m, e, w) = Added(Ents(m, c, w), n, i),
         \A d \in Dirs(m) \ {w} : Ents(m, e, d) = Ents(m, c, d)
  PROVE  Outcome(m, c, r, e, G, 1)
<1>1. /\ r.iused = m.iused \cup {i} /\ i \in INodes \ {0} /\ i \notin Dirs(m)
      /\ Dirs(r) = Dirs(m) /\ Owned(r) /\ Measured(r)
      /\ Links(r, i) = Cardinality(HeldOf(m, c, i)) + 1 /\ Links(r, i) > 0
      /\ \A j \in m.iused \ {i} : Links(r, j) = Links(m, j)
      /\ \A j \in Dirs(m) : Parent(r, j) = Parent(m, j)
      /\ \A j \in Dirs(m) : BlocksOf(r, j) = BlocksOf(m, j)
      /\ r.files = m.files /\ Distance(r) = Distance(m)
  BY DEF FileNamed
<1>2. Dirs(m) \subseteq m.iused /\ m.iused \subseteq INodes
  BY DEF Dirs, Metadata
<1>3. /\ Rooted(m) /\ NamesLead(m, c) /\ DirsNamed(m, c) /\ FilesNamed(m, c)
  BY DEF Shape
<1>4. \A d \in Dirs(m) : Ents(r, e, d) = Ents(m, e, d)
  BY <1>1 DEF Ents, Block, BlocksOf
<1>5. /\ Ents(m, c, w) \in EntryMaps
      /\ Ents(r, e, w) \in EntryMaps
      /\ DOMAIN Ents(r, e, w) = DOMAIN Ents(m, c, w) \cup {n} /\ Ents(r, e, w)[n] = i
      /\ \A y \in DOMAIN Ents(m, c, w) : Ents(r, e, w)[y] = Ents(m, c, w)[y]
  <2> DEFINE f == Ents(m, c, w)
             g == Added(f, n, i)
  <2>1. /\ f \in EntryMaps /\ n \notin DOMAIN f /\ i \in INodes
        /\ DOMAIN f \cup {n} \in Fitting
    BY <1>1, <1>3 DEF NamesLead
  <2>2. Ents(r, e, w) = g
    BY <1>4
  <2> HIDE DEF f
  <2>3. /\ g \in EntryMaps /\ DOMAIN g = DOMAIN f \cup {n} /\ g[n] = i
        /\ \A y \in DOMAIN f : g[y] = f[y]
    BY <2>1, EntryGiven, ZenonT(40) DEF OneMore
  <2> QED  BY <2>1, <2>2, <2>3 DEF f
<1>6. \A d \in Dirs(m) \ {w} : Ents(r, e, d) = Ents(m, c, d)
  BY <1>4
<1>7. HeldMore(m, c, r, e, w, n, i)
  <2>1. NameGiven(m, c, r, e, w, n, i)
    BY <1>1, <1>5, <1>6 DEF NameGiven
  <2> QED  BY <2>1, NameAdded
<1>8. /\ \A j : j # i => HeldOf(r, e, j) = HeldOf(m, c, j)
      /\ Cardinality(Held(r, e)) = Cardinality(Held(m, c)) + 1
      /\ Cardinality(HeldOf(r, e, i)) = Cardinality(HeldOf(m, c, i)) + 1
  <2>1. Cardinality(Held(r, e)) = Cardinality(Held(m, c)) + 1
    BY <1>7, MoreCounted
  <2>2. Cardinality(HeldOf(r, e, i)) = Cardinality(HeldOf(m, c, i)) + 1
    BY <1>7, MoreCounted
  <2> QED  BY <1>7, <2>1, <2>2 DEF HeldMore
<1>9. Rooted(r)
  BY <1>1, <1>3 DEF Rooted, Acyclic
<1>10. NamesLead(r, e)
  <2> SUFFICES ASSUME NEW d \in Dirs(m)
               PROVE  /\ Ents(r, e, d) \in EntryMaps
                      /\ \A y \in DOMAIN Ents(r, e, d) : Ents(r, e, d)[y] \in r.iused \ {0}
    BY <1>1 DEF NamesLead
  <2>1. CASE d = w
    <3>1. \A y \in DOMAIN Ents(m, c, w) : Ents(m, c, w)[y] \in m.iused \ {0}
      BY <1>3 DEF NamesLead
    <3> QED  BY <1>1, <1>5, <2>1, <3>1
  <2>2. CASE d # w
    BY <1>1, <1>3, <1>6, <2>2 DEF NamesLead
  <2> QED  BY <2>1, <2>2
<1>11. DirsNamed(r, e)
  <2> SUFFICES ASSUME NEW d \in Dirs(m) \ {0}
               PROVE  \E y \in DOMAIN Ents(r, e, Parent(r, d)) :
                        HeldOf(r, e, d) = {<<Parent(r, d), y>>}
    BY <1>1 DEF DirsNamed
  <2>1. d # i /\ Parent(r, d) = Parent(m, d) /\ Parent(m, d) \in Dirs(m)
    BY <1>1, <1>3 DEF Rooted
  <2>2. PICK y \in DOMAIN Ents(m, c, Parent(m, d)) : HeldOf(m, c, d) = {<<Parent(m, d), y>>}
    BY <1>3 DEF DirsNamed
  <2>3. y \in DOMAIN Ents(r, e, Parent(r, d))
    BY <1>5, <1>6, <2>1, <2>2
  <2> QED  BY <1>8, <2>1, <2>2, <2>3
<1>12. FilesNamed(r, e)
  <2> SUFFICES ASSUME NEW j \in r.iused \ Dirs(r)
               PROVE  Links(r, j) = Cardinality(HeldOf(r, e, j)) /\ Links(r, j) > 0
    BY DEF FilesNamed
  <2>1. CASE j = i
    BY <1>1, <1>8, <2>1
  <2>2. CASE j # i
    BY <1>1, <1>3, <1>8, <2>2 DEF FilesNamed
  <2> QED  BY <2>1, <2>2
<1>13. DirLinks(r, G)
  BY <1>1, <1>2 DEF DirLinks
<1> QED
  BY <1>1, <1>8, <1>9, <1>10, <1>11, <1>12, <1>13 DEF Outcome, Shape

\* An inode that is not in use has no names.
LEMMA UnusedUnnamed ==
  ASSUME NEW m \in Metadata, NEW c, Shape(m, c), NEW i, i \notin m.iused
  PROVE  HeldOf(m, c, i) = {} /\ Cardinality(HeldOf(m, c, i)) = 0
<1>1. \A p \in Held(m, c) : Ents(m, c, p[1])[p[2]] \in m.iused
  BY DEF Held, Shape, NamesLead
<1>2. HeldOf(m, c, i) = {}
  BY <1>1 DEF HeldOf
<1> QED
  BY <1>2, FS_EmptySet

\* copyFileFromSystemDisk: a file, its blocks and a name for it.
LEMMA FileAdded ==
  ASSUME NEW m \in Metadata, NEW c \in Contents, Shape(m, c),
         NEW G, DirLinks(m, G), NEW w \in Dirs(m), NEW n \in Names,
         n \notin DOMAIN Ents(m, c, w), DOMAIN Ents(m, c, w) \cup {n} \in Fitting,
         NEW i \in INodes \ m.iused,
         NEW x, FreshINode(m, x), ~ x.dir, x.links = 1,
         NEW r, r = Occupied(m, i, x),
         NEW e, e = [b \in Blocks |->
                       IF b \in Elements(x.blocks) THEN DATA
                       ELSE [c EXCEPT ![Block(m, w)] = Added(@, n, i)][b]]
  PROVE  Outcome(m, c, r, e, G, 1) /\ Dirs(r) = Dirs(m)
<1> DEFINE a == [c EXCEPT ![Block(m, w)] = Added(@, n, i)]
<1>1. 0 \in Dirs(m) /\ Dirs(m) \subseteq m.iused /\ m.iused \subseteq INodes
  BY DEF Dirs, Metadata, Shape, Rooted
<1>2. /\ r \in Metadata /\ Owned(r) /\ Measured(r)
      /\ r.iused = m.iused \cup {i} /\ r.files = m.files /\ r.used = m.used
      /\ Dirs(r) = Dirs(m)
      /\ r.inode[i] = x /\ \A j \in INodes \ {i} : r.inode[j] = m.inode[j]
  <2>1. Dirs(m) \cup (IF x.dir THEN {i} ELSE {}) = Dirs(m)
    OBVIOUS
  <2>2. INodeMore(m, r, i, x)
    BY INodeAdded DEF Shape
  <2> QED  BY <2>1, <2>2 DEF INodeMore
<1>3. WrittenTo(m, c, a, w, Added(Ents(m, c, w), n, i))
  <2>1. Ents(m, c, w) \in EntryMaps
    BY DEF Shape, NamesLead
  <2>2. Added(Ents(m, c, w), n, i) \in EntryMaps
    BY <2>1, EntryGiven DEF OneMore
  <2>3. a = [c EXCEPT ![Block(m, w)] = Added(Ents(m, c, w), n, i)]
    BY DEF Ents
  <2> HIDE DEF a
  <2> QED  BY <2>2, <2>3, EntriesWritten DEF Shape
<1> HIDE DEF a
<1>4. e = [b \in Blocks |-> IF b \in Elements(x.blocks) THEN DATA ELSE a[b]]
  BY DEF a
<1>5. e \in Contents
  BY <1>3, <1>4 DEF WrittenTo, Contents
<1>6. \A d \in Dirs(m) : Ents(m, e, d) = Ents(m, a, d)
  <2> SUFFICES ASSUME NEW d \in Dirs(m)
               PROVE  e[Block(m, d)] = a[Block(m, d)]
    BY DEF Ents
  <2>1. Block(m, d) \in Blocks /\ Block(m, d) \in m.bused
    BY DirBlocks DEF Shape
  <2>2. Block(m, d) \notin Elements(x.blocks)
    BY <2>1 DEF FreshINode
  <2> QED  BY <1>4, <2>1, <2>2
<1>7. FileNamed(m, r, i, Cardinality(HeldOf(m, c, i)) + 1)
  <2>1. Cardinality(HeldOf(m, c, i)) = 0
    BY UnusedUnnamed
  <2>2. i # 0 /\ i \notin Dirs(m)
    BY <1>1
  <2>3. Distance(r) = Distance(m)
    BY <1>1, <1>2, <2>2 DEF Distance
  <2>4. \A j \in m.iused : Links(r, j) = Links(m, j) /\ Parent(r, j) = Parent(m, j)
                           /\ BlocksOf(r, j) = BlocksOf(m, j)
    BY <1>1, <1>2 DEF Links, Parent, BlocksOf
  <2>5. Links(r, i) = 1
    BY <1>2 DEF Links
  <2> QED  BY <1>1, <1>2, <2>1, <2>2, <2>3, <2>4, <2>5 DEF FileNamed
<1>8. Ents(m, e, w) = Added(Ents(m, c, w), n, i)
  BY <1>3, <1>6 DEF WrittenTo
<1>9. \A d \in Dirs(m) \ {w} : Ents(m, e, d) = Ents(m, c, d)
  BY <1>3, <1>6 DEF WrittenTo
<1> QED
  BY <1>2, <1>5, <1>7, <1>8, <1>9, NameOfFileAdded

\* The links of inode i become l, and nothing else changes.
Relinked(m, r, i, l) ==
  /\ r \in Metadata /\ r.iused = m.iused /\ r.bused = m.bused
  /\ r.files = m.files /\ Distance(r) = Distance(m)
  /\ Dirs(r) = Dirs(m) /\ Owned(r) /\ Measured(r)
  /\ Links(r, i) = l /\ \A j \in INodes \ {i} : Links(r, j) = Links(m, j)
  /\ \A j \in INodes : Parent(r, j) = Parent(m, j) /\ BlocksOf(r, j) = BlocksOf(m, j)

\* A change of the links.
LEMMA LinksChanged ==
  ASSUME NEW m \in Metadata, Owned(m), Measured(m), NEW i \in INodes, NEW l \in Nat,
         NEW r, r = [m EXCEPT !.inode[i].links = l]
  PROVE  Relinked(m, r, i, l)
<1>1. /\ m.inode \in [INodes -> INodeRecords]
      /\ m.iused \subseteq INodes /\ Dirs(m) \subseteq INodes /\ 0 \in INodes
  BY DiskAssumption DEF Metadata, Dirs, INodes
<1> DEFINE x == [m.inode[i] EXCEPT !.links = l]
<1>2. /\ x \in INodeRecords /\ x.links = l /\ x.dir = m.inode[i].dir
      /\ x.blocks = m.inode[i].blocks /\ x.size = m.inode[i].size
      /\ x.parent = m.inode[i].parent
  BY <1>1 DEF INodeRecords
<1>3. r = [m EXCEPT !.inode = [m.inode EXCEPT ![i] = x]]
  BY DEF Metadata
<1> HIDE DEF x
<1>4. /\ r.iused = m.iused /\ r.bused = m.bused /\ r.files = m.files /\ r.used = m.used
      /\ r.inode[i] = x /\ \A j \in INodes \ {i} : r.inode[j] = m.inode[j]
  BY <1>1, <1>3 DEF Metadata
<1>5. r \in Metadata
  <2>1. [m.inode EXCEPT ![i] = x] \in [INodes -> INodeRecords]
    BY <1>1, <1>2
  <2> QED  BY <1>3, <2>1 DEF Metadata
<1>6. Dirs(r) = Dirs(m)
  BY <1>1, <1>2, <1>4 DEF Dirs
<1>7. \A j \in INodes : /\ Parent(r, j) = Parent(m, j) /\ BlocksOf(r, j) = BlocksOf(m, j)
                        /\ r.inode[j].size = m.inode[j].size
  BY <1>2, <1>4 DEF Parent, BlocksOf
<1>8. Owned(r)
  BY <1>1, <1>4, <1>7 DEF Owned
<1>9. Measured(r)
  BY <1>1, <1>4, <1>6, <1>7 DEF Measured
<1>10. Links(r, i) = l /\ \A j \in INodes \ {i} : Links(r, j) = Links(m, j)
  BY <1>2, <1>4 DEF Links
<1>11. Distance(r) = Distance(m)
  BY <1>1, <1>4, <1>7 DEF Distance
<1> QED
  BY <1>4, <1>5, <1>6, <1>7, <1>8, <1>9, <1>10, <1>11 DEF Relinked

\* createHardLink: one link and one name more of a file.
LEMMA LinkAdded ==
  ASSUME NEW m \in Metadata, NEW c \in Contents, Shape(m, c),
         NEW G, DirLinks(m, G), NEW w \in Dirs(m), NEW n \in Names,
         n \notin DOMAIN Ents(m, c, w), DOMAIN Ents(m, c, w) \cup {n} \in Fitting,
         NEW i \in m.iused, i \notin Dirs(m),
         NEW r, r = [m EXCEPT !.inode[i].links = @ + 1],
         NEW e, e = [c EXCEPT ![Block(m, w)] = Added(@, n, i)]
  PROVE  Outcome(m, c, r, e, G, 1) /\ Dirs(r) = Dirs(m)
<1>1. 0 \in Dirs(m) /\ Dirs(m) \subseteq m.iused /\ m.iused \subseteq INodes
  BY DEF Dirs, Metadata, Shape, Rooted
<1>2. Links(m, i) \in Nat /\ Links(m, i) = Cardinality(HeldOf(m, c, i)) /\ i \in INodes
  BY <1>1 DEF Shape, FilesNamed, Metadata, INodeRecords, Links
<1>3. Relinked(m, r, i, Links(m, i) + 1)
  <2>1. r = [m EXCEPT !.inode[i].links = Links(m, i) + 1]
    BY <1>2 DEF Links
  <2>2. Links(m, i) + 1 \in Nat
    BY <1>2
  <2> QED  BY <1>2, <2>1, <2>2, LinksChanged DEF Shape
<1>4. FileNamed(m, r, i, Cardinality(HeldOf(m, c, i)) + 1)
  <2>1. i # 0 /\ r.iused = m.iused \cup {i}
    BY <1>1, <1>3 DEF Relinked
  <2> QED  BY <1>1, <1>2, <1>3, <2>1 DEF FileNamed, Relinked
<1>5. WrittenTo(m, c, e, w, Added(Ents(m, c, w), n, i))
  <2>1. Ents(m, c, w) \in EntryMaps
    BY DEF Shape, NamesLead
  <2>2. Added(Ents(m, c, w), n, i) \in EntryMaps
    BY <1>2, <2>1, EntryGiven DEF OneMore
  <2>3. e = [c EXCEPT ![Block(m, w)] = Added(Ents(m, c, w), n, i)]
    BY DEF Ents
  <2> QED  BY <2>2, <2>3, EntriesWritten DEF Shape
<1> QED
  BY <1>3, <1>4, <1>5, NameOfFileAdded DEF WrittenTo, Relinked

\* A file loses a link, and with the last one its inode and blocks.
FileLess(m, r, i) ==
  /\ r \in Metadata /\ Owned(r) /\ Measured(r) /\ Dirs(r) = Dirs(m)
  /\ r.iused = IF Links(m, i) = 1 THEN m.iused \ {i} ELSE m.iused
  /\ Links(r, i) = Links(m, i) - 1
  /\ \A j \in INodes \ {i} : Links(r, j) = Links(m, j)
  /\ \A j \in INodes : Parent(r, j) = Parent(m, j) /\ BlocksOf(r, j) = BlocksOf(m, j)
  /\ r.files = m.files /\ Distance(r) = Distance(m)

\* Metadata m without a link of file i.
Unlinked(m, i) ==
  LET last == m.inode[i].links = 1
  IN  [m EXCEPT !.inode[i].links = @ - 1,
                !.iused = IF last THEN @ \ {i} ELSE @,
                !.bused = IF last THEN @ \ Elements(m.inode[i].blocks) ELSE @]

\* The blocks that are freed are no other inode's.
LEMMA FileLinkTaken ==
  ASSUME NEW m \in Metadata, Owned(m), Measured(m), NEW i \in m.iused, i \notin Dirs(m),
         Links(m, i) > 0, NEW r, r = Unlinked(m, i)
  PROVE  FileLess(m, r, i)
<1> DEFINE l == Links(m, i) - 1
           q == [m EXCEPT !.inode[i].links = l]
<1>1. i \in INodes /\ Links(m, i) \in Nat /\ l \in Nat
  BY DEF Metadata, INodeRecords, Links
<1>2. Relinked(m, q, i, l)
  <2> HIDE DEF l
  <2> QED  BY <1>1, LinksChanged
<1>3. r = [q EXCEPT !.iused = IF Links(m, i) = 1 THEN m.iused \ {i} ELSE m.iused,
                    !.bused = IF Links(m, i) = 1 THEN m.bused \ Elements(BlocksOf(m, i))
                              ELSE m.bused]
  BY DEF Unlinked, Links, BlocksOf, Metadata
<1> HIDE DEF l, q
<1>4. /\ r.inode = q.inode /\ r.files = m.files /\ r.used = q.used
      /\ r.iused = IF Links(m, i) = 1 THEN m.iused \ {i} ELSE m.iused
      /\ r.bused = IF Links(m, i) = 1 THEN m.bused \ Elements(BlocksOf(m, i)) ELSE m.bused
  BY <1>2, <1>3 DEF Relinked, Metadata
<1>5. r \in Metadata
  BY <1>2, <1>3, ZenonT(40) DEF Relinked, Metadata
<1>6. Dirs(r) = Dirs(m)
  <2>1. Dirs(r) = {j \in r.iused : q.inode[j].dir}
    BY <1>4 DEF Dirs
  <2>2. Dirs(m) = {j \in m.iused : q.inode[j].dir}
    BY <1>2 DEF Dirs, Relinked
  <2> QED  BY <1>4, <2>1, <2>2
<1>7. /\ Links(r, i) = l /\ \A j \in INodes \ {i} : Links(r, j) = Links(m, j)
      /\ \A j \in INodes : Parent(r, j) = Parent(m, j) /\ BlocksOf(r, j) = BlocksOf(m, j)
  BY <1>2, <1>4 DEF Relinked, Links, Parent, BlocksOf
<1>8. Distance(r) = Distance(m)
  BY <1>2, <1>4 DEF Relinked, Distance
<1>9. m.iused \subseteq INodes /\ r.iused \subseteq m.iused
  BY <1>4 DEF Metadata
<1>10. Owned(r)
  <2>1. \A j \in r.iused : Distinct(BlocksOf(r, j))
    BY <1>7, <1>9 DEF Owned
  <2>2. \A j, k \in r.iused : j # k =>
          Elements(BlocksOf(r, j)) \cap Elements(BlocksOf(r, k)) = {}
    BY <1>7, <1>9 DEF Owned
  <2>3. r.bused = UNION {Elements(BlocksOf(r, j)) : j \in r.iused}
    <3>1. \A b : b \in m.bused <=> \E j \in m.iused : b \in Elements(BlocksOf(m, j))
      BY DEF Owned
    <3>2. \A j \in m.iused \ {i} : Elements(BlocksOf(m, i)) \cap Elements(BlocksOf(m, j)) = {}
      BY DEF Owned
    <3>3. \A b : b \in r.bused <=> \E j \in r.iused : b \in Elements(BlocksOf(m, j))
      <4>1. CASE Links(m, i) = 1
        BY <1>4, <3>1, <3>2, <4>1
      <4>2. CASE Links(m, i) # 1
        BY <1>4, <3>1, <4>2
      <4> QED  BY <4>1, <4>2
    <3>4. \A b : b \in r.bused <=> \E j \in r.iused : b \in Elements(BlocksOf(r, j))
      BY <1>7, <1>9, <3>3
    <3> QED  BY <3>4
  <2> QED  BY <2>1, <2>2, <2>3 DEF Owned
<1>11. Measured(r)
  <2>1. Measured(q) /\ Dirs(q) = Dirs(m) /\ q.iused = m.iused
    BY <1>2 DEF Relinked
  <2>2. \A j \in INodes : BlocksOf(r, j) = BlocksOf(q, j) /\ r.inode[j].size = q.inode[j].size
    BY <1>4 DEF BlocksOf
  <2>3. \A j \in r.iused \ Dirs(r) : j \in q.iused \ Dirs(q) /\ j \in INodes
    BY <1>6, <1>9, <2>1
  <2>4. \A j \in Dirs(r) : j \in Dirs(q) /\ j \in INodes
    BY <1>6, <1>9, <2>1 DEF Dirs
  <2>5. \A j \in r.iused \ Dirs(r) :
          Len(BlocksOf(r, j)) - (r.inode[j].size \div DataBlockSize) \in {0, 1}
    BY <2>1, <2>2, <2>3 DEF Measured
  <2>6. /\ \A j \in Dirs(r) : Len(BlocksOf(r, j)) = 1
        /\ \A j \in INodes : Len(BlocksOf(r, j)) <= DirectBlocks
    BY <2>1, <2>2, <2>4 DEF Measured
  <2> QED  BY <2>5, <2>6 DEF Measured
<1> QED
  BY <1>4, <1>5, <1>6, <1>7, <1>8, <1>10, <1>11 DEF FileLess, l

\* Metadata r and contents e are without a name of a file of directory w.
FileGone(m, c, r, e, G, w, n) ==
  /\ Outcome(m, c, r, e, G, -1) /\ Dirs(r) = Dirs(m)
  /\ NameGone(m, c, r, e, w, n)

\* deleteFile: a name of a file is erased, and the file is gone with the last.
LEMMA FileTaken ==
  ASSUME NEW m \in Metadata, NEW c \in Contents, Shape(m, c),
         NEW G, DirLinks(m, G), NEW w \in Dirs(m), NEW n \in DOMAIN Ents(m, c, w),
         NEW i, i = Ents(m, c, w)[n], i \notin Dirs(m),
         NEW r, r = Unlinked(m, i),
         NEW e, e = [c EXCEPT ![Block(m, w)] = Erased(@, n)]
  PROVE  FileGone(m, c, r, e, G, w, n)
<1>1. /\ Dirs(m) \subseteq m.iused /\ m.iused \subseteq INodes
      /\ Rooted(m) /\ NamesLead(m, c) /\ DirsNamed(m, c) /\ FilesNamed(m, c)
      /\ Owned(m) /\ Measured(m)
  BY DEF Dirs, Metadata, Shape
<1>2. i \in m.iused \ {0} /\ n \in Names /\ Ents(m, c, w) \in EntryMaps
  <2>1. Ents(m, c, w) \in EntryMaps /\ i \in m.iused \ {0}
    BY <1>1 DEF NamesLead
  <2> QED  BY <2>1, EntriesTyped
<1>3. Links(m, i) = Cardinality(HeldOf(m, c, i)) /\ Links(m, i) > 0 /\ Links(m, i) \in Nat
  BY <1>1, <1>2 DEF FilesNamed, Metadata, INodeRecords, Links
<1>4. FileLess(m, r, i)
  BY <1>1, <1>2, <1>3, FileLinkTaken
<1>5. /\ r \in Metadata /\ Owned(r) /\ Measured(r) /\ Dirs(r) = Dirs(m)
      /\ r.iused = IF Links(m, i) = 1 THEN m.iused \ {i} ELSE m.iused
      /\ Links(r, i) = Links(m, i) - 1
      /\ \A j \in INodes \ {i} : Links(r, j) = Links(m, j)
      /\ \A j \in INodes : Parent(r, j) = Parent(m, j) /\ BlocksOf(r, j) = BlocksOf(m, j)
      /\ r.files = m.files /\ Distance(r) = Distance(m)
  BY <1>4 DEF FileLess
<1>6. OneLess(Ents(m, c, w), Erased(Ents(m, c, w), n), n)
  BY <1>2, EntryTaken
<1>7. WrittenTo(m, c, e, w, Erased(Ents(m, c, w), n))
  <2>1. e = [c EXCEPT ![Block(m, w)] = Erased(Ents(m, c, w), n)]
    BY DEF Ents
  <2> QED  BY <1>1, <1>6, <2>1, EntriesWritten DEF OneLess
<1>8. \A d \in Dirs(m) : Ents(r, e, d) = Ents(m, e, d)
  BY <1>1, <1>5 DEF Ents, Block, BlocksOf
<1>9. /\ Ents(r, e, w) = Erased(Ents(m, c, w), n)
      /\ \A d \in Dirs(m) \ {w} : Ents(r, e, d) = Ents(m, c, d)
  BY <1>7, <1>8 DEF WrittenTo
<1>10. /\ DOMAIN Ents(r, e, w) = DOMAIN Ents(m, c, w) \ {n}
       /\ \A y \in DOMAIN Ents(m, c, w) \ {n} : Ents(r, e, w)[y] = Ents(m, c, w)[y]
  BY <1>6, <1>9 DEF OneLess
<1>11. NameGone(m, c, r, e, w, n)
  BY <1>2, <1>5, <1>9, <1>10 DEF NameGone
<1>12. HeldLess(m, c, r, e, w, n, i)
  BY <1>11, NameErased
<1>13. /\ \A j : j # i => HeldOf(r, e, j) = HeldOf(m, c, j)
       /\ <<w, n>> \in HeldOf(m, c, i)
       /\ HeldOf(r, e, i) = HeldOf(m, c, i) \ {<<w, n>>}
  BY <1>12 DEF HeldLess
<1>14. Cardinality(Held(r, e)) = Cardinality(Held(m, c)) - 1
  BY <1>12, LessCounted
<1>15. Cardinality(HeldOf(r, e, i)) = Cardinality(HeldOf(m, c, i)) - 1
  BY <1>12, LessCounted
<1>16. Rooted(r)
  BY <1>1, <1>5 DEF Rooted, Acyclic
<1>17. NamesLead(r, e)
  <2> SUFFICES ASSUME NEW d \in Dirs(m)
               PROVE  /\ Ents(r, e, d) \in EntryMaps
                      /\ \A y \in DOMAIN Ents(r, e, d) : Ents(r, e, d)[y] \in r.iused \ {0}
    <3>1. Dirs(r) = Dirs(m)
      BY <1>5
    <3> QED  BY <3>1, ZenonT(60) DEF NamesLead
  <2>1. Ents(r, e, d) \in EntryMaps
    BY <1>1, <1>6, <1>9 DEF NamesLead, OneLess
  <2>2. ASSUME NEW y \in DOMAIN Ents(r, e, d)
        PROVE  Ents(r, e, d)[y] \in r.iused \ {0}
    <3> DEFINE z == Ents(r, e, d)[y]
    <3>1. y \in DOMAIN Ents(m, c, d) /\ z = Ents(m, c, d)[y]
      BY <1>9, <1>10
    <3>2. z \in m.iused \ {0}
      BY <1>1, <3>1 DEF NamesLead
    <3>3. ASSUME Links(m, i) = 1
          PROVE  z # i
      <4>1. IsFiniteSet(HeldOf(r, e, i))
        BY <1>5, HeldFinite
      <4>2. HeldOf(r, e, i) = {}
        BY <1>3, <1>15, <3>3, <4>1, FS_EmptySet
      <4>3. y \in Names
        BY <2>1, EntriesTyped
      <4>4. <<d, y>> \in Held(r, e)
        BY <1>5, <4>3 DEF Held
      <4>5. z = i => <<d, y>> \in HeldOf(r, e, i)
        BY <4>4 DEF HeldOf
      <4> QED  BY <4>2, <4>5
    <3> QED  BY <1>5, <3>2, <3>3
  <2> QED  BY <2>1, <2>2
<1>18. DirsNamed(r, e)
  <2> SUFFICES ASSUME NEW d \in Dirs(m) \ {0}
               PROVE  \E y \in DOMAIN Ents(r, e, Parent(r, d)) :
                        HeldOf(r, e, d) = {<<Parent(r, d), y>>}
    <3>1. Dirs(r) \ {0} = Dirs(m) \ {0}
      BY <1>5
    <3> QED  BY <3>1 DEF DirsNamed
  <2>1. d # i /\ Parent(r, d) = Parent(m, d) /\ Parent(m, d) \in Dirs(m)
    BY <1>1, <1>5 DEF Rooted
  <2>2. PICK y \in DOMAIN Ents(m, c, Parent(m, d)) : HeldOf(m, c, d) = {<<Parent(m, d), y>>}
    BY <1>1 DEF DirsNamed
  <2>3. <<Parent(m, d), y>> # <<w, n>>
    BY <1>13, <2>1, <2>2 DEF HeldOf
  <2>4. y \in DOMAIN Ents(r, e, Parent(r, d))
    BY <1>9, <1>10, <2>1, <2>2, <2>3
  <2> QED  BY <1>13, <2>1, <2>2, <2>4
<1>19. FilesNamed(r, e)
  <2> SUFFICES ASSUME NEW j \in r.iused \ Dirs(m)
               PROVE  Links(r, j) = Cardinality(HeldOf(r, e, j)) /\ Links(r, j) > 0
    BY <1>5 DEF FilesNamed
  <2>1. CASE j = i
    BY <1>3, <1>5, <1>15, <2>1
  <2>2. CASE j # i
    BY <1>1, <1>5, <1>13, <2>2, ZenonT(40) DEF FilesNamed
  <2> QED  BY <2>1, <2>2
<1>20. DirLinks(r, G)
  BY <1>1, <1>5 DEF DirLinks
<1> QED
  BY <1>5, <1>7, <1>11, <1>14, <1>16, <1>17, <1>18, <1>19, <1>20 DEF FileGone, Outcome, Shape, WrittenTo

\* Metadata r and contents e are without directory d, that is n in w.
DirectoryGone(m, c, r, e, H, w, n, d) ==
  /\ Outcome(m, c, r, e, H, -1) /\ Dirs(r) = Dirs(m) \ {d}
  /\ NameGone(m, c, r, e, w, n)

\* The end of a call of deleteDirectoryRecursively: a directory without
\* entries is freed and its name erased.
LEMMA DirectoryTaken ==
  ASSUME NEW m \in Metadata, NEW c \in Contents, Shape(m, c),
         NEW G, DirLinks(m, G), NEW H, NEW w \in Dirs(m), NEW n \in DOMAIN Ents(m, c, w),
         NEW d \in Dirs(m) \ {0, w}, d = Ents(m, c, w)[n], DOMAIN Ents(m, c, d) = {},
         \A j \in Dirs(m) \ {d} : j \in G <=> j \in H,
         NEW r, r = [m EXCEPT !.iused = @ \ {d}, !.bused = @ \ {Block(m, d)}],
         NEW e, e = [c EXCEPT ![Block(m, w)] = Erased(Ents(m, c, w), n)]
  PROVE  DirectoryGone(m, c, r, e, H, w, n, d)
<1>1. /\ Dirs(m) \subseteq m.iused /\ m.iused \subseteq INodes
      /\ Rooted(m) /\ NamesLead(m, c) /\ DirsNamed(m, c) /\ FilesNamed(m, c)
      /\ Owned(m) /\ Measured(m)
  BY DEF Dirs, Metadata, Shape
<1>2. n \in Names /\ Ents(m, c, w) \in EntryMaps
  <2>1. Ents(m, c, w) \in EntryMaps
    BY <1>1 DEF NamesLead
  <2> QED  BY <2>1, EntriesTyped
<1>3. /\ r.inode = m.inode /\ r.files = m.files /\ r.used = m.used
      /\ r.iused = m.iused \ {d} /\ r.bused = m.bused \ {Block(m, d)}
  BY DEF Metadata
<1>4. r \in Metadata
  BY DEF Metadata
<1>5. Dirs(r) = Dirs(m) \ {d} /\ r.iused \ Dirs(r) = m.iused \ Dirs(m)
  BY <1>3 DEF Dirs
<1>6. \A j \in INodes : /\ Parent(r, j) = Parent(m, j) /\ Links(r, j) = Links(m, j)
                        /\ BlocksOf(r, j) = BlocksOf(m, j)
                        /\ r.inode[j].size = m.inode[j].size
  BY <1>3 DEF Parent, Links, BlocksOf
<1>7. Distance(r) = Distance(m)
  BY <1>3 DEF Distance
<1>8. Owned(r)
  <2>0. \A j \in r.iused : j \in m.iused /\ BlocksOf(r, j) = BlocksOf(m, j)
    BY <1>1, <1>3, <1>6
  <2>1. \A j \in r.iused : Distinct(BlocksOf(r, j))
    BY ONLY <1>1, <2>0 DEF Owned
  <2>2. \A j, k \in r.iused : j # k =>
          Elements(BlocksOf(r, j)) \cap Elements(BlocksOf(r, k)) = {}
    BY ONLY <1>1, <2>0 DEF Owned
  <2>3. r.bused = UNION {Elements(BlocksOf(r, j)) : j \in r.iused}
    <3>1. \A b : b \in m.bused <=> \E j \in m.iused : b \in Elements(BlocksOf(m, j))
      BY <1>1 DEF Owned
    <3>2. /\ Elements(BlocksOf(m, d)) = {Block(m, d)}
          /\ \A i \in m.iused \ {d} : Block(m, d) \notin Elements(BlocksOf(m, i))
      BY <1>1, DirBlocks
    <3>3. \A b : b \in r.bused <=> \E j \in r.iused : b \in Elements(BlocksOf(m, j))
      BY <1>3, <3>1, <3>2
    <3>4. \A b : b \in r.bused <=> \E j \in r.iused : b \in Elements(BlocksOf(r, j))
      BY <1>1, <1>3, <1>6, <3>3
    <3> QED  BY <3>4
  <2> QED  BY <2>1, <2>2, <2>3 DEF Owned
<1>9. Measured(r)
  <2>1. \A j \in r.iused \ Dirs(r) : j \in m.iused \ Dirs(m) /\ j \in INodes
    BY <1>1, <1>5
  <2>2. \A j \in Dirs(r) : j \in Dirs(m) /\ j \in INodes
    BY <1>1, <1>5
  <2>3. \A j \in r.iused \ Dirs(r) :
          Len(BlocksOf(r, j)) - (r.inode[j].size \div DataBlockSize) \in {0, 1}
    BY <1>1, <1>6, <2>1 DEF Measured
  <2>4. /\ \A j \in Dirs(r) : Len(BlocksOf(r, j)) = 1
        /\ \A j \in INodes : Len(BlocksOf(r, j)) <= DirectBlocks
    BY <1>1, <1>6, <2>2 DEF Measured
  <2> QED  BY <2>3, <2>4 DEF Measured
<1>10. OneLess(Ents(m, c, w), Erased(Ents(m, c, w), n), n)
  BY <1>2, EntryTaken
<1>11. WrittenTo(m, c, e, w, Erased(Ents(m, c, w), n))
  BY <1>1, <1>10, EntriesWritten DEF OneLess
<1>12. \A j \in Dirs(m) : Ents(r, e, j) = Ents(m, e, j)
  BY <1>3 DEF Ents, Block
<1>13. /\ Ents(r, e, w) = Erased(Ents(m, c, w), n)
       /\ \A j \in Dirs(m) \ {w} : Ents(r, e, j) = Ents(m, c, j)
  BY <1>11, <1>12 DEF WrittenTo
<1>14. /\ DOMAIN Ents(r, e, w) = DOMAIN Ents(m, c, w) \ {n}
       /\ \A y \in DOMAIN Ents(m, c, w) \ {n} : Ents(r, e, w)[y] = Ents(m, c, w)[y]
       /\ Ents(r, e, w) \in EntryMaps
  BY <1>10, <1>13 DEF OneLess
<1>15. NameGone(m, c, r, e, w, n)
  BY <1>2, <1>5, <1>13, <1>14 DEF NameGone
<1>16. HeldLess(m, c, r, e, w, n, d)
  BY <1>15, NameErased
<1>17. /\ \A j : j # d => HeldOf(r, e, j) = HeldOf(m, c, j)
       /\ <<w, n>> \in HeldOf(m, c, d)
  BY <1>16 DEF HeldLess
<1>18. Cardinality(Held(r, e)) = Cardinality(Held(m, c)) - 1
  BY <1>16, LessCounted
<1>19. \A j \in Dirs(r) : Parent(m, j) \in Dirs(r)
  <2> SUFFICES ASSUME NEW j \in Dirs(r)
               PROVE  Parent(m, j) \in Dirs(m) /\ Parent(m, j) # d
    BY <1>5
  <2>1. j \in Dirs(m) /\ Parent(m, j) \in Dirs(m)
    BY <1>1, <1>5 DEF Rooted
  <2>2. CASE j = 0
    BY <1>1, <2>1, <2>2 DEF Rooted
  <2>3. CASE j # 0
    <3>1. DOMAIN Ents(m, c, Parent(m, j)) # {}
      BY <1>1, <2>1, <2>3 DEF DirsNamed
    <3> QED  BY <2>1, <3>1
  <2> QED  BY <2>2, <2>3
<1>20. Rooted(r)
  <2>1. \A j \in Dirs(r) : j \in INodes /\ j \in Dirs(m)
    BY <1>1, <1>5
  <2>2. 0 \in Dirs(r) /\ Parent(r, 0) = 0
    BY <1>1, <1>5, <1>6 DEF Rooted
  <2>3. Acyclic(r)
    <3> SUFFICES ASSUME NEW S \in SUBSET (Dirs(r) \ {0}), S # {}
                 PROVE  \E j \in S : Parent(r, j) \notin S
      BY DEF Acyclic
    <3>1. S \in SUBSET (Dirs(m) \ {0})
      BY <2>1
    <3>2. PICK j \in S : Parent(m, j) \notin S
      BY <1>1, <3>1 DEF Rooted, Acyclic
    <3> QED  BY <1>6, <2>1, <3>1, <3>2
  <2> QED  BY <1>6, <1>19, <2>1, <2>2, <2>3 DEF Rooted
<1>21. NamesLead(r, e)
  <2> SUFFICES ASSUME NEW j \in Dirs(r)
               PROVE  /\ Ents(r, e, j) \in EntryMaps
                      /\ \A y \in DOMAIN Ents(r, e, j) : Ents(r, e, j)[y] \in r.iused \ {0}
    BY DEF NamesLead
  <2>1. Ents(r, e, j) \in EntryMaps
    BY <1>1, <1>5, <1>13, <1>14 DEF NamesLead
  <2>2. ASSUME NEW y \in DOMAIN Ents(r, e, j)
        PROVE  Ents(r, e, j)[y] \in r.iused \ {0}
    <3> DEFINE z == Ents(r, e, j)[y]
    <3>1. y \in DOMAIN Ents(m, c, j) /\ z = Ents(m, c, j)[y] /\ j \in Dirs(m)
      BY <1>5, <1>13, <1>14
    <3>2. z \in m.iused \ {0}
      BY <1>1, <3>1 DEF NamesLead
    <3>3. z # d
      <4>1. y \in Names
        BY <2>1, EntriesTyped
      <4>2. <<j, y>> \in Held(m, c)
        BY <3>1, <4>1 DEF Held
      <4>3. z = d => <<j, y>> \in HeldOf(m, c, d)
        BY <3>1, <4>2 DEF HeldOf
      <4>4. PICK x \in DOMAIN Ents(m, c, Parent(m, d)) : HeldOf(m, c, d) = {<<Parent(m, d), x>>}
        BY <1>1 DEF DirsNamed
      <4>5. z = d => <<j, y>> = <<w, n>>
        BY <1>17, <4>3, <4>4
      <4>6. j = w => y # n
        BY <1>14
      <4> QED  BY <4>5, <4>6
    <3> QED  BY <1>3, <3>2, <3>3
  <2> QED  BY <2>1, <2>2
<1>22. DirsNamed(r, e)
  <2> SUFFICES ASSUME NEW j \in Dirs(r) \ {0}
               PROVE  \E y \in DOMAIN Ents(r, e, Parent(r, j)) :
                        HeldOf(r, e, j) = {<<Parent(r, j), y>>}
    BY DEF DirsNamed
  <2>1. j # d /\ Parent(r, j) = Parent(m, j) /\ Parent(m, j) \in Dirs(m)
    BY <1>1, <1>5, <1>6 DEF Rooted
  <2>2. PICK y \in DOMAIN Ents(m, c, Parent(m, j)) : HeldOf(m, c, j) = {<<Parent(m, j), y>>}
    BY <1>1, <1>5 DEF DirsNamed
  <2>3. <<Parent(m, j), y>> # <<w, n>>
    BY <1>17, <2>1, <2>2 DEF HeldOf
  <2>4. y \in DOMAIN Ents(r, e, Parent(r, j))
    BY <1>13, <1>14, <2>1, <2>2, <2>3
  <2> QED  BY <1>17, <2>1, <2>2, <2>4
<1>23. FilesNamed(r, e)
  <2>1. \A j \in m.iused \ Dirs(m) : j # d /\ j \in INodes
    BY <1>1
  <2> QED  BY <1>1, <1>5, <1>6, <1>17, <2>1 DEF FilesNamed
<1>24. DirLinks(r, H)
  BY <1>1, <1>5, <1>6 DEF DirLinks
<1> QED
  BY <1>3, <1>4, <1>5, <1>7, <1>8, <1>9, <1>11, <1>15, <1>18, <1>20, <1>21, <1>22, <1>23, <1>24
  DEF DirectoryGone, Outcome, Shape, WrittenTo

-----------------------------------------------------------------------------
(* Growing and shrinking files *)

\* Whole blocks are no fewer in more bytes.
LEMMA BlocksMonotone ==
  ASSUME NEW w \in Nat, w > 0, NEW a \in Nat, NEW b \in Nat, a <= b
  PROVE  /\ a \div w \in Nat /\ b \div w \in Nat /\ a \div w <= b \div w
<1> DEFINE p == a \div w
           q == b \div w
<1>1. /\ p \in Int /\ q \in Int
      /\ a = w * p + (a % w) /\ b = w * q + (b % w)
      /\ a % w \in 0..(w - 1) /\ b % w \in 0..(w - 1)
  OBVIOUS
<1> DEFINE x == a % w
           y == b % w
<1>2. /\ a = w * p + x /\ b = w * q + y /\ x \in 0..(w - 1) /\ y \in 0..(w - 1)
  BY <1>1
<1> HIDE DEF p, q, x, y
<1>3. p >= 0
  <2>1. p <= -1 => w * p <= - w
    BY <1>1
  <2> QED  BY <1>1, <1>2, <2>1
<1>4. q >= 0
  <2>1. q <= -1 => w * q <= - w
    BY <1>1
  <2> QED  BY <1>1, <1>2, <2>1
<1>5. p <= q
  <2>1. w * p - w * q = w * (p - q)
    BY <1>1
  <2>2. p - q >= 1 => w * (p - q) >= w
    BY <1>1
  <2>3. w * p - w * q < w
    BY <1>1, <1>2
  <2> QED  BY <1>1, <2>1, <2>2, <2>3
<1> QED
  BY <1>1, <1>3, <1>4, <1>5 DEF p, q

\* What remains when a file has other blocks and another size.
FileLike(m, r) ==
  /\ r \in Metadata /\ Owned(r) /\ Measured(r) /\ TreeAlike(m, r)
  /\ r.files = m.files /\ Distance(r) = Distance(m)

\* Blocks a file may have.
FileBlocks(m, i, blocks, size) ==
  /\ blocks \in Seq(Blocks) /\ Len(blocks) <= DirectBlocks
  /\ size \in 0..(Word - 1)
  /\ Len(blocks) - (size \div DataBlockSize) \in {0, 1}
  /\ Distinct(blocks)
  /\ \A j \in m.iused \ {i} : Elements(blocks) \cap Elements(BlocksOf(m, j)) = {}

\* Another size and other blocks; directDataBlocks[0] may change with them.
LEMMA FileChanged ==
  ASSUME NEW m \in Metadata, Owned(m), Measured(m), 0 \in Dirs(m),
         NEW i \in m.iused, i \notin Dirs(m),
         NEW x, NEW blocks, NEW size, FileBlocks(m, i, blocks, size),
         x = [m.inode[i] EXCEPT !.size = size, !.blocks = blocks],
         NEW used, used = (m.bused \ Elements(BlocksOf(m, i))) \cup Elements(blocks),
         NEW first \in [INodes -> Blocks],
         NEW r, r = [m EXCEPT !.inode[i] = x, !.first = first, !.bused = used]
  PROVE  FileLike(m, r)
<1> USE DEF FileBlocks
<1>1. /\ m.inode \in [INodes -> INodeRecords] /\ i \in INodes /\ i # 0
      /\ m.iused \subseteq INodes /\ Dirs(m) \subseteq m.iused
  BY DEF Metadata, Dirs
<1>2. /\ x \in INodeRecords /\ x.links = m.inode[i].links /\ x.dir = m.inode[i].dir
      /\ x.blocks = blocks /\ x.size = size /\ x.parent = m.inode[i].parent
  <2>1. m.inode[i] \in INodeRecords
    BY <1>1
  <2>2. x = [dir |-> m.inode[i].dir, blocks |-> blocks, size |-> size,
             links |-> m.inode[i].links, parent |-> m.inode[i].parent]
    BY <2>1 DEF INodeRecords
  <2> QED  BY ONLY <2>1, <2>2, FileBlocks(m, i, blocks, size) DEF INodeRecords
<1>3. /\ r.iused = m.iused /\ r.bused = used /\ r.files = m.files /\ r.used = m.used
      /\ r.inode[i] = x /\ \A j \in INodes \ {i} : r.inode[j] = m.inode[j]
  BY <1>1 DEF Metadata
<1>4. used \subseteq Blocks
  <2>1. Elements(blocks) \subseteq Blocks
    BY DEF Elements
  <2> QED  BY <2>1 DEF Metadata
<1>5. r \in Metadata
  <2>1. [m.inode EXCEPT ![i] = x] \in [INodes -> INodeRecords]
    BY <1>1, <1>2
  <2> QED  BY <1>4, <2>1 DEF Metadata
<1>6. Dirs(r) = Dirs(m)
  BY <1>1, <1>2, <1>3 DEF Dirs
<1>7. /\ \A j \in INodes : Links(r, j) = Links(m, j) /\ Parent(r, j) = Parent(m, j)
      /\ \A j \in INodes \ {i} : /\ BlocksOf(r, j) = BlocksOf(m, j)
                                 /\ r.inode[j].size = m.inode[j].size
      /\ BlocksOf(r, i) = blocks /\ r.inode[i].size = size
  BY <1>2, <1>3 DEF Links, Parent, BlocksOf
<1>8. TreeAlike(m, r)
  BY <1>1, <1>3, <1>6, <1>7 DEF TreeAlike
<1>9. Distance(r) = Distance(m)
  BY <1>1, <1>3, <1>7 DEF Distance
<1>10. Owned(r)
  <2>0. \A j \in r.iused : j \in m.iused /\ (j # i => BlocksOf(r, j) = BlocksOf(m, j))
    BY <1>1, <1>3, <1>7
  <2>1. \A j \in r.iused : Distinct(BlocksOf(r, j))
    <3> SUFFICES ASSUME NEW j \in r.iused
                 PROVE  Distinct(BlocksOf(r, j))
      OBVIOUS
    <3>1. CASE j = i
      BY <1>7, <3>1
    <3>2. CASE j # i
      <4>1. j \in m.iused /\ BlocksOf(r, j) = BlocksOf(m, j)
        BY <2>0, <3>2
      <4> QED  BY ONLY <4>1, Owned(m) DEF Owned
    <3> QED  BY <3>1, <3>2
  <2>2. \A j, k \in r.iused : j # k =>
          Elements(BlocksOf(r, j)) \cap Elements(BlocksOf(r, k)) = {}
    <3> SUFFICES ASSUME NEW j \in r.iused, NEW k \in r.iused, j # k
                 PROVE  Elements(BlocksOf(r, j)) \cap Elements(BlocksOf(r, k)) = {}
      OBVIOUS
    <3>1. CASE j = i
      BY <1>7, <2>0, <3>1
    <3>2. CASE k = i
      BY <1>7, <2>0, <3>2
    <3>3. CASE j # i /\ k # i
      BY <2>0, <3>3 DEF Owned
    <3> QED  BY <3>1, <3>2, <3>3
  <2>3. r.bused = UNION {Elements(BlocksOf(r, j)) : j \in r.iused}
    <3>1. \A b : b \in m.bused <=> \E j \in m.iused : b \in Elements(BlocksOf(m, j))
      BY DEF Owned
    <3>2. \A j \in m.iused \ {i} : Elements(BlocksOf(m, i)) \cap Elements(BlocksOf(m, j)) = {}
      BY DEF Owned
    <3>3. \A b : b \in used <=>
            b \in Elements(blocks) \/ \E j \in m.iused \ {i} : b \in Elements(BlocksOf(m, j))
      BY <3>1, <3>2
    <3>4. \A b : b \in r.bused <=> \E j \in r.iused : b \in Elements(BlocksOf(r, j))
      BY <1>3, <1>7, <2>0, <3>3
    <3> QED  BY <3>4
  <2> QED  BY <2>1, <2>2, <2>3 DEF Owned
<1>11. Measured(r)
  <2>1. \A j \in r.iused \ Dirs(r) :
          Len(BlocksOf(r, j)) - (r.inode[j].size \div DataBlockSize) \in {0, 1}
    <3> SUFFICES ASSUME NEW j \in m.iused \ Dirs(m)
                 PROVE  Len(BlocksOf(r, j)) - (r.inode[j].size \div DataBlockSize) \in {0, 1}
      BY <1>3, <1>6
    <3>1. CASE j = i
      BY <1>7, <3>1
    <3>2. CASE j # i
      BY <1>1, <1>7, <3>2 DEF Measured
    <3> QED  BY <3>1, <3>2
  <2>2. \A j \in Dirs(r) : Len(BlocksOf(r, j)) = 1
    BY <1>1, <1>6, <1>7 DEF Measured
  <2>3. \A j \in INodes : Len(BlocksOf(r, j)) <= DirectBlocks
    BY <1>7 DEF Measured
  <2> QED  BY <2>1, <2>2, <2>3 DEF Measured
<1> QED
  BY <1>3, <1>5, <1>8, <1>9, <1>10, <1>11 DEF FileLike

\* What is known of a file.
FileHas(m, i, old) ==
  /\ old = m.inode[i] /\ old \in INodeRecords /\ old.size \in Nat
  /\ old.blocks = BlocksOf(m, i) /\ old.blocks \in Seq(Blocks)
  /\ Len(old.blocks) - (old.size \div DataBlockSize) \in {0, 1}
  /\ Len(old.blocks) <= DirectBlocks /\ Distinct(old.blocks)
  /\ Elements(old.blocks) \subseteq m.bused
  /\ \A j \in m.iused \ {i} : Elements(old.blocks) \cap Elements(BlocksOf(m, j)) = {}

\* It follows from the invariant.
LEMMA FileFacts ==
  ASSUME NEW m \in Metadata, Owned(m), Measured(m), NEW i \in m.iused, i \notin Dirs(m),
         NEW old, old = m.inode[i]
  PROVE  FileHas(m, i, old)
<1>1. old \in INodeRecords /\ i \in INodes
  BY DEF Metadata
<1>2. old.size \in Nat /\ old.blocks \in Seq(Blocks) /\ old.blocks = BlocksOf(m, i)
  BY <1>1 DEF INodeRecords, BlocksOf
<1>3. Elements(BlocksOf(m, i)) \subseteq m.bused
  BY DEF Owned
<1>4. Distinct(BlocksOf(m, i))
  BY DEF Owned
<1>5. \A j \in m.iused \ {i} : Elements(BlocksOf(m, i)) \cap Elements(BlocksOf(m, j)) = {}
  BY DEF Owned
<1>6. Len(BlocksOf(m, i)) - (m.inode[i].size \div DataBlockSize) \in {0, 1}
  BY DEF Measured
<1>7. Len(BlocksOf(m, i)) <= DirectBlocks
  BY <1>1 DEF Measured
<1> QED
  BY <1>1, <1>2, <1>3, <1>4, <1>5, <1>6, <1>7, old = m.inode[i] DEF FileHas

\* Sequence h has the blocks of f and of g.
Joined(f, g, h, S) ==
  /\ h \in Seq(S) /\ Len(h) = Len(f) + Len(g)
  /\ Elements(h) = Elements(f) \cup Elements(g) /\ Distinct(h)

\* Different blocks are appended to different blocks.
LEMMA AppendedDistinct ==
  ASSUME NEW S, NEW f \in Seq(S), NEW g \in Seq(S), Distinct(f), Distinct(g),
         Elements(f) \cap Elements(g) = {}
  PROVE  Joined(f, g, f \o g, S)
<1> DEFINE h == f \o g
<1>1. /\ Len(f) \in Nat /\ Len(g) \in Nat /\ h \in Seq(S) /\ Len(h) = Len(f) + Len(g)
      /\ DOMAIN f = 1..Len(f) /\ DOMAIN g = 1..Len(g) /\ DOMAIN h = 1..Len(h)
  OBVIOUS
<1>2. /\ \A j \in 1..Len(f) : h[j] = f[j]
      /\ \A j \in 1..Len(g) : h[Len(f) + j] = g[j]
  OBVIOUS
<1> HIDE DEF h
<1>3. ASSUME NEW j \in 1..Len(h), ~ (j <= Len(f))
      PROVE  \E k \in 1..Len(g) : j = Len(f) + k /\ h[j] = g[k]
  <2>1. j - Len(f) \in 1..Len(g) /\ j = Len(f) + (j - Len(f))
    BY <1>1, <1>3
  <2> QED  BY <1>2, <2>1
<1>4. \A j \in 1..Len(h) : j <= Len(f) => j \in 1..Len(f) /\ h[j] = f[j]
  BY <1>1, <1>2
<1>5. Elements(h) \subseteq Elements(f) \cup Elements(g)
  <2> SUFFICES ASSUME NEW j \in 1..Len(h)
               PROVE  h[j] \in Elements(f) \cup Elements(g)
    BY <1>1 DEF Elements
  <2>1. CASE j <= Len(f)
    BY <1>1, <1>4, <2>1 DEF Elements
  <2>2. CASE ~ (j <= Len(f))
    BY <1>1, <1>3, <2>2 DEF Elements
  <2> QED  BY <2>1, <2>2
<1>6. Elements(f) \subseteq Elements(h)
  <2>1. \A j \in 1..Len(f) : j \in 1..Len(h)
    BY <1>1
  <2> QED  BY <1>1, <1>2, <2>1 DEF Elements
<1>7. Elements(g) \subseteq Elements(h)
  <2>1. \A j \in 1..Len(g) : Len(f) + j \in 1..Len(h)
    BY <1>1
  <2> QED  BY <1>1, <1>2, <2>1, SMTT(30) DEF Elements
<1>8. Distinct(h)
  <2> SUFFICES ASSUME NEW j \in 1..Len(h), NEW k \in 1..Len(h), h[j] = h[k]
               PROVE  j = k
    BY DEF Distinct
  <2>1. \A p \in 1..Len(f) : \A q \in 1..Len(g) : f[p] # g[q]
    BY <1>1 DEF Elements
  <2>2. CASE j <= Len(f) /\ k <= Len(f)
    BY <1>4, <2>2 DEF Distinct
  <2>3. CASE j <= Len(f) /\ ~ (k <= Len(f))
    BY <1>3, <1>4, <2>1, <2>3
  <2>4. CASE ~ (j <= Len(f)) /\ k <= Len(f)
    BY <1>3, <1>4, <2>1, <2>4
  <2>5. CASE ~ (j <= Len(f)) /\ ~ (k <= Len(f))
    <3>1. PICK p \in 1..Len(g) : j = Len(f) + p /\ h[j] = g[p]
      BY <1>3, <2>5
    <3>2. PICK q \in 1..Len(g) : k = Len(f) + q /\ h[k] = g[q]
      BY <1>3, <2>5
    <3> QED  BY <3>1, <3>2 DEF Distinct
  <2> QED  BY <2>2, <2>3, <2>4, <2>5
<1> QED
  BY <1>1, <1>5, <1>6, <1>7, <1>8 DEF h, Joined

\* The last blocks are taken off.
LEMMA ShortenedDistinct ==
  ASSUME NEW S, NEW f \in Seq(S), Distinct(f), NEW n \in 0..Len(f),
         NEW h, h = SubSeq(f, 1, Len(f) - n)
  PROVE  /\ h \in Seq(S) /\ Len(h) = Len(f) - n /\ Distinct(h)
         /\ Elements(h) = Elements(f) \ Freed(f, n)
         /\ Freed(f, n) \subseteq Elements(f)
<1>0. PICK l \in Nat : l = Len(f)
  OBVIOUS
<1>1. /\ n \in Nat /\ n <= l /\ h \in Seq(S) /\ Len(h) = l - n
      /\ \A j \in 1..(l - n) : h[j] = f[j]
      /\ DOMAIN f = 1..l /\ DOMAIN h = 1..(l - n)
  <2>1. n \in Nat /\ n <= l
    BY <1>0
  <2>2. h = SubSeq(f, 1, l - n) /\ l - n \in Nat /\ l - n <= Len(f)
    BY <1>0, <2>1
  <2> QED  BY <1>0, <2>1, <2>2
<1>2. \A j \in 1..(l - n) : j \in 1..l
  BY <1>0, <1>1
<1>3. Distinct(h)
  BY <1>0, <1>1, <1>2 DEF Distinct
<1>4. \A j \in 1..n : l + 1 - j \in 1..l /\ l + 1 - j > l - n
  BY <1>0, <1>1
<1>5. Freed(f, n) \subseteq Elements(f)
  BY <1>0, <1>1, <1>4 DEF Freed, Elements
<1>6. Elements(h) \subseteq Elements(f) \ Freed(f, n)
  <2> SUFFICES ASSUME NEW j \in 1..(l - n)
               PROVE  f[j] \in Elements(f) \ Freed(f, n)
    BY <1>1 DEF Elements
  <2>1. f[j] \in Elements(f)
    BY <1>1, <1>2 DEF Elements
  <2>2. ASSUME NEW k \in 1..n, f[l + 1 - k] = f[j]
        PROVE  FALSE
    <3>1. l + 1 - k = j
      BY <1>0, <1>2, <1>4, <2>2 DEF Distinct
    <3> QED  BY <1>1, <1>4, <3>1
  <2> QED  BY <1>0, <2>1, <2>2 DEF Freed
<1>7. Elements(f) \ Freed(f, n) \subseteq Elements(h)
  <2> SUFFICES ASSUME NEW j \in 1..l, f[j] \notin Freed(f, n)
               PROVE  f[j] \in Elements(h)
    BY <1>1 DEF Elements
  <2>1. j \in 1..(l - n)
    <3>1. CASE j > l - n
      <4>1. l + 1 - j \in 1..n /\ l + 1 - (l + 1 - j) = j
        BY <1>1, <3>1
      <4>2. f[j] \in Freed(f, n)
        BY <1>0, <4>1 DEF Freed
      <4> QED  BY <4>2
    <3> QED  BY <1>1, <3>1
  <2> QED  BY <1>1, <2>1 DEF Elements
<1> QED
  BY <1>0, <1>1, <1>3, <1>5, <1>6, <1>7

\* addNBytes: free blocks are appended.
LEMMA FileGrown ==
  ASSUME NEW m \in Metadata, Owned(m), Measured(m), 0 \in Dirs(m),
         NEW i \in m.iused, i \notin Dirs(m), NEW bytes \in Nat,
         NEW old, old = m.inode[i],
         NEW count, count = BlocksBetween(old.size, old.size + bytes),
         old.size + bytes <= MaxSize, Len(old.blocks) + count <= DirectBlocks,
         count <= Cardinality(Blocks \ m.bused),
         NEW new, new = FirstFree(Blocks \ m.bused, count),
         NEW r, r = Occupied(m, i, [old EXCEPT !.size = @ + bytes, !.blocks = @ \o new])
  PROVE  FileLike(m, r)
<1>1. FileHas(m, i, old)
  BY FileFacts
<1>2. PICK size \in Nat : size = old.size + bytes
  BY <1>1 DEF FileHas
<1>3. /\ old.size \div DataBlockSize \in Nat /\ size \div DataBlockSize \in Nat
      /\ old.size \div DataBlockSize <= size \div DataBlockSize
  <2>1. old.size \in Nat /\ old.size <= size /\ DataBlockSize \in Nat /\ DataBlockSize > 0
    BY <1>1, <1>2, DiskAssumption, SMTT(30) DEF FileHas
  <2> QED  BY <1>2, <2>1, BlocksMonotone
<1>4. count \in Nat /\ count = (size \div DataBlockSize) - (old.size \div DataBlockSize)
  <2>1. PICK a \in Nat, b \in Nat : /\ a = old.size \div DataBlockSize
                                   /\ b = size \div DataBlockSize /\ a <= b
    BY <1>3, ZenonT(20)
  <2>2. count = (size \div DataBlockSize) - (old.size \div DataBlockSize)
    BY <1>2, ZenonT(20) DEF BlocksBetween
  <2>3. b - a \in Nat
    BY ONLY <2>1
  <2>4. count = b - a
    BY ONLY <2>1, <2>2, ZenonT(20)
  <2> QED  BY ONLY <2>2, <2>3, <2>4, ZenonT(20)
<1>5. size \in 0..(Word - 1)
  <2>1. MaxSize \in Int /\ MaxSize < Word
    BY DiskAssumption DEF MaxSize
  <2> QED  BY <1>2, <2>1, DiskAssumption, SMTT(30)
<1>6. new \in Seq(Blocks) /\ new \in Seq(Blocks \ m.bused) /\ Len(new) = count /\ Distinct(new)
  <2>1. Blocks \in SUBSET Nat /\ IsFiniteSet(Blocks)
    BY HeldFinite DEF Blocks
  <2>2. Blocks \ m.bused \in SUBSET Nat /\ IsFiniteSet(Blocks \ m.bused)
    BY <2>1, FS_Subset
  <2>3. /\ new \in Seq(Blocks \ m.bused) /\ Len(new) = count
        /\ \A j, k \in 1..count : new[j] = new[k] => j = k
    BY <1>4, <2>2, FirstFreeResult
  <2>4. \A s \in Seq(Blocks \ m.bused) : s \in Seq(Blocks)
    OBVIOUS
  <2>5. new \in Seq(Blocks)
    BY <2>3, <2>4, ZenonT(20)
  <2>6. \A s, l : Len(s) = l /\ (\A j, k \in 1..l : s[j] = s[k] => j = k) => Distinct(s)
    BY DEF Distinct
  <2>7. Distinct(new)
    BY ONLY <2>3, <2>6
  <2> QED  BY <2>3, <2>5, <2>7, ZenonT(20)
<1>7. PICK blocks : blocks = old.blocks \o new
  OBVIOUS
<1>8. Elements(new) \subseteq Blocks \ m.bused
  BY <1>6 DEF Elements
<1>9. /\ blocks \in Seq(Blocks) /\ Len(blocks) = Len(old.blocks) + count
      /\ Elements(blocks) = Elements(old.blocks) \cup Elements(new) /\ Distinct(blocks)
  <2>1. Elements(old.blocks) \cap Elements(new) = {}
    BY <1>1, <1>8 DEF FileHas
  <2>2. old.blocks \in Seq(Blocks) /\ Distinct(old.blocks)
    BY <1>1 DEF FileHas
  <2>3. Joined(old.blocks, new, old.blocks \o new, Blocks)
    BY <1>6, <2>1, <2>2, AppendedDistinct
  <2> QED  BY <1>6, <1>7, <2>3 DEF Joined
<1>10. FileBlocks(m, i, blocks, size)
  <2>1. Len(blocks) - (size \div DataBlockSize) = Len(old.blocks) - (old.size \div DataBlockSize)
    <3>1. PICK l \in Nat : l = Len(old.blocks)
      BY <1>1 DEF FileHas
    <3> DEFINE p == old.size \div DataBlockSize
               q == size \div DataBlockSize
    <3>2. p \in Nat /\ q \in Nat /\ count = q - p /\ Len(blocks) = l + count
      BY <1>3, <1>4, <1>9, <3>1
    <3> HIDE DEF p, q
    <3>3. Len(blocks) - q = l - p
      BY ONLY <3>2, l \in Nat
    <3> QED  BY <3>1, <3>3 DEF p, q
  <2>2. \A j \in m.iused \ {i} : Elements(BlocksOf(m, j)) \subseteq m.bused
    BY DEF Owned
  <2>3. \A j \in m.iused \ {i} : Elements(blocks) \cap Elements(BlocksOf(m, j)) = {}
    BY <1>1, <1>8, <1>9, <2>2 DEF FileHas
  <2>4. Len(blocks) - (size \div DataBlockSize) \in {0, 1}
    BY <1>1, <2>1 DEF FileHas
  <2>5. Len(blocks) <= DirectBlocks
    BY <1>9
  <2> QED  BY <1>5, <1>9, <2>3, <2>4, <2>5 DEF FileBlocks
<1>11. PICK x : x = [m.inode[i] EXCEPT !.size = size, !.blocks = blocks]
  OBVIOUS
<1>12. PICK used : used = (m.bused \ Elements(BlocksOf(m, i))) \cup Elements(blocks)
  OBVIOUS
<1>14. PICK first \in [INodes -> Blocks] :
         first = [m.first EXCEPT ![i] = IF blocks = << >> THEN @ ELSE blocks[1]]
  <2>1. m.first \in [INodes -> Blocks] /\ i \in INodes
    BY DEF Metadata
  <2> QED  BY <1>9, <2>1, FirstBlock
<1>13. r = [m EXCEPT !.inode[i] = x, !.first = first, !.bused = used]
  <2>1. m.iused \cup {i} = m.iused
    OBVIOUS
  <2>2. m.bused \cup Elements(blocks) = used
    BY <1>1, <1>9, <1>12 DEF FileHas
  <2>3. [old EXCEPT !.size = @ + bytes, !.blocks = @ \o new] = x
    BY <1>2, <1>7, <1>11
  <2>4. x.blocks = blocks
    BY <1>1, <1>11 DEF FileHas, INodeRecords
  <2>5. r = Occupied(m, i, x)
    BY <2>3
  <2> QED  BY ONLY m \in Metadata, <1>14, <2>1, <2>2, <2>4, <2>5 DEF Occupied, Metadata
<1> QED
  BY ONLY m \in Metadata, Owned(m), Measured(m), 0 \in Dirs(m), i \in m.iused,
          i \notin Dirs(m), <1>10, <1>11, <1>12, <1>13, <1>14, FileChanged

\* takeAwayNBytes: the last blocks are freed.
LEMMA FileShrunk ==
  ASSUME NEW m \in Metadata, Owned(m), Measured(m), 0 \in Dirs(m),
         NEW i \in m.iused, i \notin Dirs(m), NEW bytes \in Nat,
         NEW old, old = m.inode[i], bytes <= old.size,
         NEW count, count = BlocksBetween(old.size - bytes, old.size),
         NEW r, r = [m EXCEPT !.inode[i].size = @ - bytes,
                              !.inode[i].blocks = SubSeq(@, 1, Len(@) - count),
                              !.bused = @ \ Freed(old.blocks, count)]
  PROVE  FileLike(m, r)
<1>1. FileHas(m, i, old)
  BY FileFacts
<1>2. PICK size \in Nat : size = old.size - bytes
  BY <1>1 DEF FileHas
<1>3. /\ old.size \div DataBlockSize \in Nat /\ size \div DataBlockSize \in Nat
      /\ size \div DataBlockSize <= old.size \div DataBlockSize
  <2>1. old.size \in Nat /\ DataBlockSize \in Nat /\ DataBlockSize > 0
    BY <1>1, DiskAssumption DEF FileHas
  <2>2. size <= old.size
    BY ONLY <1>2, <2>1, bytes \in Nat
  <2> QED  BY <1>2, <2>1, <2>2, BlocksMonotone
<1>4. count \in Nat /\ count = (old.size \div DataBlockSize) - (size \div DataBlockSize)
  BY <1>2, <1>3 DEF BlocksBetween
<1>5. size \in 0..(Word - 1)
  <2>1. old.size \in 0..(Word - 1)
    BY <1>1 DEF FileHas, INodeRecords
  <2> QED  BY <1>2, <2>1, DiskAssumption
<1>6. PICK l \in Nat : l = Len(old.blocks)
  BY <1>1 DEF FileHas
<1>7. count <= l /\ (l - count) - (size \div DataBlockSize) \in {0, 1}
  <2> DEFINE p == old.size \div DataBlockSize
             q == size \div DataBlockSize
  <2>1. p \in Nat /\ q \in Nat /\ count = p - q /\ l - p \in {0, 1}
    BY <1>1, <1>3, <1>4, <1>6 DEF FileHas
  <2> HIDE DEF p, q
  <2>2. count <= l /\ (l - count) - q = l - p
    BY ONLY <2>1, l \in Nat
  <2> QED  BY <2>1, <2>2 DEF q
<1>8. PICK blocks : blocks = SubSeq(old.blocks, 1, Len(old.blocks) - count)
  OBVIOUS
<1>9. /\ blocks \in Seq(Blocks) /\ Len(blocks) = l - count /\ Distinct(blocks)
      /\ Elements(blocks) = Elements(old.blocks) \ Freed(old.blocks, count)
      /\ Freed(old.blocks, count) \subseteq Elements(old.blocks)
  <2>1. old.blocks \in Seq(Blocks) /\ Distinct(old.blocks) /\ count \in 0..Len(old.blocks)
    BY <1>1, <1>4, <1>6, <1>7 DEF FileHas
  <2> QED  BY ONLY <1>6, <1>8, <2>1, ShortenedDistinct
<1>10. FileBlocks(m, i, blocks, size)
  <2>1. Len(blocks) - (size \div DataBlockSize) \in {0, 1}
    BY <1>7, <1>9
  <2>2. Len(blocks) <= DirectBlocks
    BY <1>1, <1>4, <1>6, <1>9, DiskAssumption, SMTT(30) DEF FileHas
  <2>3. \A j \in m.iused \ {i} : Elements(blocks) \cap Elements(BlocksOf(m, j)) = {}
    BY <1>1, <1>9 DEF FileHas
  <2> QED  BY <1>5, <1>9, <2>1, <2>2, <2>3 DEF FileBlocks
<1>11. PICK x : x = [m.inode[i] EXCEPT !.size = size, !.blocks = blocks]
  OBVIOUS
<1>12. PICK used : used = (m.bused \ Elements(BlocksOf(m, i))) \cup Elements(blocks)
  OBVIOUS
<1>13. r = [m EXCEPT !.inode[i] = x, !.first = m.first, !.bused = used]
  <2>1. m.bused \ Freed(old.blocks, count) = used
    BY <1>1, <1>9, <1>12 DEF FileHas
  <2>2. i \in INodes
    BY DEF Metadata
  <2>3. m.inode[i] = old /\ m.inode \in [INodes -> INodeRecords] /\ old \in INodeRecords
    BY <1>1 DEF FileHas, Metadata
  <2>4. r = [m EXCEPT !.inode[i] = [m.inode[i] EXCEPT !.size = @ - bytes,
                                      !.blocks = SubSeq(@, 1, Len(@) - count)],
                      !.bused = @ \ Freed(old.blocks, count)]
    BY <2>2, <2>3 DEF Metadata
  <2>5. [m.inode[i] EXCEPT !.size = @ - bytes, !.blocks = SubSeq(@, 1, Len(@) - count)] = x
    BY <1>2, <1>8, <1>11, <2>3 DEF INodeRecords
  <2> QED  BY <2>1, <2>4, <2>5
<1>14. m.first \in [INodes -> Blocks]
  BY DEF Metadata
<1> QED
  BY ONLY m \in Metadata, Owned(m), Measured(m), 0 \in Dirs(m), i \in m.iused,
          i \notin Dirs(m), <1>10, <1>11, <1>12, <1>13, <1>14, FileChanged

-----------------------------------------------------------------------------
(* Pending calls *)

\* What the invariant says of the j-th call.
PendingCall(m, c, w, k, j) ==
  /\ k[j].base = BaseOf(w, k, j) /\ k[j].base \in Dirs(m)
  /\ k[j].entries = Ents(m, c, k[j].base)
  /\ k[j].name \in DOMAIN Ents(m, c, k[j].base)
  /\ DirOf(k[j]) = Ents(m, c, k[j].base)[k[j].name]
  /\ DirOf(k[j]) \in Dirs(m) \ {0}
  /\ DOMAIN Ents(m, c, DirOf(k[j])) =
       k[j].todo \cup (IF j = 1 THEN {} ELSE {k[j - 1].name})
  /\ j > 1 => k[j - 1].name \notin k[j].todo
  /\ \A h \in 1..Len(k) : h # j => DirOf(k[h]) # DirOf(k[j])

\* It holds for each.
LEMMA PendingCalls ==
  ASSUME NEW m, NEW c, NEW w, NEW k \in Seq(Frames), Pending(m, c, w, k),
         NEW j \in 1..Len(k)
  PROVE  PendingCall(m, c, w, k, j)
<1>1. k[j].base \in Dirs(m)
  BY BasesUsed
<1>2. k[j].entries = Ents(m, c, k[j].base)
  BY DEF Pending
<1>3. DirOf(k[j]) = Ents(m, c, k[j].base)[k[j].name]
  BY <1>2 DEF DirOf
<1> QED
  BY <1>1, <1>2, <1>3 DEF Pending, PendingCall

\* And all together are the invariant.
LEMMA PendingFrom ==
  ASSUME NEW m, NEW c, NEW w \in Dirs(m), NEW k, w \notin GoneOf(k),
         \A j \in 1..Len(k) : PendingCall(m, c, w, k, j)
  PROVE  Pending(m, c, w, k)
BY DEF PendingCall, Pending

\* A pending call does not write back a directory that is being deleted by
\* itself or by those it has made.
LEMMA BaseNotLater ==
  ASSUME NEW m, NEW c, NEW w, NEW k \in Seq(Frames), Pending(m, c, w, k),
         NEW j \in 1..Len(k), NEW h \in 1..j
  PROVE  k[j].base # DirOf(k[h])
<1>1. h \in 1..Len(k) /\ j \in Nat /\ Len(k) \in Nat
  OBVIOUS
<1>2. k[j].base = BaseOf(w, k, j)
  <2>1. PendingCall(m, c, w, k, j)
    BY PendingCalls
  <2> QED  BY <2>1 DEF PendingCall
<1>3. CASE j = Len(k)
  BY <1>1, <1>2, <1>3 DEF BaseOf, Pending, GoneOf
<1>4. CASE j # Len(k)
  <2>1. j + 1 \in 1..Len(k) /\ j + 1 # h
    BY <1>1, <1>4
  <2>2. PendingCall(m, c, w, k, h)
    BY <1>1, PendingCalls
  <2>3. DirOf(k[j + 1]) # DirOf(k[h])
    BY <2>1, <2>2 DEF PendingCall
  <2> QED  BY <1>2, <1>4, <2>3 DEF BaseOf
<1> QED
  BY <1>3, <1>4

\* The only name of a directory is in its parent.
LEMMA OnlyName ==
  ASSUME NEW m, NEW c, Shape(m, c), NEW d \in Dirs(m) \ {0}, NEW b \in Dirs(m),
         NEW n \in DOMAIN Ents(m, c, b), Ents(m, c, b)[n] = d
  PROVE  Parent(m, d) = b /\ HeldOf(m, c, d) = {<<b, n>>}
<1>1. n \in Names
  <2>1. Ents(m, c, b) \in EntryMaps
    BY DEF Shape, NamesLead
  <2> QED  BY <2>1, EntriesTyped
<1>2. <<b, n>> \in HeldOf(m, c, d)
  BY <1>1 DEF Held, HeldOf
<1>3. PICK x : HeldOf(m, c, d) = {<<Parent(m, d), x>>}
  BY DEF Shape, DirsNamed
<1> QED
  BY <1>2, <1>3

\* Where a call that is made now finds the name of what it deletes.
CallBase(w, k) == IF k = << >> THEN w ELSE DirOf(k[1])

\* A directory that a pending call comes to is not being deleted, and the
\* current directory is not in it.
LEMMA NotYetCalled ==
  ASSUME NEW m, NEW c, Shape(m, c), NEW w, NEW k \in Seq(Frames), Pending(m, c, w, k),
         NEW b, b = CallBase(w, k), NEW n \in DOMAIN Ents(m, c, b),
         NEW i, i = Ents(m, c, b)[n], i \in Dirs(m) \ {0}
  PROVE  i \notin GoneOf(k) /\ i # w /\ b \in Dirs(m)
<1>1. Len(k) \in Nat /\ (k # << >> => 1 \in 1..Len(k))
  OBVIOUS
<1>2. b \in Dirs(m)
  <2>1. CASE k = << >>
    BY <2>1 DEF CallBase, Pending
  <2>2. CASE k # << >>
    <3>1. PendingCall(m, c, w, k, 1)
      BY <1>1, <2>2, PendingCalls
    <3> QED  BY <2>2, <3>1 DEF CallBase, PendingCall
  <2> QED  BY <2>1, <2>2
<1>3. Parent(m, i) = b /\ HeldOf(m, c, i) = {<<b, n>>}
  BY <1>2, OnlyName
<1>4. ASSUME NEW j \in 1..Len(k)
      PROVE  /\ Parent(m, DirOf(k[j])) = k[j].base
             /\ HeldOf(m, c, DirOf(k[j])) = {<<k[j].base, k[j].name>>}
  <2>1. /\ k[j].base \in Dirs(m) /\ k[j].name \in DOMAIN Ents(m, c, k[j].base)
        /\ DirOf(k[j]) = Ents(m, c, k[j].base)[k[j].name]
        /\ DirOf(k[j]) \in Dirs(m) \ {0}
    <3>1. PendingCall(m, c, w, k, j)
      BY PendingCalls
    <3> QED  BY <3>1 DEF PendingCall
  <2> QED  BY <2>1, OnlyName
<1>5. i \notin GoneOf(k)
  <2> SUFFICES ASSUME NEW j \in 1..Len(k), i = DirOf(k[j])
               PROVE  FALSE
    BY DEF GoneOf
  <2>1. k[j].base = b
    BY <1>3, <1>4
  <2>2. k # << >> /\ b = DirOf(k[1]) /\ 1 \in 1..j
    BY <1>1 DEF CallBase
  <2> QED  BY <2>1, <2>2, BaseNotLater
<1>6. i # w
  <2> SUFFICES ASSUME i = w
               PROVE  FALSE
    OBVIOUS
  <2> DEFINE S == GoneOf(k) \cup {i}
  <2>1. S \in SUBSET (Dirs(m) \ {0})
    <3>1. \A j \in 1..Len(k) : PendingCall(m, c, w, k, j)
      BY PendingCalls
    <3>2. \A j \in 1..Len(k) : DirOf(k[j]) \in Dirs(m) \ {0}
      BY <3>1 DEF PendingCall
    <3> QED  BY <3>2 DEF GoneOf
  <2>2. ASSUME NEW j \in 1..Len(k)
        PROVE  k[j].base \in S
    <3>1. k[j].base = BaseOf(w, k, j)
      <4>1. PendingCall(m, c, w, k, j)
        BY PendingCalls
      <4> QED  BY <4>1 DEF PendingCall
    <3>2. CASE j = Len(k)
      BY <3>1, <3>2 DEF BaseOf
    <3>3. CASE j # Len(k)
      <4>1. j + 1 \in 1..Len(k)
        BY <1>1, <3>3
      <4> QED  BY <3>1, <3>3, <4>1 DEF BaseOf, GoneOf
    <3> QED  BY <3>2, <3>3
  <2>3. b \in S
    BY <1>1 DEF CallBase, GoneOf
  <2>4. \A d \in S : Parent(m, d) \in S
    BY <1>3, <1>4, <2>2, <2>3 DEF GoneOf
  <2> QED  BY <2>1, <2>4 DEF Shape, Rooted, Acyclic
<1> QED
  BY <1>2, <1>5, <1>6

\* Calls p are those of k, without n in what is left to the latest of k.
ChildTaken(k, n, p) ==
  /\ p \in Seq(Frames) /\ Len(p) = Len(k)
  /\ \A j \in 1..Len(k) :
       /\ p[j].base = k[j].base /\ p[j].name = k[j].name /\ p[j].entries = k[j].entries
       /\ DirOf(p[j]) = DirOf(k[j])
       /\ p[j].todo = IF j = 1 THEN k[j].todo \ {n} ELSE k[j].todo

\* A child is taken from the latest call, if there is one.
LEMMA CallersChanged ==
  ASSUME NEW k \in Seq(Frames), NEW n,
         NEW p, p = IF k = << >> THEN << >> ELSE [k EXCEPT ![1].todo = @ \ {n}]
  PROVE  ChildTaken(k, n, p)
<1>1. CASE k = << >>
  BY <1>1 DEF ChildTaken
<1>2. CASE k # << >>
  <2>1. Len(k) \in Nat /\ 1 \in 1..Len(k) /\ \A j \in 1..Len(k) : k[j] \in Frames
    BY <1>2
  <2> DEFINE f == [k[1] EXCEPT !.todo = k[1].todo \ {n}]
  <2>2. /\ f \in Frames /\ f.base = k[1].base /\ f.name = k[1].name
        /\ f.entries = k[1].entries /\ f.todo = k[1].todo \ {n}
    BY <2>1 DEF Frames
  <2>3. p = [k EXCEPT ![1] = f]
    BY <1>2
  <2> HIDE DEF f
  <2>4. p \in Seq(Frames) /\ Len(p) = Len(k)
    BY ONLY k \in Seq(Frames), <2>1, <2>2, <2>3
  <2>5. p[1] = f /\ \A j \in 1..Len(k) : j # 1 => p[j] = k[j]
    BY ONLY k \in Seq(Frames), <2>1, <2>3
  <2>6. \A j \in 1..Len(k) :
          /\ p[j].base = k[j].base /\ p[j].name = k[j].name /\ p[j].entries = k[j].entries
          /\ p[j].todo = IF j = 1 THEN k[j].todo \ {n} ELSE k[j].todo
    BY ONLY <2>2, <2>5
  <2> QED  BY <2>4, <2>6 DEF ChildTaken, DirOf
<1> QED
  BY <1>1, <1>2

\* Calls p are f and those of q, which delete the directories of k.
CalledBy(k, q, f, p) ==
  /\ p \in Seq(Frames) /\ Len(p) = Len(k) + 1 /\ p[1] = f
  /\ \A j \in 1..Len(k) : p[j + 1] = q[j]
  /\ GoneOf(p) = GoneOf(k) \cup {DirOf(f)}

\* A call more.
LEMMA CallMade ==
  ASSUME NEW k \in Seq(Frames), NEW n, NEW q, ChildTaken(k, n, q),
         NEW f \in Frames, NEW p, p = <<f>> \o q
  PROVE  CalledBy(k, q, f, p)
<1>1. q \in Seq(Frames) /\ Len(q) = Len(k) /\ Len(k) \in Nat
  BY DEF ChildTaken
<1>2. p \in Seq(Frames) /\ Len(p) = Len(k) + 1 /\ p[1] = f
  BY <1>1
<1>3. \A j \in 1..Len(k) : p[j + 1] = q[j]
  <2> SUFFICES ASSUME NEW j \in 1..Len(q)
               PROVE  (<<f>> \o q)[j + 1] = q[j]
    BY <1>1
  <2>1. Len(<<f>>) = 1 /\ j + 1 \in 1..(1 + Len(q)) /\ ~ (j + 1 <= 1) /\ j + 1 - 1 = j
    BY <1>1
  <2>2. q \in Seq(Frames) /\ <<f>> \in Seq(Frames)
    BY <1>1
  <2> QED  BY ONLY <2>1, <2>2
<1>4. \A j \in 1..Len(p) : j = 1 \/ (j - 1 \in 1..Len(k) /\ j - 1 + 1 = j)
  BY <1>1, <1>2
<1>5. \A j \in 1..Len(k) : j + 1 \in 1..Len(p) /\ DirOf(p[j + 1]) = DirOf(k[j])
  <2>1. \A j \in 1..Len(k) : j + 1 \in 1..Len(p)
    BY ONLY <1>1, <1>2
  <2>2. \A j \in 1..Len(k) : DirOf(q[j]) = DirOf(k[j])
    BY DEF ChildTaken
  <2> QED  BY <1>3, <2>1, <2>2
<1>6. 1 \in 1..Len(p)
  BY <1>1, <1>2
<1>7. GoneOf(p) \subseteq GoneOf(k) \cup {DirOf(f)}
  BY <1>2, <1>4, <1>5 DEF GoneOf
<1>8. GoneOf(k) \cup {DirOf(f)} \subseteq GoneOf(p)
  BY <1>2, <1>5, <1>6 DEF GoneOf
<1> QED
  BY <1>2, <1>3, <1>7, <1>8 DEF CalledBy

\* Metadata r and calls p are as they are to be.
Fine(r, c, w, p) == r \in Metadata /\ p \in Seq(Frames) /\ Kept(r, c, w, p)

\* What holds when directory i, which base b names n, is being called: r is
\* the metadata after it, q are the callers, f is the new frame, and p are
\* the calls.
Calling(m, c, w, k, b, n, i, r, q, f, p) ==
  /\ Shape(m, c) /\ Owned(m) /\ Measured(m) /\ Rooted(m)
  /\ NamesLead(m, c) /\ DirsNamed(m, c) /\ FilesNamed(m, c)
  /\ Counted(m, c) /\ Distance(m) = MetaDataSize
  /\ DirLinks(m, GoneOf(k)) /\ Pending(m, c, w, k)
  /\ Dirs(m) \subseteq m.iused /\ m.iused \subseteq INodes
  /\ i \notin GoneOf(k) /\ i # w /\ b \in Dirs(m)
  /\ m.inode[i].links = 1 /\ i \in INodes
  /\ f.base = b /\ f.name = n /\ f.entries = Ents(m, c, b)
  /\ f.todo = DOMAIN Ents(m, c, i) /\ DirOf(f) = i /\ f \in Frames
  /\ p \in Seq(Frames) /\ Len(p) = Len(k) + 1 /\ p[1] = f
  /\ \A j \in 1..Len(k) : p[j + 1] = q[j]
  /\ GoneOf(p) = GoneOf(k) \cup {i}
  /\ r \in Metadata /\ r.iused = m.iused /\ r.bused = m.bused
  /\ r.files = m.files /\ Distance(r) = Distance(m)
  /\ Dirs(r) = Dirs(m) /\ Owned(r) /\ Measured(r)
  /\ Links(r, i) = 0 /\ \A j \in INodes \ {i} : Links(r, j) = Links(m, j)
  /\ \A j \in INodes : Parent(r, j) = Parent(m, j) /\ BlocksOf(r, j) = BlocksOf(m, j)

\* That is what a call does to a directory, which has one link.
LEMMA CallMakes ==
  ASSUME NEW m \in Metadata, NEW c \in Contents, NEW w, NEW k \in Seq(Frames),
         Kept(m, c, w, k), NEW b, b = CallBase(w, k),
         NEW n \in DOMAIN Ents(m, c, b), k # << >> => n \in k[1].todo,
         NEW i, i = Ents(m, c, b)[n], i \in Dirs(m) \ {0},
         NEW r, r = [m EXCEPT !.inode[i].links = @ - 1],
         NEW q, ChildTaken(k, n, q),
         NEW f, f = [base |-> b, name |-> n, entries |-> Ents(m, c, b),
                     todo |-> IF m.inode[i].links = 1 THEN DOMAIN Ents(m, c, i) ELSE {}],
         NEW p, p = <<f>> \o q
  PROVE  Calling(m, c, w, k, b, n, i, r, q, f, p)
<1>1. /\ Shape(m, c) /\ Owned(m) /\ Measured(m) /\ Rooted(m)
      /\ NamesLead(m, c) /\ DirsNamed(m, c) /\ FilesNamed(m, c)
      /\ Counted(m, c) /\ Distance(m) = MetaDataSize
      /\ DirLinks(m, GoneOf(k)) /\ Pending(m, c, w, k)
      /\ Dirs(m) \subseteq m.iused /\ m.iused \subseteq INodes
  BY DEF Kept, Shape, Dirs, Metadata
<1>2. i \notin GoneOf(k) /\ i # w /\ b \in Dirs(m)
  BY <1>1, NotYetCalled
<1>3. m.inode[i].links = 1 /\ i \in INodes
  BY <1>1, <1>2 DEF DirLinks, Links
<1>4. /\ f.base = b /\ f.name = n /\ f.entries = Ents(m, c, b)
      /\ f.todo = DOMAIN Ents(m, c, i) /\ DirOf(f) = i /\ f \in Frames
  <2>1. /\ f.base = b /\ f.name = n /\ f.entries = Ents(m, c, b)
        /\ f.todo = DOMAIN Ents(m, c, i) /\ DirOf(f) = i
    BY <1>3 DEF DirOf
  <2>2. Ents(m, c, b) \in EntryMaps /\ Ents(m, c, i) \in EntryMaps
    BY <1>1, <1>2 DEF NamesLead
  <2>3. n \in Names /\ DOMAIN Ents(m, c, i) \in SUBSET Names
    BY <2>2, EntriesTyped
  <2>4. b \in INodes
    BY <1>1, <1>2
  <2>5. f = [base |-> b, name |-> n, entries |-> Ents(m, c, b), todo |-> DOMAIN Ents(m, c, i)]
    BY <1>3
  <2> QED  BY <2>1, <2>2, <2>3, <2>4, <2>5 DEF Frames
<1>5. /\ p \in Seq(Frames) /\ Len(p) = Len(k) + 1 /\ p[1] = f
      /\ \A j \in 1..Len(k) : p[j + 1] = q[j]
      /\ GoneOf(p) = GoneOf(k) \cup {i}
  <2>1. CalledBy(k, q, f, p)
    BY <1>4, CallMade
  <2> QED  BY <1>4, <2>1 DEF CalledBy
<1>6. Relinked(m, r, i, 0)
  <2>1. r = [m EXCEPT !.inode[i].links = 0]
    BY <1>3
  <2> QED  BY <1>1, <1>3, <2>1, LinksChanged
<1>7. /\ r \in Metadata /\ r.iused = m.iused /\ r.bused = m.bused
      /\ r.files = m.files /\ Distance(r) = Distance(m)
      /\ Dirs(r) = Dirs(m) /\ Owned(r) /\ Measured(r)
      /\ Links(r, i) = 0 /\ \A j \in INodes \ {i} : Links(r, j) = Links(m, j)
      /\ \A j \in INodes : Parent(r, j) = Parent(m, j) /\ BlocksOf(r, j) = BlocksOf(m, j)
  BY <1>6 DEF Relinked
<1> QED
  BY ONLY <1>1, <1>2, <1>3, <1>4, <1>5, <1>7 DEF Calling

\* The call keeps the invariant.
LEMMA CallingFine ==
  ASSUME NEW m \in Metadata, NEW c \in Contents, NEW w, NEW k \in Seq(Frames),
         NEW b, b = CallBase(w, k), NEW n, k # << >> => n \in k[1].todo,
         NEW i, n \in DOMAIN Ents(m, c, b), i = Ents(m, c, b)[n], i \in Dirs(m) \ {0},
         NEW r, NEW q, ChildTaken(k, n, q), NEW f, NEW p,
         Calling(m, c, w, k, b, n, i, r, q, f, p)
  PROVE  Fine(r, c, w, p)
<1>1. /\ Shape(m, c) /\ Owned(m) /\ Measured(m) /\ Rooted(m)
      /\ NamesLead(m, c) /\ DirsNamed(m, c) /\ FilesNamed(m, c)
      /\ Counted(m, c) /\ Distance(m) = MetaDataSize
      /\ DirLinks(m, GoneOf(k)) /\ Pending(m, c, w, k)
      /\ Dirs(m) \subseteq m.iused /\ m.iused \subseteq INodes
  BY DEF Calling
<1>2. i \notin GoneOf(k) /\ i # w /\ b \in Dirs(m)
  BY DEF Calling
<1>3. m.inode[i].links = 1 /\ i \in INodes
  BY DEF Calling
<1>4. /\ f.base = b /\ f.name = n /\ f.entries = Ents(m, c, b)
      /\ f.todo = DOMAIN Ents(m, c, i) /\ DirOf(f) = i /\ f \in Frames
  BY DEF Calling
<1>5. /\ p \in Seq(Frames) /\ Len(p) = Len(k) + 1 /\ p[1] = f
      /\ \A j \in 1..Len(k) : p[j + 1] = q[j]
      /\ GoneOf(p) = GoneOf(k) \cup {i}
  BY DEF Calling
<1>7. /\ r \in Metadata /\ r.iused = m.iused /\ r.bused = m.bused
      /\ r.files = m.files /\ Distance(r) = Distance(m)
      /\ Dirs(r) = Dirs(m) /\ Owned(r) /\ Measured(r)
      /\ Links(r, i) = 0 /\ \A j \in INodes \ {i} : Links(r, j) = Links(m, j)
      /\ \A j \in INodes : Parent(r, j) = Parent(m, j) /\ BlocksOf(r, j) = BlocksOf(m, j)
  BY DEF Calling
<1>8. \A d \in Dirs(m) : Ents(r, c, d) = Ents(m, c, d)
  BY <1>1, <1>7 DEF Ents, Block, BlocksOf
<1>9. Held(r, c) = Held(m, c) /\ \A j : HeldOf(r, c, j) = HeldOf(m, c, j)
  <2>1. Held(r, c) = Held(m, c)
    BY <1>7, <1>8 DEF Held
  <2>2. \A e \in Held(m, c) : e[1] \in Dirs(m)
    BY DEF Held
  <2> QED  BY <1>8, <2>1, <2>2 DEF HeldOf
<1>10. Rooted(r)
  <2>1. \A d \in Dirs(m) : d \in INodes
    BY <1>1
  <2> QED  BY <1>1, <1>7, <2>1 DEF Rooted, Acyclic
<1>11. NamesLead(r, c)
  BY <1>1, <1>7, <1>8 DEF NamesLead
<1>12. DirsNamed(r, c)
  <2>1. \A d \in Dirs(m) : Parent(r, d) = Parent(m, d)
    BY <1>1, <1>7
  <2>2. \A d \in Dirs(m) : Ents(r, c, Parent(r, d)) = Ents(m, c, Parent(m, d))
    BY <1>1, <1>8, <2>1 DEF Rooted
  <2> QED  BY <1>1, <1>7, <1>9, <2>1, <2>2 DEF DirsNamed
<1>13. FilesNamed(r, c)
  <2>1. \A j \in m.iused \ Dirs(m) : Links(r, j) = Links(m, j)
    BY <1>1, <1>7
  <2> QED  BY <1>1, <1>7, <1>9, <2>1 DEF FilesNamed
<1>14. Counted(r, c)
  BY <1>1, <1>7, <1>9 DEF Counted
<1>15. DirLinks(r, GoneOf(p))
  BY <1>1, <1>2, <1>5, <1>7 DEF DirLinks
<1>16. Pending(r, c, w, p)
  <2>1. Len(k) \in Nat /\ (k = << >> <=> Len(k) = 0)
    OBVIOUS
  <2>2. w \in Dirs(r) /\ w \notin GoneOf(p)
    BY <1>1, <1>2, <1>5, <1>7 DEF Pending
  <2>3. PendingCall(r, c, w, p, 1)
    <3>1. p[1].base = BaseOf(w, p, 1)
      <4>1. CASE k = << >>
        BY <1>4, <1>5, <2>1, <4>1 DEF BaseOf, CallBase
      <4>2. CASE k # << >>
        <5>1. 1 # Len(p) /\ 1 \in 1..Len(k)
          BY <1>5, <2>1, <4>2
        <5>2. DirOf(p[1 + 1]) = DirOf(k[1])
          BY <1>5, <5>1 DEF ChildTaken
        <5> QED  BY <1>4, <1>5, <4>2, <5>1, <5>2 DEF BaseOf, CallBase
      <4> QED  BY <4>1, <4>2
    <3>2. \A h \in 1..Len(p) : h # 1 => DirOf(p[h]) # i
      <4> SUFFICES ASSUME NEW h \in 1..Len(p), h # 1
                   PROVE  DirOf(p[h]) # i
        OBVIOUS
      <4>1. h - 1 \in 1..Len(k) /\ h - 1 + 1 = h
        BY <1>5, <2>1
      <4>2. p[h] = q[h - 1]
        BY <1>5, <4>1
      <4>3. DirOf(p[h]) = DirOf(k[h - 1])
        BY <4>1, <4>2 DEF ChildTaken
      <4> QED  BY <1>2, <4>1, <4>3 DEF GoneOf
    <3>3. Ents(r, c, b) = Ents(m, c, b) /\ Ents(r, c, i) = Ents(m, c, i)
      BY <1>2, <1>8
    <3> QED  BY <1>2, <1>4, <1>5, <1>7, <3>1, <3>2, <3>3 DEF PendingCall
  <2>4. ASSUME NEW j \in 1..Len(k)
        PROVE  PendingCall(r, c, w, p, j + 1)
    <3>1. PendingCall(m, c, w, k, j)
      BY <1>1, PendingCalls
    <3>2. j + 1 \in 1..Len(p) /\ j \in Nat /\ j >= 1 /\ j <= Len(k)
      BY <1>5, <2>1
    <3>3. /\ p[j + 1].base = k[j].base /\ p[j + 1].name = k[j].name
          /\ p[j + 1].entries = k[j].entries /\ DirOf(p[j + 1]) = DirOf(k[j])
          /\ p[j + 1].todo = IF j = 1 THEN k[j].todo \ {n} ELSE k[j].todo
      BY <1>5, ZenonT(40) DEF ChildTaken
    <3>4. BaseOf(w, p, j + 1) = BaseOf(w, k, j)
      <4>1. CASE j = Len(k)
        BY <1>5, <4>1 DEF BaseOf
      <4>2. CASE j # Len(k)
        <5>1. j + 1 \in 1..Len(k) /\ j + 1 # Len(p)
          BY <1>5, <2>1, <3>2, <4>2
        <5>2. DirOf(p[j + 1 + 1]) = DirOf(k[j + 1])
          BY <1>5, <5>1 DEF ChildTaken
        <5> QED  BY <4>2, <5>1, <5>2 DEF BaseOf
      <4> QED  BY <4>1, <4>2
    <3>5. \A d \in {k[j].base, DirOf(k[j])} : d \in Dirs(m) /\ Ents(r, c, d) = Ents(m, c, d)
      BY <1>8, <3>1 DEF PendingCall
    <3>6. /\ DOMAIN Ents(m, c, DirOf(k[j])) = p[j + 1].todo \cup {p[j].name}
          /\ p[j].name \notin p[j + 1].todo
      <4>1. CASE j = 1
        <5>1. p[j].name = n /\ n \in k[j].todo
          BY <1>4, <1>5, <2>1, <4>1
        <5> QED  BY <3>1, <3>3, <4>1, <5>1 DEF PendingCall
      <4>2. CASE j # 1
        <5>1. j - 1 \in 1..Len(k) /\ j - 1 + 1 = j /\ j > 1
          BY <2>1, <3>2, <4>2
        <5>2. p[j] = q[j - 1]
          BY <1>5, <5>1
        <5>3. q[j - 1].name = k[j - 1].name
          BY <5>1 DEF ChildTaken
        <5> QED  BY <3>1, <3>3, <4>2, <5>1, <5>2, <5>3 DEF PendingCall
      <4> QED  BY <4>1, <4>2
    <3>7. \A h \in 1..Len(p) : h # j + 1 => DirOf(p[h]) # DirOf(k[j])
      <4> SUFFICES ASSUME NEW h \in 1..Len(p), h # j + 1
                   PROVE  DirOf(p[h]) # DirOf(k[j])
        OBVIOUS
      <4>1. CASE h = 1
        BY <1>2, <1>4, <1>5, <4>1 DEF GoneOf
      <4>2. CASE h # 1
        <5>1. h - 1 \in 1..Len(k) /\ h - 1 + 1 = h /\ h - 1 # j
          BY <1>5, <2>1, <3>2, <4>2
        <5>2. p[h] = q[h - 1]
          BY <1>5, <5>1
        <5>3. DirOf(p[h]) = DirOf(k[h - 1])
          BY <5>1, <5>2 DEF ChildTaken
        <5> QED  BY <3>1, <5>1, <5>3 DEF PendingCall
      <4> QED  BY <4>1, <4>2
    <3>8. j + 1 # 1 /\ j + 1 - 1 = j
      BY <3>2
    <3>9. /\ k[j].base = BaseOf(w, k, j) /\ k[j].base \in Dirs(m)
          /\ k[j].entries = Ents(m, c, k[j].base)
          /\ k[j].name \in DOMAIN Ents(m, c, k[j].base)
          /\ DirOf(k[j]) = Ents(m, c, k[j].base)[k[j].name]
          /\ DirOf(k[j]) \in Dirs(m) \ {0}
      BY <3>1 DEF PendingCall
    <3> QED  BY ONLY <1>7, <3>3, <3>4, <3>5, <3>6, <3>7, <3>8, <3>9 DEF PendingCall
  <2>5. \A h \in 1..Len(p) : PendingCall(r, c, w, p, h)
    <3> SUFFICES ASSUME NEW h \in 1..Len(p), h # 1
                 PROVE  PendingCall(r, c, w, p, h)
      BY <2>3
    <3>1. h - 1 \in 1..Len(k) /\ h - 1 + 1 = h
      BY <1>5, <2>1
    <3> QED  BY <2>4, <3>1
  <2> QED  BY <2>2, <2>5, PendingFrom
<1> QED
  BY <1>1, <1>5, <1>7, <1>10, <1>11, <1>12, <1>13, <1>14, <1>15, <1>16 DEF Fine, Kept, Shape

\* A directory that is being called has one link, which it loses.
LEMMA CallStarted ==
  ASSUME NEW m \in Metadata, NEW c \in Contents, NEW w, NEW k \in Seq(Frames),
         Kept(m, c, w, k), NEW b, b = CallBase(w, k),
         NEW n \in DOMAIN Ents(m, c, b), k # << >> => n \in k[1].todo,
         NEW i, i = Ents(m, c, b)[n], i \in Dirs(m) \ {0},
         NEW r, r = [m EXCEPT !.inode[i].links = @ - 1],
         NEW q, ChildTaken(k, n, q),
         NEW f, f = [base |-> b, name |-> n, entries |-> Ents(m, c, b),
                     todo |-> IF m.inode[i].links = 1 THEN DOMAIN Ents(m, c, i) ELSE {}],
         NEW p, p = <<f>> \o q
  PROVE  Fine(r, c, w, p)
<1>1. Calling(m, c, w, k, b, n, i, r, q, f, p)
  BY CallMakes
<1> QED  BY <1>1, CallingFine

\* A file in the directory of the latest call is deleted.
LEMMA ChildFileTaken ==
  ASSUME NEW m, NEW c, NEW r, NEW e, NEW w, NEW k \in Seq(Frames), k # << >>,
         Pending(m, c, w, k), NEW n, n \in k[1].todo,
         NameGone(m, c, r, e, DirOf(k[1]), n), Dirs(r) = Dirs(m),
         NEW p, ChildTaken(k, n, p)
  PROVE  Pending(r, e, w, p) /\ GoneOf(p) = GoneOf(k)
<1>1. /\ Len(k) \in Nat /\ 1 \in 1..Len(k)
      /\ p \in Seq(Frames) /\ Len(p) = Len(k)
      /\ \A j \in 1..Len(k) :
           /\ p[j].base = k[j].base /\ p[j].name = k[j].name /\ p[j].entries = k[j].entries
           /\ DirOf(p[j]) = DirOf(k[j])
           /\ p[j].todo = IF j = 1 THEN k[j].todo \ {n} ELSE k[j].todo
  BY SMTT(30) DEF ChildTaken
<1>2. GoneOf(p) = GoneOf(k)
  <2>1. GoneOf(p) \subseteq GoneOf(k)
    <3> SUFFICES ASSUME NEW j \in 1..Len(p)
                 PROVE  DirOf(p[j]) \in GoneOf(k)
      BY DEF GoneOf
    <3>1. j \in 1..Len(k) /\ DirOf(p[j]) = DirOf(k[j])
      BY <1>1
    <3> QED  BY <3>1 DEF GoneOf
  <2>2. GoneOf(k) \subseteq GoneOf(p)
    <3> SUFFICES ASSUME NEW j \in 1..Len(k)
                 PROVE  DirOf(k[j]) \in GoneOf(p)
      BY DEF GoneOf
    <3>1. j \in 1..Len(p) /\ DirOf(p[j]) = DirOf(k[j])
      BY <1>1
    <3> QED  BY <3>1 DEF GoneOf
  <2> QED  BY <2>1, <2>2
<1>3. w \in Dirs(r) /\ w \notin GoneOf(p)
  BY <1>2 DEF Pending
<1>4. ASSUME NEW j \in 1..Len(k)
      PROVE  PendingCall(r, e, w, p, j)
  <2>1. PendingCall(m, c, w, k, j)
    BY PendingCalls
  <2>2. /\ k[j].base = BaseOf(w, k, j) /\ k[j].base \in Dirs(m)
        /\ k[j].entries = Ents(m, c, k[j].base)
        /\ k[j].name \in DOMAIN Ents(m, c, k[j].base)
        /\ DirOf(k[j]) = Ents(m, c, k[j].base)[k[j].name]
        /\ DirOf(k[j]) \in Dirs(m) \ {0}
        /\ DOMAIN Ents(m, c, DirOf(k[j])) =
             k[j].todo \cup (IF j = 1 THEN {} ELSE {k[j - 1].name})
        /\ j > 1 => k[j - 1].name \notin k[j].todo
        /\ \A h \in 1..Len(k) : h # j => DirOf(k[h]) # DirOf(k[j])
    BY <2>1 DEF PendingCall
  <2>3. BaseOf(w, p, j) = BaseOf(w, k, j)
    <3>1. CASE j = Len(k)
      BY <1>1, <3>1 DEF BaseOf
    <3>2. CASE j # Len(k)
      <4>1. j + 1 \in 1..Len(k)
        BY <1>1, <3>2
      <4> QED  BY <1>1, <3>2, <4>1 DEF BaseOf
    <3> QED  BY <3>1, <3>2
  <2>4. Ents(r, e, k[j].base) = Ents(m, c, k[j].base)
    <3>1. 1 \in 1..j
      BY <1>1
    <3>2. k[j].base # DirOf(k[1])
      BY <3>1, BaseNotLater
    <3> QED  BY <2>2, <3>2 DEF NameGone
  <2>5. /\ DOMAIN Ents(r, e, DirOf(k[j])) =
             p[j].todo \cup (IF j = 1 THEN {} ELSE {p[j - 1].name})
        /\ j > 1 => p[j - 1].name \notin p[j].todo
    <3>1. CASE j = 1
      <4>1. DOMAIN Ents(r, e, DirOf(k[1])) = DOMAIN Ents(m, c, DirOf(k[1])) \ {n}
        BY DEF NameGone
      <4>2. DOMAIN Ents(m, c, DirOf(k[j])) = k[j].todo
        BY <2>2, <3>1
      <4>3. p[j].todo = k[j].todo \ {n}
        BY <1>1, <3>1
      <4>4. ~ (j > 1)
        BY <3>1
      <4>5. DOMAIN Ents(r, e, DirOf(k[j])) = p[j].todo
        BY ONLY <3>1, <4>1, <4>2, <4>3
      <4> QED  BY ONLY <3>1, <4>4, <4>5
    <3>2. CASE j # 1
      <4>1. j - 1 \in 1..Len(k) /\ j > 1
        BY <1>1, <3>2
      <4>2. p[j - 1].name = k[j - 1].name /\ p[j].todo = k[j].todo
        BY <1>1, <3>2, <4>1
      <4>3. DirOf(k[j]) # DirOf(k[1])
        BY <1>1, <2>2, <3>2
      <4>4. Ents(r, e, DirOf(k[j])) = Ents(m, c, DirOf(k[j]))
        BY <2>2, <4>3 DEF NameGone
      <4>5. DOMAIN Ents(m, c, DirOf(k[j])) = k[j].todo \cup {k[j - 1].name}
        BY ONLY <2>2, <3>2
      <4>6. k[j - 1].name \notin k[j].todo
        BY ONLY <2>2, <4>1
      <4>7. /\ DOMAIN Ents(r, e, DirOf(k[j])) = p[j].todo \cup {p[j - 1].name}
            /\ p[j - 1].name \notin p[j].todo
        BY ONLY <4>2, <4>4, <4>5, <4>6
      <4>8. (IF j = 1 THEN {} ELSE {p[j - 1].name}) = {p[j - 1].name}
        BY <3>2
      <4> QED  BY ONLY <4>7, <4>8
    <3> QED  BY <3>1, <3>2
  <2>6. \A h \in 1..Len(p) : h # j => DirOf(p[h]) # DirOf(k[j])
    BY <1>1, <2>2
  <2>7. /\ p[j].base = k[j].base /\ p[j].name = k[j].name /\ p[j].entries = k[j].entries
        /\ DirOf(p[j]) = DirOf(k[j])
    BY <1>1
  <2> QED  BY ONLY Dirs(r) = Dirs(m), <2>2, <2>3, <2>4, <2>5, <2>6, <2>7 DEF PendingCall
<1> QED
  BY <1>1, <1>2, <1>3, <1>4, PendingFrom

\* The directories that are deleted are that of the latest call and the others.
LEMMA GoneOfTail ==
  ASSUME NEW k \in Seq(Frames), 1 \in 1..Len(k), NEW p, p = Tail(k)
  PROVE  \A d : d \in GoneOf(k) <=> d = DirOf(k[1]) \/ d \in GoneOf(p)
<1>1. /\ Len(k) \in Nat /\ 1 \in 1..Len(k)
      /\ p \in Seq(Frames) /\ Len(p) = Len(k) - 1
      /\ \A j \in 1..Len(p) : p[j] = k[j + 1]
  OBVIOUS
<1>2. \A j \in 1..Len(p) : j + 1 \in 1..Len(k) /\ j + 1 # 1
  BY <1>1
<1>3. \A j \in 1..Len(k) : j # 1 => j - 1 \in 1..Len(p) /\ j - 1 + 1 = j
  BY <1>1
<1>4. \A d : d \in GoneOf(k) => d = DirOf(k[1]) \/ d \in GoneOf(p)
  <2> SUFFICES ASSUME NEW j \in 1..Len(k), j # 1
               PROVE  DirOf(k[j]) \in GoneOf(p)
    BY DEF GoneOf
  <2>1. p[j - 1] = k[j]
    BY <1>1, <1>3
  <2> QED  BY <1>3, <2>1 DEF GoneOf
<1>5. \A d : d \in GoneOf(p) => d \in GoneOf(k)
  BY <1>1, <1>2 DEF GoneOf
<1> QED  BY <1>1, <1>4, <1>5 DEF GoneOf

\* The latest call returns: its directory is gone.
LEMMA CallReturned ==
  ASSUME NEW m, NEW c, NEW r, NEW e, NEW w, NEW k \in Seq(Frames), k # << >>,
         Pending(m, c, w, k), k[1].todo = {},
         NameGone(m, c, r, e, k[1].base, k[1].name), Dirs(r) = Dirs(m) \ {DirOf(k[1])},
         NEW p, p = Tail(k)
  PROVE  /\ p \in Seq(Frames) /\ Pending(r, e, w, p)
         /\ \A j \in Dirs(m) \ {DirOf(k[1])} : j \in GoneOf(k) <=> j \in GoneOf(p)
<1>1. /\ Len(k) \in Nat /\ 1 \in 1..Len(k)
      /\ p \in Seq(Frames) /\ Len(p) = Len(k) - 1
      /\ \A j \in 1..Len(p) : p[j] = k[j + 1]
  OBVIOUS
<1>2. \A j \in 1..Len(p) : j + 1 \in 1..Len(k) /\ j + 1 # 1
  BY <1>1
<1>3. \A j \in 1..Len(k) : j # 1 => j - 1 \in 1..Len(p) /\ j - 1 + 1 = j
  BY <1>1
<1>4. \A d : d \in GoneOf(k) <=> d = DirOf(k[1]) \/ d \in GoneOf(p)
  BY <1>1, GoneOfTail
<1>5. w \in Dirs(r) /\ w \notin GoneOf(p)
  BY <1>4 DEF Pending
<1>6. PendingCall(m, c, w, k, 1)
  BY <1>1, PendingCalls
<1>7. ASSUME NEW j \in 1..Len(p)
      PROVE  PendingCall(r, e, w, p, j)
  <2> DEFINE l == j + 1
  <2>0. /\ l \in 1..Len(k) /\ l # 1 /\ p[j] = k[l] /\ l > 1 /\ l - 1 = j
        /\ 1 \in 1..l /\ 2 \in 1..l /\ 2 \in 1..Len(k) /\ j \in Nat
    BY <1>1, <1>2
  <2>1. PendingCall(m, c, w, k, l)
    BY <2>0, PendingCalls
  <2> HIDE DEF l
  <2>2. /\ k[l].base = BaseOf(w, k, l) /\ k[l].base \in Dirs(m)
        /\ k[l].entries = Ents(m, c, k[l].base)
        /\ k[l].name \in DOMAIN Ents(m, c, k[l].base)
        /\ DirOf(k[l]) = Ents(m, c, k[l].base)[k[l].name]
        /\ DirOf(k[l]) \in Dirs(m) \ {0}
        /\ DOMAIN Ents(m, c, DirOf(k[l])) = k[l].todo \cup {k[j].name}
        /\ k[j].name \notin k[l].todo
        /\ \A h \in 1..Len(k) : h # l => DirOf(k[h]) # DirOf(k[l])
    BY <2>0, <2>1 DEF PendingCall
  <2>3. BaseOf(w, p, j) = BaseOf(w, k, l)
    <3>1. CASE j = Len(p)
      <4>1. l = Len(k)
        BY <1>1, <3>1 DEF l
      <4> QED  BY <3>1, <4>1 DEF BaseOf
    <3>2. CASE j # Len(p)
      <4>1. l # Len(k) /\ j + 1 \in 1..Len(p) /\ j + 1 = l
        <5>1. PICK lk \in Nat : lk = Len(k)
          BY <1>1
        <5>2. Len(p) = lk - 1
          BY ONLY <1>1, <5>1
        <5>3. j \in 1..(lk - 1) /\ j # lk - 1
          BY <3>2, <5>2
        <5>4. l # lk /\ j + 1 \in 1..(lk - 1) /\ j + 1 = l
          BY ONLY <5>1, <5>3 DEF l
        <5> QED  BY ONLY <5>1, <5>2, <5>4
      <4>2. p[j + 1] = k[l + 1]
        BY <1>1, <4>1
      <4> QED  BY <3>2, <4>1, <4>2 DEF BaseOf
    <3> QED  BY <3>1, <3>2
  <2>4. k[1].base = DirOf(k[2])
    <3>1. 1 # Len(k) /\ 1 + 1 = 2
      BY <2>0
    <3> QED  BY <1>6, <3>1 DEF PendingCall, BaseOf
  <2>5. /\ k[l].base \in Dirs(r) /\ DirOf(k[l]) \in Dirs(r) \ {0}
        /\ Ents(r, e, k[l].base) = Ents(m, c, k[l].base)
    <3>1. k[l].base # DirOf(k[1])
      BY <2>0, BaseNotLater
    <3>2. k[l].base # DirOf(k[2])
      BY <2>0, BaseNotLater
    <3>3. DirOf(k[l]) # DirOf(k[1])
      BY <1>1, <2>0, <2>2
    <3> QED  BY <2>2, <2>4, <3>1, <3>2, <3>3 DEF NameGone
  <2>6. /\ DOMAIN Ents(r, e, DirOf(k[l])) =
             p[j].todo \cup (IF j = 1 THEN {} ELSE {p[j - 1].name})
        /\ j > 1 => p[j - 1].name \notin p[j].todo
    <3>1. CASE j = 1
      <4>1. l = 2
        BY <2>0, <3>1 DEF l
      <4>2. DOMAIN Ents(r, e, k[1].base) = DOMAIN Ents(m, c, k[1].base) \ {k[1].name}
        BY DEF NameGone
      <4>3. DOMAIN Ents(r, e, DirOf(k[l])) = p[j].todo
        <5>1. DOMAIN Ents(m, c, DirOf(k[l])) = k[l].todo \cup {k[1].name}
          BY ONLY <2>2, <3>1
        <5>2. k[1].name \notin k[l].todo
          BY ONLY <2>2, <3>1
        <5>3. DirOf(k[l]) = k[1].base /\ p[j] = k[l]
          BY ONLY <2>0, <2>4, <4>1
        <5> QED  BY ONLY <4>2, <5>1, <5>2, <5>3
      <4>4. ~ (j > 1)
        BY <3>1
      <4> QED  BY ONLY <3>1, <4>3, <4>4
    <3>2. CASE j # 1
      <4>1. j - 1 \in 1..Len(p) /\ j - 1 + 1 = j /\ l # 2
        BY <1>1, <2>0, <3>2 DEF l
      <4>2. p[j - 1] = k[j]
        BY <1>1, <4>1
      <4>3. DirOf(k[l]) # k[1].base
        BY <2>0, <2>2, <2>4, <4>1
      <4>4. Ents(r, e, DirOf(k[l])) = Ents(m, c, DirOf(k[l]))
        BY <2>5, <4>3 DEF NameGone
      <4>5. DOMAIN Ents(m, c, DirOf(k[l])) = k[l].todo \cup {k[j].name}
        BY <2>2
      <4>6. k[j].name \notin k[l].todo /\ p[j] = k[l]
        BY <2>0, <2>2
      <4>7. /\ DOMAIN Ents(r, e, DirOf(k[l])) = p[j].todo \cup {p[j - 1].name}
            /\ p[j - 1].name \notin p[j].todo
        BY ONLY <4>2, <4>4, <4>5, <4>6
      <4>8. (IF j = 1 THEN {} ELSE {p[j - 1].name}) = {p[j - 1].name}
        BY <3>2
      <4> QED  BY ONLY <4>7, <4>8
    <3> QED  BY <3>1, <3>2
  <2>7. \A h \in 1..Len(p) : h # j => DirOf(p[h]) # DirOf(k[l])
    <3> SUFFICES ASSUME NEW h \in 1..Len(p), h # j
                 PROVE  DirOf(p[h]) # DirOf(k[l])
      OBVIOUS
    <3>1. h + 1 \in 1..Len(k) /\ h + 1 # l /\ p[h] = k[h + 1]
      BY <1>1, <1>2 DEF l
    <3> QED  BY <2>2, <3>1
  <2> QED  BY <2>0, <2>2, <2>3, <2>5, <2>6, <2>7 DEF PendingCall
<1> QED
  BY <1>1, <1>4, <1>5, <1>7, PendingFrom

-----------------------------------------------------------------------------
(* The steps *)

\* A directory in use is read from the block it has, which holds entries.
LEMMA DirectoryRead ==
  ASSUME mem \in Metadata, Shape(mem, content), NEW d \in Dirs(mem)
  PROVE  /\ BlockOf(d) = Block(mem, d) /\ Entries(d) = Ents(mem, content, d)
         /\ Entries(d) \in EntryMaps /\ Readable(d)
<1>1. BlocksOf(mem, d) # << >>
  <2>1. Len(BlocksOf(mem, d)) = 1
    BY DEF Shape, Measured
  <2> QED  BY <2>1
<1>2. BlockOf(d) = Block(mem, d)
  BY <1>1 DEF BlockOf, Block, BlocksOf
<1>3. Entries(d) = Ents(mem, content, d)
  BY <1>2 DEF Entries, Ents
<1>4. Entries(d) \in EntryMaps
  BY <1>3 DEF Shape, NamesLead
<1> QED
  BY <1>2, <1>3, <1>4, EntriesTyped DEF Readable

\* Entries that fit are written to their block only.
LEMMA FittingWritten ==
  ASSUME NEW b, NEW v, DOMAIN v \in Fitting
  PROVE  Written(b, v) = [content EXCEPT ![b] = v]
BY DEF Written

\* So are those without one of their names.
LEMMA ErasedWritten ==
  ASSUME NEW b, NEW f \in EntryMaps, NEW n
  PROVE  Written(b, Erased(f, n)) = [content EXCEPT ![b] = Erased(f, n)]
<1>1. Erased(f, n) \in EntryMaps
  BY EntryTaken DEF OneLess
<1>2. DOMAIN Erased(f, n) \in Fitting
  BY <1>1, EntriesTyped
<1> QED
  BY <1>2, FittingWritten

\* A remainder may be taken before something is added.
LEMMA RemainderAdded ==
  ASSUME NEW w \in Nat, w > 0, NEW a \in Int, NEW b \in Int
  PROVE  ((a % w) + b) % w = (a + b) % w
<1> DEFINE q == a \div w
           p == ((a % w) + b) \div w
           r == (a + b) \div w
           x == a % w
           y == ((a % w) + b) % w
           z == (a + b) % w
<1>1. /\ q \in Int /\ p \in Int /\ r \in Int
      /\ y \in 0..(w - 1) /\ z \in 0..(w - 1) /\ x \in Int
      /\ a = w * q + x /\ x + b = w * p + y /\ a + b = w * r + z
  OBVIOUS
<1> HIDE DEF q, p, r, x, y, z
<1>3. w * q + w * p = w * r + z - y
  BY <1>1
<1>4. w * q + w * p - w * r = w * (q + p - r)
  BY <1>1
<1>5. z = w * (q + p - r) + y
  BY <1>1, <1>3, <1>4
<1>6. y = z
  BY <1>1, <1>5, RemainderUnique
<1> QED
  BY <1>6 DEF y, z

\* What holds whenever a command is awaited.
Waiting ==
  /\ mem \in Metadata /\ content \in Contents /\ disk = mem /\ cwd \in Dirs(mem)
  /\ Shape(mem, content) /\ DirLinks(mem, {}) /\ Counted(mem, content)
  /\ Distance(mem) = MetaDataSize
  /\ calls = << >> /\ calls \in Seq(Frames) /\ GoneOf(calls) = {}
  /\ Dirs(mem) \subseteq mem.iused /\ mem.iused \subseteq INodes /\ 0 \in Dirs(mem)

\* It follows from the invariant.
LEMMA AtMenu ==
  ASSUME Inv, Menu
  PROVE  Waiting
<1>1. calls = << >> /\ calls \in Seq(Frames)
  BY DEF Inv, Typed, Menu
<1>2. GoneOf(calls) = {}
  BY <1>1 DEF GoneOf
<1>3. /\ Shape(mem, content) /\ Counted(mem, content) /\ Distance(mem) = MetaDataSize
      /\ DirLinks(mem, {}) /\ Pending(mem, content, cwd, calls)
  BY <1>2 DEF Inv, Kept
<1>4. cwd \in Dirs(mem)
  BY <1>3 DEF Pending
<1>5. mem \in Metadata /\ content \in Contents /\ disk = mem
  BY DEF Inv, Typed, Saved, Menu
<1>6. Dirs(mem) \subseteq mem.iused /\ mem.iused \subseteq INodes /\ 0 \in Dirs(mem)
  BY <1>3, <1>5 DEF Dirs, Metadata, Shape, Rooted
<1> QED
  BY <1>1, <1>2, <1>3, <1>4, <1>5, <1>6 DEF Waiting

\* How the current directory is read then.
LEMMA CurrentRead ==
  ASSUME Waiting
  PROVE  /\ BlockOf(cwd) = Block(mem, cwd) /\ Entries(cwd) = Ents(mem, content, cwd)
         /\ Entries(cwd) \in EntryMaps /\ Readable(cwd)
BY DirectoryRead DEF Waiting

\* With hard links to files only, a name that is given is new and fits.
LEMMA GivenIsNew ==
  ASSUME Usage \subseteq {"filelink"}, Waiting, NEW n, MayBeGiven(n)
  PROVE  /\ n \notin DOMAIN Ents(mem, content, cwd)
         /\ DOMAIN Ents(mem, content, cwd) \cup {n} \in Fitting
<1>1. "samename" \notin Usage /\ "fulldir" \notin Usage
  OBVIOUS
<1> QED
  BY <1>1, CurrentRead DEF MayBeGiven, Named

\* Its entry is written to the block of the current directory.
LEMMA GivenWritten ==
  ASSUME Waiting, NEW n, NEW i, DOMAIN Ents(mem, content, cwd) \cup {n} \in Fitting
  PROVE  EntryAdded(n, i) = [content EXCEPT ![Block(mem, cwd)] = Added(@, n, i)]
<1>1. DOMAIN Added(Entries(cwd), n, i) \in Fitting
  BY CurrentRead DEF Added
<1>2. EntryAdded(n, i) = [content EXCEPT ![BlockOf(cwd)] = Added(Entries(cwd), n, i)]
  BY <1>1, FittingWritten DEF EntryAdded
<1> QED
  BY <1>2, CurrentRead DEF Ents

\* Without pending calls the current directory is all there is to say.
LEMMA NonePending ==
  ASSUME NEW m, NEW c, NEW w \in Dirs(m)
  PROVE  Pending(m, c, w, << >>)
BY DEF Pending, GoneOf

\* A command that saves keeps the invariant.
LEMMA CommandKept ==
  ASSUME Inv, NEW r, NEW e, NEW k \in Seq(Frames), NEW count \in Int,
         Outcome(mem, content, r, e, GoneOf(k), count), Pending(r, e, cwd, k),
         SavedAs(r, count),
         content' = e, cwd' = cwd, calls' = k
  PROVE  Inv'
<1>1. /\ r \in Metadata /\ e \in Contents /\ Shape(r, e) /\ DirLinks(r, GoneOf(k))
      /\ r.files = mem.files /\ Distance(r) = Distance(mem)
      /\ Cardinality(Held(r, e)) = Cardinality(Held(mem, content)) + count
  BY DEF Outcome
<1>2. mem \in Metadata /\ Counted(mem, content) /\ Distance(mem) = MetaDataSize
  BY DEF Inv, Typed, Kept
<1>3. (r.files + count) % Word = (Cardinality(Held(r, e)) + 1) % Word
  <2>1. Cardinality(Held(mem, content)) \in Nat
    BY <1>2, HeldFinite, FS_CardinalityType
  <2>2. PICK l \in Nat : l = Cardinality(Held(mem, content))
    BY <2>1
  <2>3. Word \in Nat /\ Word > 0
    BY DiskAssumption DEF MaxSize
  <2>4. r.files = (l + 1) % Word
    BY <1>1, <1>2, <2>2 DEF Counted
  <2>5. (((l + 1) % Word) + count) % Word = (l + 1 + count) % Word
    <3>1. PICK a \in Int : a = l + 1
      OBVIOUS
    <3>2. ((a % Word) + count) % Word = (a + count) % Word
      BY <2>3, RemainderAdded
    <3> QED  BY ONLY <3>1, <3>2
  <2>6. Cardinality(Held(r, e)) + 1 = l + 1 + count
    BY <1>1, <2>2
  <2> QED  BY ONLY <2>4, <2>5, <2>6
<1>4. Distance(r) = MetaDataSize
  BY <1>1, <1>2
<1>5. mem' \in Metadata /\ disk' = mem' /\ Kept(mem', e, cwd, k)
  BY <1>1, <1>3, <1>4, SavedKept
<1>6. Typed'
  <2>1. cwd \in INodes
    BY DEF Inv, Typed
  <2> QED  BY <1>1, <1>5, <2>1 DEF Typed
<1>7. Kept(mem', content', cwd', calls') /\ Saved'
  BY <1>5 DEF Saved
<1> QED
  BY <1>6, <1>7 DEF Inv

\* One free inode or block is found.
LEMMA FirstOne ==
  ASSUME NEW free \in SUBSET Nat, IsFiniteSet(free), free # {}
  PROVE  FirstFree(free, 1)[1] \in free
<1>1. Cardinality(free) \in Nat /\ Cardinality(free) # 0
  BY FS_CardinalityType, FS_EmptySet
<1>2. 1 \in Nat /\ 1 <= Cardinality(free)
  BY <1>1
<1>3. FirstFree(free, 1) \in Seq(free) /\ Len(FirstFree(free, 1)) = 1
  BY <1>2, FirstFreeResult
<1> HIDE DEF FirstFree
<1> QED
  BY <1>3

\* createDirectory keeps the invariant.
LEMMA createDirectoryKeeps ==
  ASSUME Usage \subseteq {"filelink"}, Inv, NEW n \in Names, createDirectory(n)
  PROVE  Inv'
<1>1. Waiting
  BY AtMenu DEF createDirectory
<1>2. PICK i : i = FirstFree(FreeINodes, 1)[1]
  OBVIOUS
<1>3. PICK b : b = FirstFree(FreeBlocks, 1)[1]
  OBVIOUS
<1>4. i \in INodes \ mem.iused /\ b \in Blocks \ mem.bused
  <2>1. /\ FreeINodes \in SUBSET Nat /\ IsFiniteSet(FreeINodes)
        /\ FreeBlocks \in SUBSET Nat /\ IsFiniteSet(FreeBlocks)
    <3>1. INodes \in SUBSET Nat /\ Blocks \in SUBSET Nat
      BY DEF INodes, Blocks
    <3>2. IsFiniteSet(INodes) /\ IsFiniteSet(Blocks)
      BY <1>1, HeldFinite DEF Waiting
    <3> QED  BY <3>1, <3>2, FS_Subset DEF FreeINodes, FreeBlocks
  <2>2. FreeINodes # {} /\ FreeBlocks # {}
    BY DEF createDirectory
  <2>3. i \in FreeINodes
    BY <1>2, <2>1, <2>2, FirstOne
  <2>4. b \in FreeBlocks
    BY <1>3, <2>1, <2>2, FirstOne
  <2> QED  BY <2>3, <2>4 DEF FreeINodes, FreeBlocks
<1>5. PICK r : r = Occupied(mem, i, DirectoryINode(b, cwd))
  OBVIOUS
<1>6. PICK e : e = [[content EXCEPT ![Block(mem, cwd)] = Added(@, n, i)] EXCEPT ![b] = NoEntries]
  OBVIOUS
<1>7. /\ n \notin DOMAIN Ents(mem, content, cwd)
      /\ DOMAIN Ents(mem, content, cwd) \cup {n} \in Fitting
  BY <1>1, GivenIsNew DEF createDirectory
<1>8. /\ Save(Grown(r, cwd, DataBlockSize), DataBlockSize, 1)
      /\ content' = e /\ cwd' = cwd /\ calls' = calls
  <2>1. Allocated(i, DirectoryINode(b, cwd)) = r
    BY <1>5 DEF Allocated, Occupied
  <2>2. ZeroFilled(EntryAdded(n, i), b) = e
    BY <1>1, <1>6, <1>7, GivenWritten DEF ZeroFilled
  <2> QED  BY <1>2, <1>3, <2>1, <2>2 DEF createDirectory
<1>9. Outcome(mem, content, r, e, {}, 1) /\ cwd \in Dirs(r)
  BY <1>1, <1>4, <1>5, <1>6, <1>7, DirectoryAdded DEF Waiting
<1>10. Pending(r, e, cwd, calls)
  BY <1>1, <1>9, NonePending DEF Waiting
<1>11. SavedAs(r, 1)
  <2>1. DataBlockSize \in Int /\ 1 \in Int
    BY DiskAssumption
  <2> QED  BY <1>8, <1>9, <2>1, GrownSaved DEF Outcome
<1>12. Outcome(mem, content, r, e, GoneOf(calls), 1) /\ calls \in Seq(Frames) /\ 1 \in Int
  <2>1. GoneOf(calls) = {} /\ calls \in Seq(Frames)
    BY <1>1 DEF Waiting
  <2>2. Outcome(mem, content, r, e, GoneOf(calls), 1)
    BY ONLY <1>9, <2>1, ZenonT(20)
  <2> QED  BY <2>1, <2>2
<1> QED
  BY <1>8, <1>10, <1>11, <1>12, CommandKept

\* The blocks of a file that is copied are as many as a file may have.
LEMMA NewBlocks ==
  ASSUME NEW w \in Nat, w > 0, NEW size \in Nat, NEW k \in Nat, size <= k * w - 1
  PROVE  /\ (size + w - 1) \div w \in Nat /\ (size + w - 1) \div w <= k
         /\ ((size + w - 1) \div w) - (size \div w) \in {0, 1}
<1> DEFINE p == size \div w
           q == (size + w - 1) \div w
           x == size % w
           y == (size + w - 1) % w
<1>1. /\ p \in Int /\ q \in Int /\ x \in 0..(w - 1) /\ y \in 0..(w - 1)
      /\ size = w * p + x /\ size + w - 1 = w * q + y
  OBVIOUS
<1> HIDE DEF p, q, x, y
<1>2. w * q - w * p = w * (q - p) /\ w * q - w * k = w * (q - k) /\ k * w = w * k
  BY <1>1
<1>3. w * (q - p) = x - y + w - 1
  BY <1>1, <1>2
<1>4. q - p >= 0
  <2>1. q - p <= -1 => w * (q - p) <= - w
    BY <1>1
  <2> QED  BY <1>1, <1>3, <2>1
<1>5. q - p <= 1
  <2>1. q - p >= 2 => w * (q - p) >= w * 2
    BY <1>1
  <2> QED  BY <1>1, <1>3, <2>1
<1>6. q <= k
  <2>1. w * (q - k) <= w - 2
    BY <1>1, <1>2
  <2>2. q - k >= 1 => w * (q - k) >= w
    BY <1>1
  <2> QED  BY <1>1, <2>1, <2>2
<1>7. p >= 0
  <2>1. p <= -1 => w * p <= - w
    BY <1>1
  <2> QED  BY <1>1, <2>1
<1>8. q \in Nat /\ q - p \in {0, 1}
  BY <1>1, <1>4, <1>5, <1>7
<1> QED
  BY <1>6, <1>8 DEF p, q

\* So are those of every file that is copied.
LEMMA CopiedBlocks ==
  ASSUME NEW size \in 0..MaxSize
  PROVE  /\ size \in Nat /\ size \in 0..(Word - 1)
         /\ NewFileBlocks(size) \in Nat /\ NewFileBlocks(size) <= DirectBlocks
         /\ NewFileBlocks(size) - (size \div DataBlockSize) \in {0, 1}
<1>1. size \in Nat /\ size \in 0..(Word - 1) /\ size <= DirectBlocks * DataBlockSize - 1
  <2>1. MaxSize \in Int /\ MaxSize < Word /\ MaxSize = DirectBlocks * DataBlockSize - 1
    BY DiskAssumption DEF MaxSize
  <2> QED  BY <2>1, DiskAssumption
<1>2. /\ (size + DataBlockSize - 1) \div DataBlockSize \in Nat
      /\ (size + DataBlockSize - 1) \div DataBlockSize <= DirectBlocks
      /\ ((size + DataBlockSize - 1) \div DataBlockSize) - (size \div DataBlockSize) \in {0, 1}
  BY <1>1, DiskAssumption, NewBlocks
<1> QED
  BY <1>1, <1>2 DEF NewFileBlocks

\* copyFileFromSystemDisk keeps the invariant.
LEMMA copyFileKeeps ==
  ASSUME Usage \subseteq {"filelink"}, Inv, NEW n \in Names, NEW size \in 0..MaxSize,
         copyFileFromSystemDisk(n, size)
  PROVE  Inv'
<1>1. Waiting
  BY AtMenu DEF copyFileFromSystemDisk
<1>2. PICK i : i = FirstFree(FreeINodes, 1)[1]
  OBVIOUS
<1>3. PICK count : count = NewFileBlocks(size)
  OBVIOUS
<1>4. PICK blocks : blocks = FirstFree(FreeBlocks, count)
  OBVIOUS
<1>5. /\ FreeINodes \in SUBSET Nat /\ IsFiniteSet(FreeINodes)
      /\ FreeBlocks \in SUBSET Nat /\ IsFiniteSet(FreeBlocks)
  <2>1. INodes \in SUBSET Nat /\ Blocks \in SUBSET Nat
    BY DEF INodes, Blocks
  <2>2. IsFiniteSet(INodes) /\ IsFiniteSet(Blocks)
    BY <1>1, HeldFinite DEF Waiting
  <2> QED  BY <2>1, <2>2, FS_Subset DEF FreeINodes, FreeBlocks
<1>6. i \in INodes \ mem.iused
  <2>1. i \in FreeINodes
    BY <1>2, <1>5, FirstOne DEF copyFileFromSystemDisk
  <2> QED  BY <2>1 DEF FreeINodes
<1>7. size \in Nat /\ size \in 0..(Word - 1)
  BY CopiedBlocks
<1>8. count \in Nat /\ count <= DirectBlocks /\ count - (size \div DataBlockSize) \in {0, 1}
  BY <1>3, CopiedBlocks
<1>9. /\ blocks \in Seq(FreeBlocks) /\ Len(blocks) = count
      /\ \A j, k \in 1..count : blocks[j] = blocks[k] => j = k
  <2>1. count <= Cardinality(FreeBlocks)
    BY <1>3 DEF copyFileFromSystemDisk
  <2> QED  BY <1>4, <1>5, <1>8, <2>1, FirstFreeResult
<1>10. PICK x : x = [dir |-> FALSE, blocks |-> blocks, size |-> size, links |-> 1,
                     parent |-> cwd]
  OBVIOUS
<1>11. /\ x.blocks = blocks /\ ~ x.dir /\ x.links = 1 /\ x.size = size
       /\ x \in INodeRecords
  <2>1. blocks \in Seq(Blocks) /\ cwd \in INodes
    BY <1>1, <1>9 DEF Waiting, FreeBlocks
  <2> QED  BY <1>7, <1>10, <2>1 DEF INodeRecords
<1>12. FreshINode(mem, x)
  <2>1. Elements(blocks) \subseteq Blocks \ mem.bused
    BY <1>9 DEF Elements, FreeBlocks
  <2>2. Distinct(blocks)
    BY <1>9 DEF Distinct
  <2> QED  BY <1>8, <1>9, <1>11, <2>1, <2>2 DEF FreshINode
<1>13. PICK r : r = Occupied(mem, i, x)
  OBVIOUS
<1>14. PICK e : e = [b \in Blocks |->
                       IF b \in Elements(x.blocks) THEN DATA
                       ELSE [content EXCEPT ![Block(mem, cwd)] = Added(@, n, i)][b]]
  OBVIOUS
<1>15. /\ n \notin DOMAIN Ents(mem, content, cwd)
       /\ DOMAIN Ents(mem, content, cwd) \cup {n} \in Fitting
  BY <1>1, GivenIsNew DEF copyFileFromSystemDisk
<1>16. /\ Save(Grown(r, cwd, size), size, 1)
       /\ content' = e /\ cwd' = cwd /\ calls' = calls
  <2>1. Allocated(i, x) = r
    BY <1>13 DEF Allocated, Occupied
  <2>2. [b \in Blocks |-> IF b \in Elements(blocks) THEN DATA ELSE EntryAdded(n, i)[b]] = e
    BY <1>1, <1>11, <1>14, <1>15, GivenWritten
  <2> QED  BY <1>2, <1>3, <1>4, <1>10, <2>1, <2>2 DEF copyFileFromSystemDisk
<1>17. Outcome(mem, content, r, e, {}, 1) /\ Dirs(r) = Dirs(mem)
  BY <1>1, <1>6, <1>11, <1>12, <1>13, <1>14, <1>15, FileAdded DEF Waiting
<1>18. Pending(r, e, cwd, calls) /\ cwd \in Dirs(r)
  BY <1>1, <1>17, NonePending DEF Waiting
<1>19. SavedAs(r, 1)
  <2>1. size \in Int /\ 1 \in Int
    OBVIOUS
  <2> QED  BY <1>16, <1>17, <1>18, <2>1, GrownSaved DEF Outcome
<1>20. Outcome(mem, content, r, e, GoneOf(calls), 1) /\ calls \in Seq(Frames) /\ 1 \in Int
  <2>1. GoneOf(calls) = {} /\ calls \in Seq(Frames)
    BY <1>1 DEF Waiting
  <2>2. Outcome(mem, content, r, e, GoneOf(calls), 1)
    BY ONLY <1>17, <2>1, ZenonT(20)
  <2> QED  BY <2>1, <2>2
<1> QED
  BY <1>16, <1>18, <1>19, <1>20, CommandKept

-----------------------------------------------------------------------------
(* What a path from home leads to *)

\* A step further from the inodes in S.
Onward(S) ==
  S \cup UNION {Elements(Entries(i)) : i \in {j \in S : Passed(j)}}

\* Functions f are the inodes after each of n steps.
Steps(n, f) ==
  f = [k \in 0..n |-> IF k = 0 THEN {0} ELSE Onward(f[k - 1])]

\* The recursion over the steps has a solution.
LEMMA StepsExist ==
  ASSUME NEW n \in Nat
  PROVE  \E f : Steps(n, f)
<1> DEFINE T == {k \in Nat : ~ \E f : Steps(k, f)}
<1> SUFFICES ASSUME T # {}
             PROVE  FALSE
  OBVIOUS
<1>1. PICK k \in T : \A j \in T : k <= j
  BY Smallest
<1>2. k \in Nat /\ ~ \E f : Steps(k, f)
  OBVIOUS
<1>3. CASE k = 0
  <2> DEFINE f == [j \in 0..0 |-> {0}]
  <2>1. \A j \in 0..0 : j = 0 /\ f[j] = {0}
    OBVIOUS
  <2>2. f = [j \in 0..0 |-> IF j = 0 THEN {0} ELSE Onward(f[j - 1])]
    BY <2>1
  <2>3. Steps(0, f)
    BY <2>2 DEF Steps
  <2> QED  BY <1>2, <1>3, <2>3
<1>4. CASE k > 0
  <2>1. k - 1 \in Nat /\ k - 1 \notin T
    BY <1>1, <1>2, <1>4
  <2>2. PICK f : Steps(k - 1, f)
    BY <2>1
  <2>3. \A j \in 0..(k - 1) : f[j] = IF j = 0 THEN {0} ELSE Onward(f[j - 1])
    BY <2>2 DEF Steps
  <2> DEFINE g == [j \in 0..k |-> IF j = k THEN Onward(f[k - 1]) ELSE f[j]]
  <2>4. \A j \in 0..k : g[j] = IF j = 0 THEN {0} ELSE Onward(g[j - 1])
    <3> SUFFICES ASSUME NEW j \in 0..k
                 PROVE  g[j] = IF j = 0 THEN {0} ELSE Onward(g[j - 1])
      OBVIOUS
    <3>1. CASE j = 0
      <4>1. g[j] = f[j] /\ j \in 0..(k - 1)
        BY <1>2, <1>4, <3>1
      <4>2. f[j] = {0}
        BY <2>3, <3>1, <4>1
      <4> QED  BY <3>1, <4>1, <4>2
    <3>2. CASE j # 0
      <4>1. j - 1 \in 0..k /\ j - 1 # k /\ j - 1 \in 0..(k - 1)
        BY <1>2, <3>2
      <4>2. g[j - 1] = f[j - 1]
        BY <4>1
      <4>3. CASE j = k
        <5>1. g[j] = Onward(f[k - 1])
          BY <4>3
        <5> QED  BY <3>2, <4>2, <4>3, <5>1
      <4>4. CASE j # k
        <5>1. j \in 0..(k - 1) /\ g[j] = f[j]
          BY <1>2, <4>4
        <5>2. f[j] = Onward(f[j - 1])
          BY <2>3, <3>2, <5>1
        <5> QED  BY <3>2, <4>2, <5>1, <5>2
      <4> QED  BY <4>3, <4>4
    <3> QED  BY <3>1, <3>2
  <2>5. g = [j \in 0..k |-> g[j]]
    OBVIOUS
  <2> HIDE DEF g
  <2>6. g = [j \in 0..k |-> IF j = 0 THEN {0} ELSE Onward(g[j - 1])]
    BY <2>4, <2>5
  <2>7. Steps(k, g)
    BY <2>6 DEF Steps
  <2> QED  BY <1>2, <2>7
<1> QED
  BY <1>2, <1>3, <1>4

\* A property of a finite run of numbers.
LEMMA Upward ==
  ASSUME NEW n \in Nat, NEW P \in SUBSET Nat, 0 \in P,
         \A k \in 0..n : k \in P /\ k < n => k + 1 \in P
  PROVE  \A k \in 0..n : k \in P
<1> DEFINE T == {k \in 0..n : k \notin P}
<1> SUFFICES ASSUME T # {}
             PROVE  FALSE
  OBVIOUS
<1>1. T \in SUBSET Nat
  OBVIOUS
<1>2. PICK k \in T : \A j \in T : k <= j
  BY <1>1, Smallest
<1>3. k \in 0..n /\ k \notin P /\ k # 0
  OBVIOUS
<1>4. k - 1 \in 0..n /\ ~ (k <= k - 1) /\ k - 1 < n /\ k - 1 + 1 = k
  BY <1>3
<1>5. k - 1 \in P
  BY <1>2, <1>4
<1> QED
  BY <1>3, <1>4, <1>5

\* S contains home and is closed under the names of its directories.
ClosedTree(S) ==
  /\ 0 \in S /\ S \subseteq mem.iused /\ Onward(S) = S

\* A set of inodes that contains home and what its directories name is all.
LEMMA ClosedIsAll ==
  ASSUME mem \in Metadata, Shape(mem, content), NEW S, ClosedTree(S)
  PROVE  S = mem.iused
<1>1. /\ 0 \in S /\ S \subseteq mem.iused /\ Onward(S) = S
      /\ Rooted(mem) /\ DirsNamed(mem, content) /\ FilesNamed(mem, content)
  BY DEF ClosedTree, Shape
<1>2. ASSUME NEW d \in Dirs(mem), d \in S, NEW n \in DOMAIN Ents(mem, content, d)
      PROVE  Ents(mem, content, d)[n] \in S
  <2>1. d \in {j \in S : Passed(j)}
    BY <1>2, DirectoryRead DEF Dirs, Passed
  <2>2. Ents(mem, content, d)[n] \in Elements(Entries(d))
    BY DirectoryRead DEF Elements
  <2>3. Ents(mem, content, d)[n] \in Onward(S)
    BY <2>1, <2>2 DEF Onward
  <2> QED  BY <1>1, <2>3
<1>3. Dirs(mem) \subseteq S
  <2> DEFINE T == Dirs(mem) \ S
  <2> SUFFICES ASSUME T # {}
               PROVE  FALSE
    OBVIOUS
  <2>1. T \in SUBSET (Dirs(mem) \ {0})
    BY <1>1
  <2>2. PICK d \in T : Parent(mem, d) \notin T
    BY <1>1, <2>1 DEF Rooted, Acyclic
  <2>3. d \in Dirs(mem) \ {0} /\ Parent(mem, d) \in Dirs(mem) /\ Parent(mem, d) \in S
    BY <1>1, <2>1, <2>2 DEF Rooted
  <2>4. PICK n \in DOMAIN Ents(mem, content, Parent(mem, d)) : HeldOf(mem, content, d) = {<<Parent(mem, d), n>>}
    BY <1>1, <2>3 DEF DirsNamed
  <2>5. Ents(mem, content, Parent(mem, d))[n] = d
    <3>1. <<Parent(mem, d), n>> \in HeldOf(mem, content, d)
      BY <2>4
    <3> QED  BY <3>1 DEF HeldOf
  <2>6. d \in S
    BY <1>2, <2>3, <2>5
  <2> QED  BY <2>2, <2>6
<1>4. ASSUME NEW i \in mem.iused, i \notin Dirs(mem)
      PROVE  i \in S
  <2>1. Cardinality(HeldOf(mem, content, i)) # 0
    BY <1>1, <1>4 DEF FilesNamed
  <2>2. HeldOf(mem, content, i) # {}
    BY <2>1, FS_EmptySet
  <2>3. PICK p : p \in HeldOf(mem, content, i)
    BY <2>2
  <2>4. p[1] \in Dirs(mem) /\ p[2] \in DOMAIN Ents(mem, content, p[1]) /\ Ents(mem, content, p[1])[p[2]] = i
    BY <2>3 DEF HeldOf, Held
  <2> QED  BY <1>2, <1>3, <2>4
<1> QED
  BY <1>1, <1>3, <1>4

\* After as many steps as there are inodes there is nothing new.
LEMMA StepsEnd ==
  ASSUME Usage \subseteq {"filelink"}, mem \in Metadata, Shape(mem, content),
         NEW f, Steps(LastINode + 1, f)
  PROVE  f[LastINode + 1] = mem.iused
<1> DEFINE N == LastINode + 1
           Big(k) == Onward(f[k]) = f[k] \/ Cardinality(f[k]) >= k + 1
           P == {k \in Nat : f[k] \subseteq mem.iused /\ 0 \in f[k]}
           Q == {k \in Nat : Big(k)}
<1>1. N \in Nat /\ LastINode \in Nat
  BY DiskAssumption
<1>2. \A k \in 0..N : f[k] = IF k = 0 THEN {0} ELSE Onward(f[k - 1])
  BY DEF Steps
<1>3. f[0] = {0} /\ \A k \in 0..N : k < N => f[k + 1] = Onward(f[k])
  <2>1. 0 \in 0..N
    BY <1>1
  <2>2. \A k \in 0..N : k < N => k + 1 \in 0..N /\ k + 1 # 0 /\ k + 1 - 1 = k
    BY <1>1
  <2> QED  BY <1>2, <2>1, <2>2
<1> HIDE DEF N
<1>4. mem.iused \subseteq INodes /\ 0 \in mem.iused /\ NamesLead(mem, content)
  BY DEF Metadata, Shape, Rooted, Dirs
<1>5. ASSUME NEW S, S \subseteq mem.iused
      PROVE  Onward(S) \subseteq mem.iused /\ S \subseteq Onward(S)
  <2>1. ASSUME NEW i \in S, Passed(i)
        PROVE  Elements(Entries(i)) \subseteq mem.iused
    <3>1. i \in Dirs(mem)
      BY <1>5, <2>1 DEF Dirs, Passed
    <3>2. Entries(i) = Ents(mem, content, i)
      BY <3>1, DirectoryRead
    <3> QED  BY <1>4, <3>1, <3>2 DEF NamesLead, Elements
  <2> QED  BY <1>5, <2>1 DEF Onward
<1>6. \A k \in 0..N : k \in P
  <2>1. 0 \in P
    BY <1>3, <1>4
  <2>2. \A k \in 0..N : k \in P /\ k < N => k + 1 \in P
    <3> SUFFICES ASSUME NEW k \in 0..N, k \in P, k < N
                 PROVE  k + 1 \in P
      OBVIOUS
    <3>1. f[k] \subseteq mem.iused /\ 0 \in f[k] /\ k + 1 \in Nat
      OBVIOUS
    <3>2. Onward(f[k]) \subseteq mem.iused /\ f[k] \subseteq Onward(f[k])
      BY <1>5, <3>1
    <3>3. f[k + 1] = Onward(f[k])
      BY <1>3
    <3> QED  BY <3>1, <3>2, <3>3
  <2>3. P \in SUBSET Nat
    OBVIOUS
  <2> HIDE DEF P
  <2> QED  BY <1>1, <2>1, <2>2, <2>3, Upward
<1>7. IsFiniteSet(INodes) /\ Cardinality(INodes) = LastINode + 1
  BY <1>1, FS_Interval DEF INodes
<1>8. \A S : S \subseteq mem.iused =>
        IsFiniteSet(S) /\ Cardinality(S) \in Nat /\ Cardinality(S) <= LastINode + 1
  <2> SUFFICES ASSUME NEW S, S \subseteq mem.iused
               PROVE  IsFiniteSet(S) /\ Cardinality(S) \in Nat /\ Cardinality(S) <= LastINode + 1
    OBVIOUS
  <2>1. S \in SUBSET INodes
    BY <1>4
  <2> QED  BY <1>7, <2>1, FS_Subset, FS_CardinalityType
<1>9. \A k \in 0..N : k \in Q
  <2>1. 0 \in Q
    <3>1. Cardinality({0}) = 1
      BY FS_Singleton
    <3> QED  BY <1>3, <3>1
  <2>2. \A k \in 0..N : k \in Q /\ k < N => k + 1 \in Q
    <3> SUFFICES ASSUME NEW k \in 0..N, k \in Q, k < N
                 PROVE  k + 1 \in Q
      OBVIOUS
    <3>1. k \in Nat /\ k + 1 \in Nat /\ Big(k) /\ f[k + 1] = Onward(f[k])
      BY <1>3
    <3>2. f[k] \subseteq mem.iused
      BY <1>6
    <3>3. f[k + 1] \subseteq mem.iused /\ f[k] \subseteq f[k + 1]
      BY <1>5, <3>1, <3>2
    <3>4. CASE Onward(f[k]) = f[k]
      <4>1. f[k + 1] = f[k]
        BY <3>1, <3>4
      <4>2. Onward(f[k + 1]) = f[k + 1]
        BY <3>4, <4>1
      <4> QED  BY <3>1, <4>2
    <3>5. CASE Onward(f[k]) # f[k]
      <4>1. f[k] # f[k + 1]
        BY <3>1, <3>5
      <4>2. PICK z : z \in f[k + 1] /\ z \notin f[k]
        BY <3>3, <4>1
      <4>3. IsFiniteSet(f[k]) /\ IsFiniteSet(f[k + 1])
        BY <1>8, <3>2, <3>3
      <4>4. Cardinality(f[k] \cup {z}) = Cardinality(f[k]) + 1
        BY <4>2, <4>3, FS_AddElement
      <4>5. f[k] \cup {z} \in SUBSET f[k + 1]
        BY <3>3, <4>2
      <4>6. Cardinality(f[k] \cup {z}) <= Cardinality(f[k + 1])
        BY <4>3, <4>5, FS_Subset
      <4>7. Cardinality(f[k]) \in Nat /\ Cardinality(f[k + 1]) \in Nat
        BY <1>8, <3>2, <3>3
      <4>8. Cardinality(f[k + 1]) >= k + 1 + 1
        BY <3>1, <3>5, <4>4, <4>6, <4>7
      <4> QED  BY <3>1, <4>8
    <3> QED  BY <3>4, <3>5
  <2>3. Q \in SUBSET Nat
    OBVIOUS
  <2> HIDE DEF Q
  <2> QED  BY <1>1, <2>1, <2>2, <2>3, Upward
<1>10. N \in 0..N
  BY <1>1
<1>11. f[N] \subseteq mem.iused /\ 0 \in f[N] /\ Big(N)
  BY <1>6, <1>9, <1>10
<1>12. Onward(f[N]) = f[N]
  <2>1. Cardinality(f[N]) \in Nat /\ Cardinality(f[N]) <= LastINode + 1
    BY <1>8, <1>11
  <2>2. ~ (Cardinality(f[N]) >= N + 1)
    BY <1>1, <2>1 DEF N
  <2> QED  BY <1>11, <2>2
<1>13. ClosedTree(f[N])
  BY <1>11, <1>12 DEF ClosedTree
<1>14. f[N] = mem.iused
  BY <1>13, ClosedIsAll
<1> QED
  BY <1>14 DEF N

\* The inodes that are reached are those in use.
LEMMA ReachedAreUsed ==
  ASSUME Usage \subseteq {"filelink"}, mem \in Metadata, Shape(mem, content)
  PROVE  Reachable = mem.iused
<1> DEFINE Reach(f) ==
      f = [k \in 0..(LastINode + 1) |->
             IF k = 0 THEN {0}
             ELSE LET before == f[k - 1]
                  IN  before \cup UNION {Elements(Entries(i)) :
                                           i \in {j \in before : Passed(j)}}]
           u == CHOOSE f : Reach(f)
<1>1. \A f : Reach(f) <=> Steps(LastINode + 1, f)
  BY DEF Steps, Onward
<1>2. LastINode + 1 \in Nat
  BY DiskAssumption
<1>3. \E f : Reach(f)
  <2> HIDE DEF Reach
  <2> QED  BY <1>1, <1>2, StepsExist
<1>4. Reachable = u[LastINode + 1]
  BY DEF Reachable
<1> HIDE DEF Reach
<1>5. Reach(u)
  BY <1>3
<1> HIDE DEF u
<1>6. Steps(LastINode + 1, u)
  BY <1>1, <1>5
<1> QED
  BY <1>4, <1>6, StepsEnd

-----------------------------------------------------------------------------
(* The other commands *)

\* createHardLink keeps the invariant.
LEMMA createHardLinkKeeps ==
  ASSUME Usage \subseteq {"filelink"}, Inv, NEW n \in Names, NEW i \in INodes,
         createHardLink(i, n)
  PROVE  Inv'
<1>1. Waiting
  BY AtMenu DEF createHardLink
<1>2. i \in mem.iused /\ i \notin Dirs(mem)
  <2>1. Reachable = mem.iused
    BY <1>1, ReachedAreUsed DEF Waiting
  <2>2. ~ mem.inode[i].dir
    BY DEF createHardLink
  <2> QED  BY <2>1, <2>2 DEF createHardLink, Dirs
<1>3. /\ n \notin DOMAIN Ents(mem, content, cwd)
      /\ DOMAIN Ents(mem, content, cwd) \cup {n} \in Fitting
  BY <1>1, GivenIsNew DEF createHardLink
<1>4. PICK r : r = [mem EXCEPT !.inode[i].links = @ + 1]
  OBVIOUS
<1>5. PICK e : e = [content EXCEPT ![Block(mem, cwd)] = Added(@, n, i)]
  OBVIOUS
<1>6. /\ Save(r, 0, 1)
      /\ content' = e /\ cwd' = cwd /\ calls' = calls
  <2>1. EntryAdded(n, i) = e
    BY <1>1, <1>3, <1>5, GivenWritten
  <2> QED  BY <1>4, <2>1 DEF createHardLink
<1>7. Outcome(mem, content, r, e, {}, 1) /\ Dirs(r) = Dirs(mem)
  BY <1>1, <1>2, <1>3, <1>4, <1>5, LinkAdded DEF Waiting
<1>8. Pending(r, e, cwd, calls) /\ cwd \in Dirs(r)
  BY <1>1, <1>7, NonePending DEF Waiting
<1>9. SavedAs(r, 1)
  BY <1>6, <1>7, PlainSaved DEF Outcome
<1>10. Outcome(mem, content, r, e, GoneOf(calls), 1) /\ calls \in Seq(Frames) /\ 1 \in Int
  <2>1. GoneOf(calls) = {} /\ calls \in Seq(Frames)
    BY <1>1 DEF Waiting
  <2>2. Outcome(mem, content, r, e, GoneOf(calls), 1)
    BY ONLY <1>7, <2>1, ZenonT(20)
  <2> QED  BY <2>1, <2>2
<1> QED
  BY <1>6, <1>8, <1>9, <1>10, CommandKept

\* A file of a directory is deleted, with metadata r before they are saved.
Removed(base, n, r) ==
  /\ Outcome(mem, content, r, content', GoneOf(calls), -1) /\ Dirs(r) = Dirs(mem)
  /\ NameGone(mem, content, r, content', base, n)
  /\ SavedAs(r, -1)

\* deleteFile, called by the user or for a directory that is deleted.
LEMMA FileRemovedResult ==
  ASSUME Inv, NEW base \in Dirs(mem), NEW n \in DOMAIN Ents(mem, content, base),
         ~ mem.inode[Entries(base)[n]].dir, FileRemoved(base, n)
  PROVE  \E r : Removed(base, n, r)
<1>1. /\ mem \in Metadata /\ content \in Contents /\ Shape(mem, content)
      /\ DirLinks(mem, GoneOf(calls))
      /\ mem.iused \subseteq INodes
  BY DEF Inv, Typed, Kept, Metadata
<1>2. PICK i : i = Ents(mem, content, base)[n]
  OBVIOUS
<1>3. i = Entries(base)[n] /\ i \notin Dirs(mem)
  BY <1>1, <1>2, DirectoryRead DEF Dirs
<1>4. i \in INodes
  BY <1>1, <1>2 DEF Shape, NamesLead
<1>5. PICK r : r = Unlinked(mem, i)
  OBVIOUS
<1>6. PICK e : e = [content EXCEPT ![Block(mem, base)] = Erased(@, n)]
  OBVIOUS
<1>7. PICK delta : delta = IF mem.inode[i].links = 1 THEN - mem.inode[i].size ELSE 0
  OBVIOUS
<1>8. delta \in Int
  <2>1. mem.inode[i].size \in Int
    BY <1>1, <1>4 DEF Metadata, INodeRecords
  <2> QED  BY <1>7, <2>1
<1>9. Save(Grown(r, base, delta), delta, -1) /\ content' = e
  <2>1. FileUnlinked(i) = r
    BY <1>5 DEF FileUnlinked, Unlinked
  <2>2. Written(BlockOf(base), Erased(Entries(base), n)) = e
    BY <1>1, <1>6, DirectoryRead, ErasedWritten DEF Ents
  <2> QED  BY <1>3, <1>7, <2>1, <2>2 DEF FileRemoved
<1>10. /\ Outcome(mem, content, r, e, GoneOf(calls), -1) /\ Dirs(r) = Dirs(mem)
       /\ NameGone(mem, content, r, e, base, n)
  <2>1. FileGone(mem, content, r, e, GoneOf(calls), base, n)
    BY <1>1, <1>2, <1>3, <1>5, <1>6, FileTaken
  <2> QED  BY <2>1 DEF FileGone
<1>11. SavedAs(r, -1)
  <2>1. base \in Dirs(r) /\ -1 \in Int
    BY <1>10
  <2> QED  BY <1>8, <1>9, <1>10, <2>1, GrownSaved DEF Outcome
<1> QED
  BY <1>9, <1>10, <1>11 DEF Removed

\* deleteFile keeps the invariant.
LEMMA deleteFileKeeps ==
  ASSUME Inv, NEW n \in Names, deleteFile(n)
  PROVE  Inv'
<1>1. Waiting
  BY AtMenu DEF deleteFile
<1>2. PICK r : Removed(cwd, n, r)
  <2>1. n \in DOMAIN Ents(mem, content, cwd) /\ ~ mem.inode[Entries(cwd)[n]].dir
    BY <1>1, CurrentRead DEF deleteFile, IsFile, Named
  <2>2. FileRemoved(cwd, n)
    BY DEF deleteFile
  <2> QED  BY <1>1, <2>1, <2>2, FileRemovedResult DEF Waiting
<1>3. /\ Outcome(mem, content, r, content', GoneOf(calls), -1) /\ Dirs(r) = Dirs(mem)
      /\ SavedAs(r, -1)
  BY <1>2 DEF Removed
<1>4. Pending(r, content', cwd, calls) /\ calls \in Seq(Frames) /\ -1 \in Int
  BY <1>1, <1>3, NonePending DEF Waiting
<1>5. cwd' = cwd /\ calls' = calls
  BY DEF deleteFile
<1>6. PICK e : e = content'
  OBVIOUS
<1> QED
  BY <1>3, <1>4, <1>5, <1>6, CommandKept

\* Other blocks and another size of a file leave the names alone.
LEMMA FileLikeOutcome ==
  ASSUME NEW m \in Metadata, NEW c \in Contents, Shape(m, c), NEW G, DirLinks(m, G),
         NEW r, FileLike(m, r)
  PROVE  Outcome(m, c, r, c, G, 0) /\ Dirs(r) = Dirs(m)
<1>1. /\ r \in Metadata /\ Owned(r) /\ Measured(r) /\ TreeAlike(m, r)
      /\ r.files = m.files /\ Distance(r) = Distance(m)
  BY DEF FileLike
<1>2. TreeKept(m, r, c)
  BY <1>1, TreeAlikeKept
<1>3. /\ Rooted(r) /\ NamesLead(r, c) /\ DirsNamed(r, c) /\ FilesNamed(r, c)
      /\ Held(r, c) = Held(m, c) /\ DirLinks(r, G)
  BY <1>2 DEF TreeKept
<1>4. Cardinality(Held(r, c)) = Cardinality(Held(m, c)) + 0
  <2>1. Cardinality(Held(m, c)) \in Nat
    BY HeldFinite, FS_CardinalityType
  <2> QED  BY <1>3, <2>1
<1> QED
  BY <1>1, <1>3, <1>4 DEF Outcome, Shape, TreeAlike

\* A command that changes a file, and no names.
LEMMA FileCommandKept ==
  ASSUME Inv, Waiting, NEW r, FileLike(mem, r), NEW delta \in Int,
         Save(Grown(r, cwd, delta), delta, 0), UNCHANGED <<content, cwd, calls>>
  PROVE  Inv'
<1>1. /\ mem \in Metadata /\ content \in Contents /\ Shape(mem, content)
      /\ DirLinks(mem, GoneOf(calls)) /\ calls \in Seq(Frames) /\ cwd \in Dirs(mem)
      /\ calls = << >>
  BY DEF Inv, Typed, Kept, Waiting
<1>2. Outcome(mem, content, r, content, GoneOf(calls), 0) /\ Dirs(r) = Dirs(mem)
  BY <1>1, FileLikeOutcome
<1>3. SavedAs(r, 0)
  <2>1. cwd \in Dirs(r) /\ 0 \in Int
    BY <1>1, <1>2
  <2> QED  BY <1>2, <2>1, GrownSaved DEF Outcome
<1>4. Pending(r, content, cwd, calls) /\ 0 \in Int
  BY <1>1, <1>2, NonePending
<1>5. content' = content /\ cwd' = cwd /\ calls' = calls
  OBVIOUS
<1> QED
  BY <1>1, <1>2, <1>3, <1>4, <1>5, CommandKept

\* The inode of a file of the current directory.
LEMMA FileOfName ==
  ASSUME Waiting, NEW n, IsFile(n)
  PROVE  Entries(cwd)[n] \in mem.iused /\ Entries(cwd)[n] \notin Dirs(mem)
<1>1. n \in DOMAIN Ents(mem, content, cwd) /\ ~ mem.inode[Ents(mem, content, cwd)[n]].dir
  BY CurrentRead DEF IsFile, Named
<1>2. Ents(mem, content, cwd)[n] \in mem.iused \ {0}
  BY <1>1 DEF Waiting, Shape, NamesLead
<1>3. Entries(cwd)[n] = Ents(mem, content, cwd)[n]
  BY CurrentRead
<1> QED
  BY <1>1, <1>2, <1>3 DEF Dirs

\* addNBytes keeps the invariant.
LEMMA addNBytesKeeps ==
  ASSUME Usage \subseteq {"filelink"}, Inv, NEW n \in Names, NEW bytes \in Nat,
         addNBytes(n, bytes)
  PROVE  Inv'
<1>1. Waiting /\ IsFile(n)
  BY AtMenu DEF addNBytes, Resized
<1>2. PICK i : i = Entries(cwd)[n]
  OBVIOUS
<1>3. i \in mem.iused /\ i \notin Dirs(mem)
  BY <1>1, <1>2, FileOfName
<1>4. PICK file : file = mem.inode[i]
  OBVIOUS
<1>5. PICK count : count = BlocksBetween(file.size, file.size + bytes)
  OBVIOUS
<1>6. PICK new : new = FirstFree(Blocks \ mem.bused, count)
  OBVIOUS
<1>7. PICK r : r = Occupied(mem, i, [file EXCEPT !.size = @ + bytes, !.blocks = @ \o new])
  OBVIOUS
<1>8. /\ file.size + bytes <= MaxSize /\ Len(file.blocks) + count <= DirectBlocks
      /\ count <= Cardinality(Blocks \ mem.bused)
      /\ Save(Grown(r, cwd, bytes), bytes, 0)
      /\ UNCHANGED <<content, cwd, calls>>
  <2>1. /\ file.size + bytes <= IF file.dir THEN Word - 1 ELSE MaxSize
        /\ Len(file.blocks) + count <= DirectBlocks
        /\ count <= Cardinality(Blocks \ mem.bused)
        /\ Save(Grown(r, cwd, bytes), bytes, 0)
        /\ UNCHANGED <<content, cwd, calls>>
    BY <1>2, <1>4, <1>5, <1>6, <1>7 DEF addNBytes, Allocated, Occupied, FreeBlocks
  <2>2. ~ file.dir
    BY <1>3, <1>4 DEF Dirs
  <2> QED  BY <2>1, <2>2
<1>9. FileLike(mem, r)
  <2>1. /\ mem \in Metadata /\ Owned(mem) /\ Measured(mem) /\ 0 \in Dirs(mem)
    BY <1>1 DEF Waiting, Shape
  <2> QED  BY <1>3, <1>4, <1>5, <1>6, <1>7, <1>8, <2>1, FileGrown
<1> QED
  BY <1>1, <1>8, <1>9, FileCommandKept

\* takeAwayNBytes keeps the invariant.
LEMMA takeAwayNBytesKeeps ==
  ASSUME Usage \subseteq {"filelink"}, Inv, NEW n \in Names, NEW bytes \in Nat,
         takeAwayNBytes(n, bytes)
  PROVE  Inv'
<1>1. Waiting /\ IsFile(n)
  BY AtMenu DEF takeAwayNBytes, Resized
<1>2. PICK i : i = Entries(cwd)[n]
  OBVIOUS
<1>3. i \in mem.iused /\ i \notin Dirs(mem)
  BY <1>1, <1>2, FileOfName
<1>4. PICK file : file = mem.inode[i]
  OBVIOUS
<1>5. PICK count : count = BlocksBetween(file.size - bytes, file.size)
  OBVIOUS
<1>6. PICK r : r = [mem EXCEPT !.inode[i].size = @ - bytes,
                               !.inode[i].blocks = SubSeq(@, 1, Len(@) - count),
                               !.bused = @ \ Freed(file.blocks, count)]
  OBVIOUS
<1>7. /\ bytes <= file.size
      /\ Save(Grown(r, cwd, - bytes), - bytes, 0)
      /\ UNCHANGED <<content, cwd, calls>>
  BY <1>2, <1>4, <1>5, <1>6 DEF takeAwayNBytes
<1>8. FileLike(mem, r)
  <2>1. /\ mem \in Metadata /\ Owned(mem) /\ Measured(mem) /\ 0 \in Dirs(mem)
    BY <1>1 DEF Waiting, Shape
  <2> QED  BY <1>3, <1>4, <1>5, <1>6, <1>7, <2>1, FileShrunk
<1>9. - bytes \in Int
  OBVIOUS
<1> QED
  BY <1>1, <1>7, <1>8, <1>9, FileCommandKept

\* The shape and the names depend on the blocks of directories only.
LEMMA ContentAlike ==
  ASSUME NEW m \in Metadata, NEW c, Shape(m, c), NEW e,
         \A d \in Dirs(m) : Ents(m, e, d) = Ents(m, c, d)
  PROVE  Shape(m, e) /\ Held(m, e) = Held(m, c)
<1>1. /\ Owned(m) /\ Measured(m) /\ Rooted(m)
      /\ NamesLead(m, c) /\ DirsNamed(m, c) /\ FilesNamed(m, c)
  BY DEF Shape
<1>2. Held(m, e) = Held(m, c)
  BY DEF Held
<1>3. \A p \in Held(m, c) : p[1] \in Dirs(m)
  BY DEF Held
<1>4. \A i : HeldOf(m, e, i) = HeldOf(m, c, i)
  BY <1>2, <1>3 DEF HeldOf
<1>5. NamesLead(m, e)
  BY <1>1 DEF NamesLead
<1>6. DirsNamed(m, e)
  <2>1. \A d \in Dirs(m) : Parent(m, d) \in Dirs(m)
    BY <1>1 DEF Rooted
  <2> QED  BY <1>1, <1>4, <2>1 DEF DirsNamed
<1>7. FilesNamed(m, e)
  BY <1>1, <1>4 DEF FilesNamed
<1> QED
  BY <1>1, <1>2, <1>5, <1>6, <1>7 DEF Shape

\* The program ends and starts again, with what is in no directory changed.
LEMMA ReloadKeeps ==
  ASSUME Waiting, Reload, content' \in Contents,
         \A d \in Dirs(mem) : Ents(mem, content', d) = Ents(mem, content, d)
  PROVE  Inv'
<1>1. /\ mem' = mem /\ disk' = mem /\ cwd' = 0 /\ calls' = << >>
      /\ mem \in Metadata /\ 0 \in Dirs(mem) /\ 0 \in INodes
      /\ Shape(mem, content) /\ DirLinks(mem, {}) /\ Counted(mem, content)
      /\ Distance(mem) = MetaDataSize /\ << >> \in Seq(Frames) /\ GoneOf(<< >>) = {}
  BY DiskAssumption DEF Reload, Waiting, INodes
<1>2. PICK e : e = content'
  OBVIOUS
<1>3. Shape(mem, e) /\ Held(mem, e) = Held(mem, content)
  BY <1>1, <1>2, ContentAlike
<1>4. Counted(mem, e)
  BY <1>1, <1>3 DEF Counted
<1>5. Pending(mem, e, 0, << >>)
  BY <1>1, NonePending
<1>6. DirLinks(mem, GoneOf(<< >>))
  BY <1>1 DEF GoneOf
<1>7. Kept(mem, e, 0, << >>)
  BY <1>1, <1>3, <1>4, <1>5, <1>6 DEF Kept
<1>8. Typed'
  BY <1>1 DEF Typed
<1>9. Saved'
  BY <1>1 DEF Saved
<1> QED
  BY <1>1, <1>2, <1>7, <1>8, <1>9 DEF Inv

\* Without a change of the blocks.
LEMMA PlainReloadKeeps ==
  ASSUME Inv, Menu, Reload, content' = content
  PROVE  Inv'
<1>1. Waiting
  BY AtMenu
<1>2. content' \in Contents
  BY <1>1 DEF Waiting
<1> QED
  BY <1>1, <1>2, ReloadKeeps

\* When files are copied until the disk is full, free blocks are written.
LEMMA CopyFailsKeeps ==
  ASSUME Inv, NEW size \in 0..MaxSize, CopyFails(size)
  PROVE  Inv'
<1>1. Menu /\ Reload
  BY DEF CopyFails
<1>2. Waiting
  BY <1>1, AtMenu
<1>3. CASE content' = content
  BY <1>1, <1>3, PlainReloadKeeps
<1>4. ASSUME NEW written \in SUBSET FreeBlocks,
             content' = [b \in Blocks |-> IF b \in written THEN DATA ELSE content[b]]
      PROVE  Inv'
  <2>1. content' \in Contents
    BY <1>2, <1>4 DEF Waiting, Contents
  <2>2. ASSUME NEW d \in Dirs(mem)
        PROVE  Ents(mem, content', d) = Ents(mem, content, d)
    <3>1. Block(mem, d) \in Blocks /\ Block(mem, d) \in mem.bused
      BY <1>2, DirBlocks DEF Waiting, Shape
    <3>2. content'[Block(mem, d)] = content[Block(mem, d)]
      BY <1>4, <3>1 DEF FreeBlocks
    <3> QED  BY <3>2 DEF Ents
  <2> QED  BY <1>1, <1>2, <2>1, <2>2, ReloadKeeps
<1>5. PICK free : free = Cardinality(FreeBlocks)
  OBVIOUS
<1>6. PICK k : k = IF NewFileBlocks(size) > free THEN free ELSE NewFileBlocks(size)
  OBVIOUS
<1>7. Elements(FirstFree(FreeBlocks, k)) \subseteq FreeBlocks
  <2>1. FreeBlocks \in SUBSET Nat /\ IsFiniteSet(FreeBlocks)
    <3>1. Blocks \in SUBSET Nat /\ IsFiniteSet(Blocks)
      BY <1>2, HeldFinite DEF Blocks, Waiting
    <3> QED  BY <3>1, FS_Subset DEF FreeBlocks
  <2>2. free \in Nat /\ NewFileBlocks(size) \in Nat
    BY <1>5, <2>1, FS_CardinalityType, CopiedBlocks
  <2>3. k \in Nat /\ k <= Cardinality(FreeBlocks)
    BY <1>5, <1>6, <2>2
  <2>4. FirstFree(FreeBlocks, k) \in Seq(FreeBlocks)
    BY <2>1, <2>3, FirstFreeResult
  <2> HIDE DEF FirstFree
  <2> QED  BY <2>4 DEF Elements
<1> QED
  BY <1>3, <1>4, <1>5, <1>6, <1>7 DEF CopyFails

\* The user goes to another directory.
LEMMA MoveKeeps ==
  ASSUME Waiting, cwd' \in Dirs(mem), UNCHANGED <<mem, disk, content, calls>>
  PROVE  Inv'
<1>1. /\ mem' = mem /\ disk' = mem /\ content' = content /\ calls' = << >>
      /\ mem \in Metadata /\ content \in Contents /\ cwd' \in INodes
      /\ Shape(mem, content) /\ DirLinks(mem, {}) /\ Counted(mem, content)
      /\ Distance(mem) = MetaDataSize /\ << >> \in Seq(Frames)
  BY DEF Waiting
<1>2. PICK w : w = cwd'
  OBVIOUS
<1>3. Pending(mem, content, w, << >>)
  BY <1>2, NonePending
<1>4. DirLinks(mem, GoneOf(<< >>))
  <2>1. GoneOf(<< >>) = {}
    BY DEF GoneOf
  <2> QED  BY ONLY <1>1, <2>1, ZenonT(20)
<1>5. Kept(mem, content, w, << >>)
  BY <1>1, <1>3, <1>4 DEF Kept
<1>6. Typed'
  BY <1>1 DEF Typed
<1>7. Saved'
  BY <1>1 DEF Saved
<1> QED
  BY <1>1, <1>2, <1>5, <1>6, <1>7 DEF Inv

\* What a name that is not a file's leads to is a directory.
LEMMA DirectoryOfName ==
  ASSUME Waiting, NEW n, Named(n), ~ IsFile(n)
  PROVE  /\ Entries(cwd)[n] \in Dirs(mem) \ {0} /\ n \in DOMAIN Ents(mem, content, cwd)
         /\ Entries(cwd)[n] = Ents(mem, content, cwd)[n]
<1>1. n \in DOMAIN Ents(mem, content, cwd) /\ mem.inode[Ents(mem, content, cwd)[n]].dir
  BY CurrentRead DEF IsFile, Named
<1>2. Ents(mem, content, cwd)[n] \in mem.iused \ {0}
  BY <1>1 DEF Waiting, Shape, NamesLead
<1>3. Entries(cwd)[n] = Ents(mem, content, cwd)[n]
  BY CurrentRead
<1> QED
  BY <1>1, <1>2, <1>3 DEF Dirs

\* changeDirectory and changeToParentDirectory keep the invariant.
LEMMA ChangeKeeps ==
  ASSUME Usage \subseteq {"filelink"}, Inv,
         NEW n, changeDirectory(n) \/ changeToParentDirectory
  PROVE  Inv'
<1>1. Waiting /\ UNCHANGED <<mem, disk, content, calls>>
  BY AtMenu DEF changeDirectory, changeToParentDirectory
<1>2. CASE changeDirectory(n)
  <2>1. cwd' \in Dirs(mem)
    <3>1. CASE Named(n)
      <4>1. Entries(cwd)[n] \in Dirs(mem)
        BY <1>1, <1>2, <3>1, DirectoryOfName DEF changeDirectory
      <4> QED  BY <1>2, <3>1, <4>1 DEF changeDirectory
    <3>2. CASE ~ Named(n)
      BY <1>1, <1>2, <3>2 DEF changeDirectory, Waiting
    <3> QED  BY <3>1, <3>2
  <2> QED  BY <1>1, <2>1, MoveKeeps
<1>3. CASE changeToParentDirectory
  <2>1. cwd' \in Dirs(mem)
    BY <1>1, <1>3 DEF changeToParentDirectory, Waiting, Shape, Rooted, Parent
  <2> QED  BY <1>1, <2>1, MoveKeeps
<1> QED
  BY <1>2, <1>3

\* The call of deleteDirectoryRecursively keeps the invariant.
LEMMA CallKeeps ==
  ASSUME Inv, NEW base, base = CallBase(cwd, calls), NEW n,
         n \in DOMAIN Ents(mem, content, base), calls # << >> => n \in calls[1].todo,
         base \in Dirs(mem), Entries(base)[n] \in Dirs(mem) \ {0},
         NEW callers, ChildTaken(calls, n, callers),
         Call(base, n, callers), UNCHANGED <<disk, content, cwd>>
  PROVE  Inv'
<1>1. /\ mem \in Metadata /\ content \in Contents /\ calls \in Seq(Frames)
      /\ disk \in Metadata /\ cwd \in INodes
      /\ Kept(mem, content, cwd, calls)
  BY DEF Inv, Typed
<1>2. PICK i : i = Ents(mem, content, base)[n]
  OBVIOUS
<1>3. /\ i = Entries(base)[n] /\ i \in Dirs(mem) \ {0}
      /\ Entries(base) = Ents(mem, content, base) /\ Entries(i) = Ents(mem, content, i)
  BY <1>1, <1>2, DirectoryRead DEF Kept
<1>4. PICK r : r = [mem EXCEPT !.inode[i].links = @ - 1]
  OBVIOUS
<1>5. PICK f : f = [base |-> base, name |-> n, entries |-> Ents(mem, content, base),
                    todo |-> IF mem.inode[i].links = 1 THEN DOMAIN Ents(mem, content, i)
                             ELSE {}]
  OBVIOUS
<1>6. PICK p : p = <<f>> \o callers
  OBVIOUS
<1>7. mem' = r /\ calls' = p
  BY <1>3, <1>4, <1>5, <1>6 DEF Call
<1>8. r \in Metadata /\ p \in Seq(Frames) /\ Kept(r, content, cwd, p)
  <2>1. Fine(r, content, cwd, p)
    BY <1>1, <1>2, <1>3, <1>4, <1>5, <1>6, CallStarted, ZenonT(40)
  <2> QED  BY <2>1 DEF Fine
<1>9. p # << >>
  BY <1>6, <1>8 DEF ChildTaken
<1>10. disk' = disk /\ content' = content /\ cwd' = cwd
  OBVIOUS
<1>11. Typed'
  BY <1>1, <1>7, <1>8, <1>10 DEF Typed
<1>12. Saved'
  BY <1>7, <1>9 DEF Saved, Menu
<1> QED
  BY <1>7, <1>8, <1>10, <1>11, <1>12 DEF Inv

\* DeleteDirectory keeps the invariant.
LEMMA DeleteDirectoryKeeps ==
  ASSUME Inv, NEW n \in Names, DeleteDirectory(n)
  PROVE  Inv'
<1>1. Waiting /\ Named(n) /\ ~ IsFile(n) /\ Call(cwd, n, << >>)
      /\ UNCHANGED <<disk, content, cwd>>
  BY AtMenu DEF DeleteDirectory
<1>2. calls = << >> /\ CallBase(cwd, calls) = cwd /\ cwd \in Dirs(mem)
  BY <1>1 DEF Waiting, CallBase
<1>3. Entries(cwd)[n] \in Dirs(mem) \ {0} /\ n \in DOMAIN Ents(mem, content, cwd)
  BY <1>1, DirectoryOfName
<1>4. ChildTaken(calls, n, << >>)
  BY <1>2 DEF ChildTaken
<1> QED
  BY <1>1, <1>2, <1>3, <1>4, CallKeeps

\* DeleteChild keeps the invariant.
LEMMA DeleteChildKeeps ==
  ASSUME Inv, NEW n \in Names, DeleteChild(n)
  PROVE  Inv'
<1>1. /\ mem \in Metadata /\ content \in Contents /\ calls \in Seq(Frames)
      /\ Shape(mem, content) /\ Pending(mem, content, cwd, calls)
  BY DEF Inv, Typed, Kept
<1>2. calls # << >> /\ n \in calls[1].todo
  BY DEF DeleteChild, Menu, Top
<1>3. 1 \in 1..Len(calls)
  BY <1>1, <1>2
<1>4. PendingCall(mem, content, cwd, calls, 1)
  BY <1>1, <1>3, PendingCalls
<1>5. PICK d : d = DirOf(calls[1])
  OBVIOUS
<1>6. d = Deleted /\ d = CallBase(cwd, calls)
  BY <1>2, <1>5 DEF Deleted, Top, DirOf, CallBase
<1>7. d \in Dirs(mem) \ {0} /\ n \in DOMAIN Ents(mem, content, d)
  <2>1. DOMAIN Ents(mem, content, DirOf(calls[1])) = calls[1].todo
    BY <1>4 DEF PendingCall
  <2> QED  BY <1>2, <1>4, <1>5, <2>1 DEF PendingCall
<1>8. PICK p : p = [calls EXCEPT ![1].todo = @ \ {n}]
  OBVIOUS
<1>9. ChildTaken(calls, n, p)
  <2>1. p = IF calls = << >> THEN << >> ELSE [calls EXCEPT ![1].todo = @ \ {n}]
    BY <1>2, <1>8
  <2> QED  BY <1>1, <2>1, CallersChanged
<1>10. Entries(d)[n] = Ents(mem, content, d)[n]
  BY <1>1, <1>7, DirectoryRead
<1>11. Ents(mem, content, d)[n] \in mem.iused \ {0}
  BY <1>1, <1>7 DEF Shape, NamesLead
<1>12. CASE mem.inode[Entries(d)[n]].dir
  <2>2. Entries(d)[n] \in Dirs(mem) \ {0}
    BY <1>10, <1>11, <1>12 DEF Dirs
  <2>3. ~ Unreadable(Entries(d)[n])
    BY <1>1, <2>2, DirectoryRead DEF Unreadable
  <2>1. Call(d, n, p) /\ UNCHANGED <<disk, content, cwd>>
    BY <1>6, <1>8, <1>12, <2>3 DEF DeleteChild
  <2> QED  BY <1>2, <1>6, <1>7, <1>9, <2>1, <2>2, CallKeeps
<1>13. CASE ~ mem.inode[Entries(d)[n]].dir
  <2>1. FileRemoved(d, n) /\ calls' = p /\ cwd' = cwd
    BY <1>6, <1>8, <1>13 DEF DeleteChild
  <2>2. PICK r : Removed(d, n, r)
    BY <1>7, <1>13, <2>1, FileRemovedResult
  <2>3. PICK e : e = content'
    OBVIOUS
  <2>4. /\ Outcome(mem, content, r, e, GoneOf(calls), -1) /\ Dirs(r) = Dirs(mem)
        /\ NameGone(mem, content, r, e, d, n) /\ SavedAs(r, -1)
    BY <2>2, <2>3 DEF Removed
  <2>5. Pending(r, e, cwd, p) /\ GoneOf(p) = GoneOf(calls)
    BY <1>1, <1>2, <1>5, <1>9, <2>4, ChildFileTaken
  <2>6. Outcome(mem, content, r, e, GoneOf(p), -1)
    BY ONLY <2>4, <2>5, ZenonT(20)
  <2>7. p \in Seq(Frames) /\ -1 \in Int
    BY <1>9 DEF ChildTaken
  <2> QED  BY <1>2, <2>1, <2>3, <2>4, <2>5, <2>6, <2>7, CommandKept
<1> QED
  BY <1>12, <1>13

\* Return keeps the invariant.
LEMMA ReturnKeeps ==
  ASSUME Inv, Return
  PROVE  Inv'
<1>1. /\ mem \in Metadata /\ content \in Contents /\ calls \in Seq(Frames)
      /\ Shape(mem, content) /\ DirLinks(mem, GoneOf(calls))
      /\ Pending(mem, content, cwd, calls) /\ mem.iused \subseteq INodes
  BY DEF Inv, Typed, Kept, Metadata
<1>2. calls # << >> /\ calls[1].todo = {} /\ cwd' = cwd /\ calls' = Tail(calls)
  BY DEF Return, Menu, Top
<1>3. 1 \in 1..Len(calls) /\ 1 \in 1..1
  BY <1>1, <1>2
<1>4. PICK d : d = DirOf(calls[1])
  OBVIOUS
<1>5. PICK base : base = calls[1].base
  OBVIOUS
<1>6. PICK n : n = calls[1].name
  OBVIOUS
<1>7. /\ base \in Dirs(mem) /\ calls[1].entries = Ents(mem, content, base)
      /\ n \in DOMAIN Ents(mem, content, base) /\ d = Ents(mem, content, base)[n]
      /\ d \in Dirs(mem) \ {0} /\ DOMAIN Ents(mem, content, d) = {}
  <2>1. PendingCall(mem, content, cwd, calls, 1)
    BY <1>1, <1>3, PendingCalls
  <2>2. DOMAIN Ents(mem, content, DirOf(calls[1])) = {}
    BY <1>2, <2>1 DEF PendingCall
  <2> QED  BY <1>4, <1>5, <1>6, <2>1, <2>2 DEF PendingCall
<1>8. base # d
  BY <1>1, <1>3, <1>4, <1>5, BaseNotLater
<1>9. mem.inode[d].links = 0
  BY <1>1, <1>3, <1>4, <1>7 DEF DirLinks, Links, GoneOf
<1>10. PICK r : r = [mem EXCEPT !.iused = @ \ {d}, !.bused = @ \ {Block(mem, d)}]
  OBVIOUS
<1>11. PICK e : e = [content EXCEPT ![Block(mem, base)] = Erased(Ents(mem, content, base), n)]
  OBVIOUS
<1>12. PICK delta : delta = - mem.inode[d].size
  OBVIOUS
<1>13. Save(Grown(r, base, delta), delta, -1) /\ content' = e
  <2>1. Deleted = d /\ Top.base = base /\ Top.name = n
        /\ Top.entries = Ents(mem, content, base)
    BY <1>4, <1>5, <1>6, <1>7 DEF Deleted, Top, DirOf
  <2>2. BlockOf(d) = Block(mem, d) /\ BlockOf(base) = Block(mem, base)
    BY <1>1, <1>7, DirectoryRead
  <2>3. Written(BlockOf(base), Erased(Ents(mem, content, base), n)) = e
    BY <1>1, <1>7, <1>11, <2>2, DirectoryRead, ErasedWritten
  <2> QED  BY <1>9, <1>10, <1>11, <1>12, <2>1, <2>2, <2>3 DEF Return
<1>14. delta \in Int
  <2>1. mem.inode[d].size \in Int
    BY <1>1, <1>7 DEF Metadata, INodeRecords, Dirs
  <2> QED  BY <1>12, <2>1
<1>15. PICK p : p = Tail(calls)
  OBVIOUS
<1>16. \A j \in Dirs(mem) \ {d} : j \in GoneOf(calls) <=> j \in GoneOf(p)
  <2>1. \A j : j \in GoneOf(calls) <=> j = d \/ j \in GoneOf(p)
    BY <1>1, <1>3, <1>4, <1>15, GoneOfTail
  <2> QED  BY <2>1
<1>17. DirectoryGone(mem, content, r, e, GoneOf(p), base, n, d)
  BY <1>1, <1>7, <1>8, <1>10, <1>11, <1>16, DirectoryTaken
<1>18. /\ Outcome(mem, content, r, e, GoneOf(p), -1) /\ Dirs(r) = Dirs(mem) \ {d}
       /\ NameGone(mem, content, r, e, base, n)
  BY <1>17 DEF DirectoryGone
<1>19. p \in Seq(Frames) /\ Pending(r, e, cwd, p)
  BY <1>1, <1>2, <1>4, <1>5, <1>6, <1>15, <1>18, CallReturned
<1>20. SavedAs(r, -1)
  <2>1. base \in Dirs(r) /\ -1 \in Int
    BY <1>7, <1>8, <1>18
  <2> QED  BY <1>13, <1>14, <1>18, <2>1, GrownSaved DEF Outcome
<1>21. -1 \in Int /\ calls' = p
  BY <1>2, <1>15
<1> QED
  BY <1>2, <1>13, <1>18, <1>19, <1>20, <1>21, CommandKept

-----------------------------------------------------------------------------
(* The theorems *)

\* The constructor's disk has the invariant.
LEMMA InitInv ==
  ASSUME Init
  PROVE  Inv
<1> USE DEF Init
<1>1. /\ 0 \in INodes /\ 0 \in Blocks /\ Word \in Nat
      /\ MetaDataSize \in Nat /\ DataBlockSize \in Nat /\ DataBlockSize > 0
      /\ MetaDataSize + DataBlockSize < Word /\ 1 <= DirectBlocks
  <2>1. (LastBlock + 1) * DataBlockSize >= DataBlockSize
    BY DiskAssumption
  <2> QED  BY <2>1, DiskAssumption, SMTT(30) DEF INodes, Blocks
<1>2. DirectoryINode(0, 0) \in INodeRecords /\ UnusedINode \in INodeRecords
  BY <1>1 DEF DirectoryINode, UnusedINode, INodeRecords
<1>3. /\ mem \in Metadata /\ disk = mem
      /\ mem.files = 1 /\ mem.used = MetaDataSize + DataBlockSize
      /\ mem.iused = {0} /\ mem.bused = {0}
      /\ mem.inode[0] = DirectoryINode(0, 0)
      /\ \A i \in INodes \ {0} : mem.inode[i] = UnusedINode
  <2>1. 1 \in 0..(Word - 1) /\ MetaDataSize + DataBlockSize \in 0..(Word - 1)
    BY <1>1
  <2> QED  BY <1>1, <1>2, <2>1 DEF Metadata
<1>4. NoEntries \in EntryMaps /\ DOMAIN NoEntries = {}
  BY NoEntriesTyped DEF NoEntries
<1>5. content \in Contents /\ \A b \in Blocks : content[b] = NoEntries
  BY <1>4 DEF Contents
<1>6. Typed
  BY <1>1, <1>3, <1>5 DEF Typed
<1>7. /\ mem.inode[0].dir /\ mem.inode[0].blocks = <<0>>
      /\ mem.inode[0].size = DataBlockSize /\ mem.inode[0].links = 1
      /\ mem.inode[0].parent = 0
  BY <1>3 DEF DirectoryINode
<1>8. Dirs(mem) = {0}
  BY <1>3, <1>7 DEF Dirs
<1>9. Owned(mem)
  <2>1. BlocksOf(mem, 0) = <<0>>
    BY <1>7 DEF BlocksOf
  <2>2. Elements(<<0>>) = {0} /\ Distinct(<<0>>)
    BY DEF Elements, Distinct
  <2>3. UNION {Elements(BlocksOf(mem, i)) : i \in {0}} = {0}
    BY <2>1, <2>2
  <2> QED  BY <1>3, <2>1, <2>2, <2>3 DEF Owned
<1>10. Measured(mem)
  <2>1. \A i \in INodes : Len(BlocksOf(mem, i)) <= DirectBlocks
    <3> SUFFICES ASSUME NEW i \in INodes
                 PROVE  Len(BlocksOf(mem, i)) <= DirectBlocks
      OBVIOUS
    <3>1. CASE i = 0
      BY <1>1, <1>7, <3>1 DEF BlocksOf
    <3>2. CASE i # 0
      <4>1. BlocksOf(mem, i) = << >>
        BY <1>3, <3>2 DEF BlocksOf, UnusedINode
      <4> QED  BY <1>1, <4>1, DiskAssumption
    <3> QED  BY <3>1, <3>2
  <2>2. \A i \in Dirs(mem) : Len(BlocksOf(mem, i)) = 1
    <3>1. BlocksOf(mem, 0) = <<0>>
      BY <1>7 DEF BlocksOf
    <3>2. Len(<<0>>) = 1
      OBVIOUS
    <3> QED  BY ONLY <1>8, <3>1, <3>2
  <2>3. mem.iused \ Dirs(mem) = {}
    BY <1>3, <1>8
  <2> QED  BY ONLY <2>1, <2>2, <2>3 DEF Measured
<1>11. Rooted(mem)
  BY <1>7, <1>8 DEF Rooted, Acyclic, Parent
<1>12. Ents(mem, content, 0) = NoEntries
  BY <1>1, <1>5, <1>7 DEF Ents, Block
<1>13. Held(mem, content) = {}
  BY <1>4, <1>8, <1>12 DEF Held
<1>14. NamesLead(mem, content) /\ DirsNamed(mem, content) /\ FilesNamed(mem, content)
  BY <1>3, <1>4, <1>8, <1>12 DEF NamesLead, DirsNamed, FilesNamed
<1>15. Counted(mem, content)
  <2>1. Cardinality(Held(mem, content)) = 0
    BY <1>13, FS_EmptySet
  <2>2. 1 % Word = 1
    <3>1. Word > 1
      BY <1>1
    <3> QED  BY <1>1, <3>1
  <2> QED  BY <1>3, <2>1, <2>2 DEF Counted
<1>16. Distance(mem) = MetaDataSize
  <2>1. MetaDataSize + DataBlockSize - DataBlockSize = MetaDataSize
    BY <1>1
  <2>2. MetaDataSize % Word = MetaDataSize
    BY <1>1
  <2>3. mem.used - mem.inode[0].size = MetaDataSize
    <3>1. mem.used = MetaDataSize + DataBlockSize /\ mem.inode[0].size = DataBlockSize
      BY <1>3, <1>7
    <3>2. \A u, s : u = MetaDataSize + DataBlockSize /\ s = DataBlockSize
                     => u - s = MetaDataSize
      BY <1>1
    <3> QED  BY ONLY <3>1, <3>2, ZenonT(20)
  <2> QED  BY ONLY <2>2, <2>3 DEF Distance
<1>17. GoneOf(calls) = {}
  BY DEF GoneOf
<1>18. DirLinks(mem, GoneOf(calls))
  BY <1>7, <1>8, <1>17 DEF DirLinks, Links
<1>19. Pending(mem, content, cwd, calls)
  BY <1>8, NonePending
<1> QED
  BY <1>3, <1>6, <1>9, <1>10, <1>11, <1>14, <1>15, <1>16, <1>18, <1>19
  DEF Inv, Kept, Shape, Saved

\* Every step keeps it, when users do nothing but set hard links to files
\* besides the plain commands.
LEMMA NextInv ==
  ASSUME Usage \subseteq {"filelink"}, Inv, [Next]_vars
  PROVE  Inv'
<1>1. CASE UNCHANGED vars
  <2>1. mem' = mem /\ disk' = disk /\ content' = content /\ cwd' = cwd /\ calls' = calls
    BY <1>1 DEF vars
  <2>2. Typed' /\ Saved'
    BY <2>1 DEF Inv, Typed, Saved, Menu
  <2> QED  BY <2>1, <2>2 DEF Inv
<1>2. ASSUME NEW n \in Names, createDirectory(n)
      PROVE  Inv'
  BY <1>2, createDirectoryKeeps
<1>3. ASSUME NEW n \in Names, DeleteDirectory(n)
      PROVE  Inv'
  BY <1>3, DeleteDirectoryKeeps
<1>4. ASSUME NEW n \in Names, deleteFile(n)
      PROVE  Inv'
  BY <1>4, deleteFileKeeps
<1>5. ASSUME NEW n \in Names, changeDirectory(n)
      PROVE  Inv'
  BY <1>5, ChangeKeeps
<1>6. ASSUME NEW n \in Names, DeleteChild(n)
      PROVE  Inv'
  BY <1>6, DeleteChildKeeps
<1>7. ASSUME NEW n \in Names, NEW i \in INodes, createHardLink(i, n)
      PROVE  Inv'
  BY <1>7, createHardLinkKeeps
<1>8. ASSUME NEW n \in Names, NEW size \in 0..MaxSize, copyFileFromSystemDisk(n, size)
      PROVE  Inv'
  BY <1>8, copyFileKeeps
<1>9. ASSUME NEW n \in Names, NEW bytes \in 1..MaxSize, addNBytes(n, bytes)
      PROVE  Inv'
  BY <1>9, addNBytesKeeps
<1>10. ASSUME NEW n \in Names, NEW bytes \in 1..MaxSize, takeAwayNBytes(n, bytes)
       PROVE  Inv'
  BY <1>10, takeAwayNBytesKeeps
<1>11. ASSUME NEW n \in Names, NEW bytes \in 1..MaxSize, AddFails(n, bytes)
       PROVE  Inv'
  BY <1>11, PlainReloadKeeps DEF AddFails
<1>12. ASSUME NEW size \in 0..MaxSize, CopyFails(size)
       PROVE  Inv'
  BY <1>12, CopyFailsKeeps
<1>13. CASE CreateDirectoryFails
  BY <1>13, PlainReloadKeeps DEF CreateDirectoryFails
<1>14. CASE changeToParentDirectory
  BY <1>14, ChangeKeeps
<1>15. CASE Return
  BY <1>15, ReturnKeeps
<1>16. CASE Exit
  BY <1>16, PlainReloadKeeps DEF Exit
<1> QED
  BY <1>1, <1>2, <1>3, <1>4, <1>5, <1>6, <1>7, <1>8, <1>9, <1>10, <1>11, <1>12, <1>13,
     <1>14, <1>15, <1>16 DEF Next

\* The inductive invariant holds all the time, whatever commands are given
\* in the usage that the theorem assumes.
THEOREM Invariance ==
  ASSUME Usage \subseteq {"filelink"}
  PROVE  Spec => []Inv
<1>1. Init => Inv
  BY InitInv
<1>2. Inv /\ [Next]_vars => Inv'
  BY NextInv
<1> QED
  BY <1>1, <1>2, PTL DEF Spec

\* The operators of the properties are those of the invariant.
LEMMA SameNames ==
  ASSUME mem \in Metadata, Shape(mem, content)
  PROVE  /\ Directories = Dirs(mem) /\ AllNames = Held(mem, content)
         /\ \A i : NamesOf(i) = HeldOf(mem, content, i)
<1>1. Directories = Dirs(mem)
  BY DEF Directories, Dirs
<1>2. \A d \in Dirs(mem) : Readable(d) /\ Entries(d) = Ents(mem, content, d)
  BY DirectoryRead
<1>6. \A d \in Dirs(mem) : Entries(d) \in EntryMaps /\ DOMAIN Entries(d) \subseteq Names
  BY DirectoryRead, EntriesTyped
<1>3. AllNames = Held(mem, content)
  <2>1. \A d \in Dirs(mem) : \A n : n \in DOMAIN Entries(d) => n \in Names
    BY <1>6
  <2>2. ASSUME NEW e \in AllNames
        PROVE  e \in Held(mem, content)
    <3>1. PICK d \in Dirs(mem) : e \in {d} \X DOMAIN Entries(d)
      BY <1>1 DEF AllNames
    <3>2. e = <<d, e[2]>> /\ e[2] \in DOMAIN Ents(mem, content, d) /\ e[2] \in Names
      BY <1>2, <2>1, <3>1
    <3> QED  BY <3>1, <3>2 DEF Held
  <2>3. ASSUME NEW e \in Held(mem, content)
        PROVE  e \in AllNames
    <3>1. PICK d \in Dirs(mem), n \in Names : e = <<d, n>> /\ n \in DOMAIN Ents(mem, content, d)
      BY DEF Held
    <3>2. d \in Directories /\ Readable(d) /\ n \in DOMAIN Entries(d)
      BY <1>1, <1>2, <3>1
    <3>3. e \in {d} \X DOMAIN Entries(d)
      BY <3>1, <3>2
    <3> QED  BY <3>2, <3>3 DEF AllNames
  <2> QED  BY <2>2, <2>3
<1>4. \A e \in Held(mem, content) : e[1] \in Dirs(mem)
  BY DEF Held
<1>5. \A i : NamesOf(i) = HeldOf(mem, content, i)
  BY <1>2, <1>3, <1>4 DEF NamesOf, HeldOf
<1> QED
  BY <1>1, <1>3, <1>5

\* In that usage the superblock, the inodes and the bitmaps keep their types,
\* and nothing that is read as a directory has been written as a part of a
\* file.
THEOREM TypesKept ==
  ASSUME Usage \subseteq {"filelink"}
  PROVE  Spec => []TypeOK
<1>1. Inv => TypeOK
  <2> SUFFICES ASSUME Inv
               PROVE  TypeOK
    OBVIOUS
  <2>1. /\ mem \in Metadata /\ cwd \in INodes /\ Shape(mem, content) /\ Measured(mem)
        /\ Rooted(mem)
    BY DEF Inv, Typed, Kept, Shape
  <2>2. /\ mem.files \in 0..(Word - 1) /\ mem.used \in 0..(Word - 1)
        /\ mem.iused \subseteq INodes /\ mem.bused \subseteq Blocks
        /\ \A i \in INodes : mem.inode[i] \in INodeRecords
    BY <2>1 DEF Metadata
  <2>3. 0 \in mem.iused
    BY <2>1 DEF Rooted, Dirs
  <2>4. \A i \in INodes : /\ mem.inode[i].size \in 0..(Word - 1)
                          /\ mem.inode[i].links \in Nat
                          /\ mem.inode[i].parent \in INodes
                          /\ Len(mem.inode[i].blocks) <= DirectBlocks
    BY <2>1, <2>2 DEF INodeRecords, Measured, BlocksOf
  <2>5. \A i \in Directories : Entries(i) # DATA
    BY <2>1, SameNames, DirectoryRead DEF Readable
  <2> QED  BY <2>1, <2>2, <2>3, <2>4, <2>5 DEF TypeOK
<1> QED
  BY <1>1, Invariance, PTL

\* As many different blocks as there are in a sequence without repetition.
LEMMA DistinctCounted ==
  ASSUME NEW S, NEW f \in Seq(S), Distinct(f)
  PROVE  Cardinality(Elements(f)) = Len(f)
<1>1. PICK l \in Nat : l = Len(f)
  OBVIOUS
<1>2. DOMAIN f = 1..l
  BY <1>1
<1>3. \A j, k \in 1..l : f[j] = f[k] => j = k
  BY <1>1 DEF Distinct
<1> DEFINE g == [j \in 1..l |-> f[j]]
<1>4. g \in Bijection(1..l, Elements(f))
  <2>1. g \in [1..l -> Elements(f)]
    BY <1>2 DEF Elements
  <2>2. \A x \in Elements(f) : \E j \in 1..l : g[j] = x
    BY <1>2 DEF Elements
  <2>3. \A j, k \in 1..l : g[j] = g[k] => j = k
    BY <1>3
  <2> HIDE DEF g
  <2> QED  BY <2>1, <2>2, <2>3 DEF Bijection, Injection, Surjection, IsInjective
<1>5. ExistsBijection(1..l, Elements(f))
  BY <1>4 DEF ExistsBijection
<1>6. IsFiniteSet(1..l) /\ Cardinality(1..l) = l
  BY FS_Interval
<1>7. Cardinality(Elements(f)) = Cardinality(1..l)
  BY <1>5, <1>6, FS_Bijection
<1> QED
  BY <1>1, <1>6, <1>7

\* No block belongs to two inodes or is marked wrongly, in whatever order
\* files and directories are created and deleted, and files linked, grown and
\* shrunk, as long as directories fit their blocks.
THEOREM BlocksKept ==
  ASSUME Usage \subseteq {"filelink"}
  PROVE  Spec => []BlocksExact
<1>1. Inv => BlocksExact
  <2> SUFFICES ASSUME Inv
               PROVE  BlocksExact
    OBVIOUS
  <2>1. mem \in Metadata /\ Shape(mem, content) /\ Owned(mem) /\ Measured(mem)
    BY DEF Inv, Typed, Kept, Shape
  <2>2. mem.bused = UNION {Elements(mem.inode[i].blocks) : i \in mem.iused}
    BY <2>1 DEF Owned, BlocksOf
  <2>3. \A i \in mem.iused :
          Cardinality(Elements(mem.inode[i].blocks)) = Len(mem.inode[i].blocks)
    <3> SUFFICES ASSUME NEW i \in mem.iused
                 PROVE  Cardinality(Elements(mem.inode[i].blocks)) = Len(mem.inode[i].blocks)
      OBVIOUS
    <3>1. Distinct(mem.inode[i].blocks)
      BY <2>1 DEF Owned, BlocksOf
    <3>2. mem.inode[i].blocks \in Seq(Blocks)
      BY <2>1 DEF Metadata, INodeRecords
    <3> QED  BY <3>1, <3>2, DistinctCounted
  <2>4. \A i \in mem.iused : \A j \in mem.iused \ {i} :
          Elements(mem.inode[i].blocks) \cap Elements(mem.inode[j].blocks) = {}
    BY <2>1 DEF Owned, BlocksOf
  <2>5. \A i \in Files :
          Len(mem.inode[i].blocks) - (mem.inode[i].size \div DataBlockSize) \in {0, 1}
    BY <2>1, SameNames DEF Measured, BlocksOf, Files
  <2> QED  BY <2>2, <2>3, <2>4, <2>5 DEF BlocksExact
<1> QED
  BY <1>1, Invariance, PTL

\* Links are counted exactly, the superblock counts the names, and what is in
\* use is what can be reached: deleting a directory leaks no inode.  Commands
\* 8 and 9 are given files, and new names are new.
THEOREM NamesKept ==
  ASSUME Usage \subseteq {"filelink"}
  PROVE  Spec => []NamesCounted
<1>1. Inv => NamesCounted
  <2> SUFFICES ASSUME Inv, Menu
               PROVE  /\ Reachable = mem.iused
                      /\ \A i \in mem.iused \ {0} :
                           /\ mem.inode[i].links = Cardinality(NamesOf(i))
                           /\ mem.inode[i].links > 0
                      /\ mem.files = (Cardinality(AllNames) + 1) % Word
    BY DEF NamesCounted
  <2>1. /\ mem \in Metadata /\ Shape(mem, content) /\ DirLinks(mem, {})
        /\ Counted(mem, content)
    BY AtMenu DEF Waiting
  <2>2. Reachable = mem.iused
    BY <2>1, ReachedAreUsed
  <2>3. mem.files = (Cardinality(AllNames) + 1) % Word
    BY <2>1, SameNames DEF Counted
  <2>4. ASSUME NEW i \in mem.iused \ {0}
        PROVE  mem.inode[i].links = Cardinality(NamesOf(i)) /\ mem.inode[i].links > 0
    <3>1. CASE i \in Dirs(mem)
      <4>1. PICK n : HeldOf(mem, content, i) = {<<Parent(mem, i), n>>}
        BY <2>1, <3>1 DEF Shape, DirsNamed
      <4>2. Cardinality(HeldOf(mem, content, i)) = 1
        BY <4>1, FS_Singleton
      <4>3. mem.inode[i].links = 1
        BY <2>1, <3>1 DEF DirLinks, Links
      <4> QED  BY <2>1, <4>2, <4>3, SameNames
    <3>2. CASE i \notin Dirs(mem)
      <4>1. Links(mem, i) = Cardinality(HeldOf(mem, content, i)) /\ Links(mem, i) > 0
        BY <2>1, <3>2 DEF Shape, FilesNamed
      <4> QED  BY <2>1, <4>1, SameNames DEF Links
    <3> QED  BY <3>1, <3>2
  <2> QED  BY <2>2, <2>3, <2>4
<1> QED
  BY <1>1, Invariance, PTL

\* Every directory is named in its parent, and the current one is in use, as
\* long as commands 8 and 9 are given files and command 11 directories.
THEOREM ParentsKept ==
  ASSUME Usage \subseteq {"filelink"}
  PROVE  Spec => []ParentsHold
<1>1. Inv => ParentsHold
  <2> SUFFICES ASSUME Inv, Menu
               PROVE  /\ cwd \in Directories
                      /\ \A i \in Directories \ {0} :
                           \E e \in NamesOf(i) : e[1] = mem.inode[i].parent
    BY DEF ParentsHold
  <2>1. /\ mem \in Metadata /\ Shape(mem, content)
        /\ cwd \in Dirs(mem) /\ DirsNamed(mem, content)
    BY AtMenu DEF Waiting, Shape
  <2>2. ASSUME NEW i \in Dirs(mem) \ {0}
        PROVE  \E e \in HeldOf(mem, content, i) : e[1] = mem.inode[i].parent
    <3>1. PICK n : HeldOf(mem, content, i) = {<<Parent(mem, i), n>>}
      BY <2>1 DEF DirsNamed
    <3>2. <<Parent(mem, i), n>>[1] = mem.inode[i].parent
      BY DEF Parent
    <3> QED  BY <3>1, <3>2
  <2> QED  BY <2>1, <2>2, SameNames
<1> QED
  BY <1>1, Invariance, PTL

\* What is shown as the size of the metadata never changes in that usage,
\* though home and the superblock wrap separately.
THEOREM MetaDataSizeKept ==
  ASSUME Usage \subseteq {"filelink"}
  PROVE  Spec => []MetaDataSizeShown
<1>1. Inv => MetaDataSizeShown
  BY DEF Inv, Kept, Distance, MetaDataSizeShown, ShownMetaDataSize
<1> QED
  BY <1>1, Invariance, PTL

\* For every Usage, names given twice and directories that lose their blocks
\* included, the disk holds what is in memory whenever a command is awaited,
\* but for times: what the other invariants need is not needed for it.  Every
\* save writes all of the metadata, what a deletion has changed in memory
\* without a save is changed while calls are pending, and an exception in the
\* middle loads what was saved.
THEOREM SavedAlways == Spec => []Saved
<1> DEFINE Stack == \E S : calls \in Seq(S)
<1>1. Init => Saved /\ Stack
  <2>1. << >> \in Seq(Names)
    OBVIOUS
  <2> QED  BY <2>1 DEF Init, Saved
<1>2. ASSUME Saved, Stack, [Next]_vars
      PROVE  Saved' /\ Stack'
  <2>1. CASE UNCHANGED vars
    BY <1>2, <2>1 DEF vars, Saved, Menu
  <2>2. ASSUME calls' = calls, disk' = mem'
        PROVE  Saved' /\ Stack'
    BY <1>2, <2>2 DEF Saved
  <2>3. ASSUME Menu, calls' = calls, disk' = disk, mem' = mem
        PROVE  Saved' /\ Stack'
    BY <1>2, <2>3 DEF Saved, Menu
  <2>10. ASSUME Reload
         PROVE  Saved' /\ Stack'
    <3>1. << >> \in Seq(Names)
      OBVIOUS
    <3> QED  BY <2>10, <3>1 DEF Reload, Saved
  <2>4. ASSUME NEW base, NEW n, NEW callers, NEW S, callers \in Seq(S),
               Call(base, n, callers)
        PROVE  Saved' /\ Stack'
    <3> DEFINE frame == [base |-> base, name |-> n, entries |-> Entries(base),
                         todo |-> IF mem.inode[Entries(base)[n]].links = 1
                                  THEN DOMAIN Entries(Entries(base)[n]) ELSE {}]
    <3>1. calls' = <<frame>> \o callers
      BY <2>4 DEF Call
    <3> HIDE DEF frame
    <3>2. <<frame>> \in Seq(S \cup {frame}) /\ callers \in Seq(S \cup {frame})
      BY <2>4
    <3>3. calls' \in Seq(S \cup {frame}) /\ Len(calls') > 0
      BY <3>1, <3>2
    <3>4. calls' # << >>
      BY <3>3
    <3> QED  BY <3>3, <3>4 DEF Saved, Menu
  <2>5. ASSUME NEW n \in Names,
               \/ createDirectory(n) \/ deleteFile(n)
               \/ \E i \in INodes : createHardLink(i, n)
               \/ \E size \in 0..MaxSize : copyFileFromSystemDisk(n, size)
               \/ \E bytes \in 1..MaxSize : addNBytes(n, bytes) \/ takeAwayNBytes(n, bytes)
        PROVE  Saved' /\ Stack'
    <3>1. calls' = calls /\ disk' = mem'
      BY <2>5 DEF createDirectory, deleteFile, createHardLink, copyFileFromSystemDisk,
         addNBytes, takeAwayNBytes, FileRemoved, Save
    <3> QED  BY <2>2, <3>1
  <2>6. ASSUME \/ CreateDirectoryFails \/ Exit \/ changeToParentDirectory
               \/ \E size \in 0..MaxSize : CopyFails(size)
               \/ \E n \in Names : changeDirectory(n)
               \/ \E n \in Names : \E bytes \in 1..MaxSize : AddFails(n, bytes)
        PROVE  Saved' /\ Stack'
    <3>1. Reload \/ (Menu /\ calls' = calls /\ disk' = disk /\ mem' = mem)
      BY <2>6 DEF CreateDirectoryFails, Exit, changeToParentDirectory, CopyFails,
         changeDirectory, AddFails
    <3> QED  BY <2>3, <2>10, <3>1
  <2>7. ASSUME NEW n \in Names, DeleteDirectory(n)
        PROVE  Saved' /\ Stack'
    <3>1. << >> \in Seq(Names) /\ Call(cwd, n, << >>)
      BY <2>7 DEF DeleteDirectory
    <3> QED  BY <2>4, <3>1
  <2>8. ASSUME NEW n \in Names, DeleteChild(n)
        PROVE  Saved' /\ Stack'
    <3> DEFINE frame   == [calls[1] EXCEPT !.todo = @ \ {n}]
               callers == [calls EXCEPT ![1].todo = @ \ {n}]
    <3>1. PICK S : calls \in Seq(S)
      BY <1>2
    <3>2. callers = [calls EXCEPT ![1] = frame]
      OBVIOUS
    <3> HIDE DEF frame, callers
    <3>3. callers \in Seq(S \cup {frame}) /\ Len(callers) = Len(calls)
      <4>1. PICK T : T = S \cup {frame}
        OBVIOUS
      <4>2. calls \in Seq(T) /\ frame \in T
        BY <3>1, <4>1
      <4>3. calls \in [1..Len(calls) -> T] /\ Len(calls) \in Nat
        BY <4>2
      <4>4. callers \in [1..Len(calls) -> T]
        BY <3>2, <4>2, <4>3
      <4>5. callers \in Seq(T) /\ Len(callers) = Len(calls)
        BY <4>3, <4>4
      <4> QED  BY <4>1, <4>5
    <3>4. calls # << >>
      BY <2>8 DEF DeleteChild, Menu
    <3>5. callers # << >>
      BY <3>1, <3>3, <3>4
    <3>6. Call(Deleted, n, callers) \/ calls' = callers \/ Reload
      BY <2>8 DEF DeleteChild, callers
    <3>7. CASE Call(Deleted, n, callers)
      BY <2>4, <3>3, <3>7
    <3>8. CASE calls' = callers
      BY <3>3, <3>5, <3>8 DEF Saved, Menu
    <3> QED  BY <2>10, <3>6, <3>7, <3>8
  <2>9. CASE Return
    <3>3. \E m, delta : Save(m, delta, -1)
      BY <2>9 DEF Return
    <3>4. disk' = mem'
      BY <3>3 DEF Save
    <3>5. calls' = Tail(calls) /\ calls # << >>
      BY <2>9 DEF Return, Menu
    <3>1. disk' = mem' /\ calls' = Tail(calls) /\ calls # << >>
      BY <3>4, <3>5
    <3>2. Stack'
      BY <1>2, <3>1
    <3> QED  BY <3>1, <3>2 DEF Saved
  <2> QED
    BY <1>2, <2>1, <2>5, <2>6, <2>7, <2>8, <2>9 DEF Next
<1> QED
  BY <1>1, <1>2, PTL DEF Spec

=============================================================================
