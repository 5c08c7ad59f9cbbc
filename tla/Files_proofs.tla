---------------------------- MODULE Files_proofs ----------------------------
(***************************************************************************)
(* The blocks of files, proved for any number of processes, inodes, files  *)
(* and blocks of any size: FilesInv is inductive.                          *)
(***************************************************************************)
EXTENDS FilesProps, FiniteSetTheorems, WellFoundedInduction, TLAPS

BlockNo == DataBlock \cup {0}
Inode == [type : {"free", "file"}, nlink : {0, 1}, size : Nat, addrs : [0 .. NDIRECT -> BlockNo]]
Block == [0 .. BSIZE - 1 -> BlockNo \cup Proc]
Disk == [used : SUBSET DataBlock, dinode : [Inum -> Inode], data : [DataBlock -> Block]]
Label == {"user", "write", "copy", "trunc", "end"}
Job == [f : FileId \cup {Null}, i : Inum \cup {Null}, left : Nat, at : Nat, end : Nat]
LogBlock == DataBlock \cup {BITMAP, IBLOCK}
File == [ip : Inum, off : Nat]

TypeOK ==
    /\ disk \in Disk /\ durable \in Disk
    /\ inode \in [Inum -> Inode]
    /\ file \in [FileId -> File \cup {Closed}]
    /\ pc \in [Proc -> Label]
    /\ my \in [Proc -> Job]
    /\ logged \in [Proc -> SUBSET LogBlock]

-----------------------------------------------------------------------------
(* Who has a block. *)

Place == Inum \X (0 .. MAXFILE)

\* The blocks of an inode, the last of which is the indirect one.
Blk(d, ip, k) == IF k = MAXFILE THEN ip.addrs[NDIRECT] ELSE BlockAt(d, ip, k)
Blks(d, ip) == [k \in 0 .. MAXFILE |-> Blk(d, ip, k)]

Map(d, f) == [x \in Place |-> Blks(d, f[x[1]])[x[2]]]

\* The blocks u are those of the map, each at one place.
Owns(u, m) ==
    /\ \A x \in Place : m[x] \in u \cup {0}
    /\ \A b \in u : \E x \in Place : m[x] = b
    /\ \A x, y \in Place : m[x] = m[y] /\ m[x] # 0 => x = y

\* A file has the blocks of its size.
Full(bl, n) == \A k \in 0 .. MAXFILE - 1 : bl[k] # 0 <=> k * BSIZE < n

\* What is in a file that nobody is in the middle of.
Whole(d, ip) == Full(Blks(d, ip), ip.size)

Blank(ip) == ip.type = "free" => ip = NoInode

\* What a disk without calls under way is.
Sound(d) ==
    /\ Owns(d.used, Map(d, d.dinode))
    /\ \A i \in Inum : Whole(d, d.dinode[i]) /\ Blank(d.dinode[i])

\* itrunc() has freed what is before my[p].at.
Gone(i, k) == \E p \in Proc : At(p, "trunc") /\ my[p].i = i /\ k < my[p].at
Live == [x \in Place |-> IF Gone(x[1], x[2]) THEN 0 ELSE Blks(disk, inode[x[1]])[x[2]]]

-----------------------------------------------------------------------------
(* The inductive invariant. *)

Locks(p) == pc[p] \in {"copy", "trunc"}
LockInv ==
    /\ \A p \in Proc : Locks(p) => my[p].i \in Inum
    /\ \A p, q \in Proc : Locks(p) /\ Locks(q) /\ my[p].i = my[q].i => p = q

\* An inode that nobody has locked is what the disk says, and whole.
InodeInv ==
    \A i \in Inum :
      /\ Blank(inode[i])
      /\ ~Locked(i) => inode[i] = disk.dinode[i] /\ Whole(disk, inode[i])

OpenInv == \A f \in FileId : file[f] # Closed => inode[file[f].ip].type = "file"

\* A write, also between two of its transactions.
Writes(p) == pc[p] \in {"write", "copy"} \/ (At(p, "end") /\ my[p].left > 0)
WriteOf(p) ==
    Writes(p) => /\ my[p].f \in FileId /\ my[p].left > 0
                 /\ file[my[p].f] # Closed /\ my[p].i = file[my[p].f].ip

\* A piece of a write, of the job m that began at off, to an inode with the blocks bl:
\* those up to where it is are there, and one more may be; it is in the log with the
\* bitmap and the indirect block.
Span(off, end) == off \div BSIZE .. (end - 1) \div BSIZE
Copying(bl, ip, dip, m, off, log) ==
    /\ off <= ip.size /\ off <= m.at /\ m.at <= m.end
    /\ m.end = off + Chunk(m.left) /\ m.end <= MAXFILE * BSIZE
    /\ \A k \in 0 .. MAXFILE - 1 :
         /\ k * BSIZE < ip.size \/ k * BSIZE < m.at => bl[k] # 0
         /\ bl[k] # 0 => \/ k * BSIZE < ip.size \/ k * BSIZE < m.at
                         \/ k = m.at \div BSIZE /\ m.at < m.end
    /\ m.end <= ip.size => ip = dip
    /\ \A b \in log : \/ b = BITMAP
                      \/ b # 0 /\ b = bl[MAXFILE]
                      \/ b # 0 /\ \E k \in Span(off, m.end) : b = bl[k]

CopyOf(p) ==
    At(p, "copy") =>
      LET i == my[p].i
      IN  Copying(Blks(disk, inode[i]), inode[i], disk.dinode[i], my[p],
                  file[my[p].f].off, logged[p])

TruncOf(p) ==
    At(p, "trunc") => /\ inode[my[p].i].nlink = 0 /\ my[p].at <= MAXFILE + 1
                      /\ \A f \in FileId : file[f].ip # my[p].i
                      /\ my[p].at > MAXFILE => inode[my[p].i].addrs[NDIRECT] = 0
                      /\ my[p].left = 0
                      /\ logged[p] \subseteq {BITMAP, IBLOCK}

OtherOf(p) ==
    /\ At(p, "user") => my[p] = Idle
    /\ pc[p] \in {"user", "write"} => logged[p] = {}
    /\ At(p, "end") => Cardinality(logged[p]) <= MAXOPBLOCKS

FilesInv ==
    /\ TypeOK /\ LockInv /\ InodeInv /\ OpenInv
    /\ Owns(disk.used, Live) /\ Sound(durable)
    /\ \A p \in Proc : WriteOf(p) /\ CopyOf(p) /\ TruncOf(p) /\ OtherOf(p)

-----------------------------------------------------------------------------
(* Numbers. *)

LEMMA Facts ==
    /\ NDIRECT \in Nat /\ BSIZE \in Nat \ {0} /\ MAXFILE \in Nat /\ NDIRECT < MAXFILE
    /\ MAXFILE = NDIRECT + BSIZE
    /\ MAXOPBLOCKS \in Nat /\ MAXOPBLOCKS >= 6
    /\ IsFiniteSet(Inum) /\ Null \notin Inum /\ IsFiniteSet(DataBlock)
    /\ DataBlock \subseteq Nat /\ 0 \notin DataBlock
    /\ Count \subseteq Nat \ {0}
BY FilesAssumption DEF MAXFILE, NINDIRECT

LEMMA Monotone ==
    ASSUME NEW a \in Nat, NEW b \in Nat, NEW c \in Nat, a <= b
    PROVE  a * c <= b * c
<1>1. PICK d \in Nat : b = a + d
  <2>1. b - a \in Nat /\ b = a + (b - a)
    OBVIOUS
  <2> QED BY <2>1
<1>2. b * c = a * c + d * c /\ d * c \in Nat /\ a * c \in Nat
  BY <1>1
<1> QED BY <1>2

LEMMA DivMod ==
    ASSUME NEW a \in Nat
    PROVE  /\ a \div BSIZE \in Nat /\ a % BSIZE \in 0 .. BSIZE - 1
           /\ a = (a \div BSIZE) * BSIZE + (a % BSIZE)
BY Facts

\* Block k starts at or before a word when the word is in block k or a later one.
LEMMA Starts ==
    ASSUME NEW a \in Nat, NEW k \in Nat
    PROVE  k * BSIZE <= a <=> k <= a \div BSIZE
<1> DEFINE q == a \div BSIZE
<1>1. q \in Nat /\ a % BSIZE \in Nat /\ a % BSIZE < BSIZE /\ a = q * BSIZE + (a % BSIZE)
  BY DivMod, Facts
<1>2. k * BSIZE \in Nat /\ q * BSIZE \in Nat
  BY <1>1, Facts
<1>3. CASE k <= q
  <2>1. k * BSIZE <= q * BSIZE
    BY <1>1, <1>3, Monotone, Facts
  <2> QED BY <1>1, <1>2, <1>3, <2>1, Facts
<1>4. CASE q + 1 <= k
  <2>1. (q + 1) * BSIZE <= k * BSIZE
    BY <1>1, <1>4, Monotone, Facts
  <2>2. (q + 1) * BSIZE = q * BSIZE + BSIZE
    BY <1>1, Facts
  <2> HIDE DEF q
  <2>3. a < k * BSIZE
    BY <1>1, <1>2, <2>1, <2>2, Facts
  <2> QED BY <1>1, <1>2, <1>4, <2>3, Facts DEF q
<1> QED BY <1>1, <1>3, <1>4

LEMMA InFile ==
    ASSUME NEW a \in Nat, a < MAXFILE * BSIZE
    PROVE  a \div BSIZE \in 0 .. MAXFILE - 1
<1>1. MAXFILE * BSIZE \in Nat /\ ~(MAXFILE * BSIZE <= a)
  BY Facts
<1>2. ~(MAXFILE <= a \div BSIZE)
  BY <1>1, Starts, Facts
<1> QED BY <1>2, DivMod, Facts

LEMMA ChunkIs ==
    ASSUME NEW n \in Nat \ {0}
    PROVE  /\ Chunk(n) \in 1 .. n
           /\ Chunk(n) <= ((MAXOPBLOCKS - 4) \div 2) * BSIZE
<1> DEFINE h == (MAXOPBLOCKS - 4) \div 2
           c == h * BSIZE
<1>1. h \in Nat \ {0}
  BY Facts
<1>2. c \in Nat /\ c >= 1
  <2>1. 1 * BSIZE <= h * BSIZE
    BY <1>1, Monotone, Facts
  <2> QED BY <1>1, <2>1, Facts
<1>3. Chunk(n) = Min({n, c})
  <2>1. MAXOPBLOCKS - 1 - 1 - 2 = MAXOPBLOCKS - 4
    BY Facts
  <2> QED BY <2>1 DEF Chunk
<1> HIDE DEF c
<1>4. Min({n, c}) = IF n <= c THEN n ELSE c
  BY <1>2 DEF Min
<1> QED BY <1>2, <1>3, <1>4 DEF c

\* filewrite() cuts a write into pieces that are in half the blocks of a
\* transaction, and one more when they are not aligned.
LEMMA PieceSpans ==
    ASSUME NEW off \in Nat, NEW n \in Nat \ {0}, NEW end \in Nat, end = off + Chunk(n)
    PROVE  (end - 1) \div BSIZE <= off \div BSIZE + ((MAXOPBLOCKS - 4) \div 2)
<1> DEFINE h == (MAXOPBLOCKS - 4) \div 2
           q == off \div BSIZE
           e == (end - 1) \div BSIZE
<1>1. Chunk(n) \in 1 .. n /\ Chunk(n) <= h * BSIZE /\ h \in Nat
  BY ChunkIs, Facts
<1>2. q \in Nat /\ off < q * BSIZE + BSIZE
  BY DivMod, Facts
<1>3. end - 1 \in Nat
  BY <1>1
<1>4. e \in Nat
  BY <1>3, DivMod
<1>5. h * BSIZE \in Nat /\ q * BSIZE \in Nat
  BY <1>1, <1>2, Facts
<1>6. end - 1 < q * BSIZE + h * BSIZE + BSIZE
  BY <1>1, <1>2, <1>5, Facts
<1>7. (q + h + 1) * BSIZE = q * BSIZE + h * BSIZE + BSIZE
  BY <1>1, <1>2, Facts
<1>8. ~((q + h + 1) * BSIZE <= end - 1)
  BY <1>3, <1>5, <1>6, <1>7, Facts
<1>9. ~(q + h + 1 <= e)
  <2>1. q + h + 1 \in Nat
    BY <1>1, <1>2
  <2>2. (q + h + 1) * BSIZE <= end - 1 <=> q + h + 1 <= (end - 1) \div BSIZE
    BY <1>3, <2>1, Starts
  <2> QED BY <1>8, <2>2
<1> HIDE DEF q, h, e
<1> QED BY <1>1, <1>2, <1>4, <1>9 DEF q, h, e

-----------------------------------------------------------------------------
(* Maps of blocks. *)

\* balloc() gives one place a block that nobody has.
LEMMA OwnsMore ==
    ASSUME NEW u \in SUBSET DataBlock, NEW m, NEW n, Owns(u, m),
           NEW b \in DataBlock \ u, NEW x \in Place, m[x] = 0, n[x] = b,
           \A y \in Place : y # x => n[y] = m[y]
    PROVE  Owns(u \cup {b}, n)
<1>1. \A y \in Place : n[y] \in (u \cup {b}) \cup {0}
  BY DEF Owns
<1>2. \A c \in u \cup {b} : \E y \in Place : n[y] = c
  <2> SUFFICES ASSUME NEW c \in u PROVE \E y \in Place : n[y] = c
    OBVIOUS
  <2>1. PICK y \in Place : m[y] = c
    BY DEF Owns
  <2>2. y # x
    BY <2>1, Facts
  <2> QED BY <2>1, <2>2
<1>3. ASSUME NEW y \in Place, NEW z \in Place, n[y] = n[z], n[y] # 0
      PROVE  y = z
  <2>1. \A w \in Place : w # x => n[w] # b
    BY Facts DEF Owns
  <2> QED BY <1>3, <2>1 DEF Owns
<1> QED BY <1>1, <1>2, <1>3 DEF Owns

\* bfree() takes a block from the only place it has.
LEMMA OwnsLess ==
    ASSUME NEW u \in SUBSET DataBlock, NEW m, NEW n, Owns(u, m),
           NEW x \in Place, m[x] # 0, n[x] = 0,
           \A y \in Place : y # x => n[y] = m[y]
    PROVE  Owns(u \ {m[x]}, n)
<1>1. \A y \in Place : n[y] \in (u \ {m[x]}) \cup {0}
  BY DEF Owns
<1>2. \A c \in u \ {m[x]} : \E y \in Place : n[y] = c
  BY DEF Owns
<1>3. ASSUME NEW y \in Place, NEW z \in Place, n[y] = n[z], n[y] # 0
      PROVE  y = z
  BY <1>3 DEF Owns
<1> QED BY <1>1, <1>2, <1>3 DEF Owns

LEMMA PlaceFinite ==
    /\ IsFiniteSet(Place)
    /\ Cardinality(Place) = Cardinality(Inum) * (MAXFILE + 1)
<1>1. IsFiniteSet(0 .. MAXFILE) /\ Cardinality(0 .. MAXFILE) = MAXFILE + 1
  BY Facts, FS_Interval
<1>2. IsFiniteSet(Inum)
  BY Facts
<1> QED BY <1>1, <1>2, FS_Product DEF Place

\* A block for each place that has one.
LEMMA OwnsCount ==
    ASSUME NEW u \in SUBSET DataBlock, NEW m, Owns(u, m)
    PROVE  LET P == {x \in Place : m[x] # 0}
           IN  IsFiniteSet(P) /\ IsFiniteSet(u) /\ Cardinality(u) = Cardinality(P)
<1> DEFINE P == {x \in Place : m[x] # 0}
           f == [x \in P |-> m[x]]
<1>1. IsFiniteSet(P)
  BY PlaceFinite, FS_Subset
<1>2. \A x \in P : m[x] \in u
  BY DEF Owns
<1>3. \A x, y \in P : m[x] = m[y] => x = y
  BY DEF Owns
<1>4. \A b \in u : \E x \in P : m[x] = b
  <2> SUFFICES ASSUME NEW b \in u PROVE \E x \in P : m[x] = b
    OBVIOUS
  <2>1. PICK x \in Place : m[x] = b
    BY DEF Owns
  <2> QED BY <2>1, Facts
<1> HIDE DEF P
<1>5. f \in Surjection(P, u)
  <2>1. f \in [P -> u]
    BY <1>2
  <2>2. \A b \in u : \E x \in P : f[x] = b
    BY <1>4
  <2> HIDE DEF f
  <2> QED BY <2>1, <2>2 DEF Surjection
<1>6. f \in Injection(P, u)
  <2>1. f \in [P -> u]
    BY <1>2
  <2>2. \A x, y \in P : f[x] = f[y] => x = y
    BY <1>3
  <2> HIDE DEF f
  <2> QED BY <2>1, <2>2 DEF Injection, IsInjective
<1> HIDE DEF f
<1>7. IsFiniteSet(u) /\ (Cardinality(u) = Cardinality(P))
  BY <1>1, <1>5, <1>6, FS_Surjection
<1> QED BY <1>1, <1>7 DEF P

-----------------------------------------------------------------------------
(* The blocks of an inode. *)

LEMMA BlksAre ==
    ASSUME NEW d, NEW ip, NEW k \in 0 .. MAXFILE
    PROVE  /\ k < NDIRECT => Blks(d, ip)[k] = ip.addrs[k]
           /\ k = MAXFILE => Blks(d, ip)[k] = ip.addrs[NDIRECT]
           /\ k >= NDIRECT /\ k # MAXFILE =>
                Blks(d, ip)[k] = IF ip.addrs[NDIRECT] = 0 THEN 0
                                 ELSE d.data[ip.addrs[NDIRECT]][k - NDIRECT]
<1>1. Blks(d, ip)[k] = Blk(d, ip, k)
  BY DEF Blks
<1> QED BY <1>1, Facts DEF Blk, BlockAt

\* Only the addresses and what is in the indirect block matter.
LEMMA BlksSame ==
    ASSUME NEW d, NEW e, NEW ip, NEW jp, jp.addrs = ip.addrs,
           ip.addrs[NDIRECT] # 0 => e.data[ip.addrs[NDIRECT]] = d.data[ip.addrs[NDIRECT]]
    PROVE  Blks(e, jp) = Blks(d, ip)
<1>1. \A k \in 0 .. MAXFILE : Blk(e, jp, k) = Blk(d, ip, k)
  BY DEF Blk, BlockAt
<1> QED BY <1>1 DEF Blks

-----------------------------------------------------------------------------
(* What a step leaves alone. *)

LEMMA LiveIs ==
    /\ \A i \in Inum, k \in 0 .. MAXFILE :
         /\ <<i, k>> \in Place
         /\ Live[<<i, k>>] = IF Gone(i, k) THEN 0 ELSE Blks(disk, inode[i])[k]
         /\ Live'[<<i, k>>] = IF Gone(i, k)' THEN 0 ELSE Blks(disk', inode'[i])[k]
    /\ \A x \in Place : \E i \in Inum, k \in 0 .. MAXFILE : x = <<i, k>>
<1>1. ASSUME NEW i \in Inum, NEW k \in 0 .. MAXFILE
      PROVE  /\ <<i, k>> \in Place
             /\ Live[<<i, k>>] = IF Gone(i, k) THEN 0 ELSE Blks(disk, inode[i])[k]
             /\ Live'[<<i, k>>] = IF Gone(i, k)' THEN 0 ELSE Blks(disk', inode'[i])[k]
  <2>1. <<i, k>> \in Place /\ <<i, k>>[1] = i /\ <<i, k>>[2] = k
    BY DEF Place
  <2>2. Live[<<i, k>>] = IF Gone(i, k) THEN 0 ELSE Blks(disk, inode[i])[k]
    BY <2>1 DEF Live
  <2>3. Live'[<<i, k>>] = IF Gone(i, k)' THEN 0 ELSE Blks(disk', inode'[i])[k]
    BY <2>1 DEF Live
  <2> QED BY <2>1, <2>2, <2>3
<1>2. \A x \in Place : \E i \in Inum, k \in 0 .. MAXFILE : x = <<i, k>>
  BY DEF Place
<1> QED BY <1>1, <1>2

LEMMA MapIs ==
    ASSUME NEW d, NEW f, NEW i \in Inum, NEW k \in 0 .. MAXFILE
    PROVE  Map(d, f)[<<i, k>>] = Blks(d, f[i])[k]
<1>1. <<i, k>> \in Place /\ <<i, k>>[1] = i /\ <<i, k>>[2] = k
  BY DEF Place
<1> QED BY <1>1 DEF Map

Untouched(i) ==
    /\ inode'[i] = inode[i] /\ disk'.dinode[i] = disk.dinode[i]
    /\ Blks(disk', inode'[i]) = Blks(disk, inode[i])

FileKept(q) ==
    /\ Writes(q) => /\ file'[my[q].f] # Closed
                    /\ file'[my[q].f].ip = file[my[q].f].ip
    /\ At(q, "copy") => file'[my[q].f] = file[my[q].f]

Kept(q) == pc'[q] = pc[q] /\ my'[q] = my[q] /\ logged'[q] = logged[q]

\* A process that takes no step, while others leave its inode and its file alone.
LEMMA OtherKept ==
    ASSUME NEW q \in Proc, Kept(q), FileKept(q),
           Locks(q) => my[q].i \in Inum /\ Untouched(my[q].i),
           At(q, "trunc") => \A f \in FileId : file'[f].ip # my[q].i,
           WriteOf(q), CopyOf(q), TruncOf(q), OtherOf(q)
    PROVE  WriteOf(q)' /\ CopyOf(q)' /\ TruncOf(q)' /\ OtherOf(q)'
<1>1. WriteOf(q)'
  BY DEF Kept, FileKept, WriteOf, Writes, At
<1>2. CopyOf(q)'
  <2> SUFFICES ASSUME At(q, "copy")' PROVE CopyOf(q)'
    BY DEF CopyOf
  <2>1. At(q, "copy") /\ pc'[q] = pc[q] /\ my'[q] = my[q] /\ logged'[q] = logged[q]
    BY DEF Kept, At
  <2>2. file'[my[q].f] = file[my[q].f] /\ Untouched(my[q].i)
    BY <2>1 DEF FileKept, Locks, At
  <2> QED BY <2>1, <2>2 DEF CopyOf, Untouched
<1>3. TruncOf(q)'
  BY DEF Kept, TruncOf, Locks, At, Untouched
<1>4. OtherOf(q)'
  BY DEF Kept, OtherOf, At
<1> QED BY <1>1, <1>2, <1>3, <1>4

LEMMA Types ==
    ASSUME FilesInv
    PROVE  /\ TypeOK /\ LockInv /\ InodeInv /\ OpenInv
           /\ disk.used \in SUBSET DataBlock /\ disk.dinode \in [Inum -> Inode]
           /\ disk.data \in [DataBlock -> Block]
           /\ inode \in [Inum -> Inode] /\ file \in [FileId -> File \cup {Closed}]
           /\ pc \in [Proc -> Label] /\ my \in [Proc -> Job]
           /\ logged \in [Proc -> SUBSET LogBlock]
           /\ disk \in Disk /\ durable \in Disk
           /\ Owns(disk.used, Live) /\ Sound(durable)
           /\ \A p \in Proc : WriteOf(p) /\ CopyOf(p) /\ TruncOf(p) /\ OtherOf(p)
BY DEF FilesInv, TypeOK, Disk

LEMMA JobIs ==
    ASSUME TypeOK, NEW p \in Proc
    PROVE  /\ my[p].left \in Nat /\ my[p].at \in Nat /\ my[p].end \in Nat
           /\ my[p] \in Job /\ pc[p] \in Label
BY DEF TypeOK, Job

LEMMA InodeIs ==
    ASSUME TypeOK, NEW i \in Inum
    PROVE  /\ inode[i] \in Inode /\ inode[i].size \in Nat /\ inode[i].nlink \in {0, 1}
           /\ inode[i].type \in {"free", "file"}
           /\ inode[i].addrs \in [0 .. NDIRECT -> BlockNo]
BY DEF TypeOK, Inode

LEMMA FileIs ==
    ASSUME TypeOK, NEW f \in FileId, file[f] # Closed
    PROVE  file[f] \in File /\ file[f].ip \in Inum /\ file[f].off \in Nat
BY DEF TypeOK, File

\* The blocks of inodes stay where they are, and itrunc() where it is.
LEMMA LiveSame ==
    ASSUME NEW p \in Proc, \A q \in Proc \ {p} : Kept(q),
           \A i \in Inum : Blks(disk', inode'[i]) = Blks(disk, inode[i]),
           ~At(p, "trunc"), At(p, "trunc")' => my'[p].at = 0
    PROVE  Live' = Live
<1>1. \A i, k : k \in 0 .. MAXFILE => (Gone(i, k)' <=> Gone(i, k))
  BY DEF Gone, Kept, At
<1>2. \A x \in Place : /\ x[1] \in Inum /\ x[2] \in 0 .. MAXFILE
  BY DEF Place
<1> QED BY <1>1, <1>2 DEF Live

\* A step of p that changes at most the inode S, which no other process has locked.
LEMMA StepInv ==
    ASSUME FilesInv, NEW p \in Proc, NEW S \in SUBSET Inum, TypeOK',
           \A q \in Proc \ {p} : /\ Kept(q)
                                 /\ Locks(q) => my[q].i \notin S
                                 /\ FileKept(q),
           \A q \in Proc \ {p} : At(q, "trunc") => \A f \in FileId : file'[f].ip # my[q].i,
           \A i \in Inum \ S : Untouched(i),
           Locks(p) => my[p].i \in S,
           Locks(p)' => my'[p].i \in S,
           \A i \in S : /\ Blank(inode'[i])
                        /\ ~(Locks(p)' /\ my'[p].i = i) =>
                             inode'[i] = disk'.dinode[i] /\ Whole(disk', inode'[i]),
           OpenInv', Owns(disk'.used, Live'), Sound(durable'),
           WriteOf(p)', CopyOf(p)', TruncOf(p)', OtherOf(p)'
    PROVE  FilesInv'
<1>1. ASSUME NEW q \in Proc \ {p}
      PROVE  /\ Locks(q)' <=> Locks(q)
             /\ my'[q] = my[q]
  BY DEF Locks, Kept
<1>2. LockInv'
  <2>1. \A q \in Proc : Locks(q)' => my'[q].i \in Inum
    BY <1>1, Types DEF LockInv
  <2>2. ASSUME NEW q \in Proc, NEW r \in Proc, Locks(q)', Locks(r)', my'[q].i = my'[r].i
        PROVE  q = r
    <3>1. CASE q = p /\ r # p
      BY <1>1, <2>2, <3>1
    <3>2. CASE q # p /\ r = p
      BY <1>1, <2>2, <3>2
    <3>3. CASE q # p /\ r # p
      BY <1>1, <2>2, <3>3, Types DEF LockInv
    <3> QED BY <3>1, <3>2, <3>3
  <2> QED BY <2>1, <2>2 DEF LockInv
<1>3. InodeInv'
  <2>1. ASSUME NEW i \in Inum
        PROVE  /\ Blank(inode'[i])
               /\ ~Locked(i)' => inode'[i] = disk'.dinode[i] /\ Whole(disk', inode'[i])
    <3>1. CASE i \in S
      <4>1. ~Locked(i)' => ~(Locks(p)' /\ my'[p].i = i)
        BY DEF Locked, Locks
      <4> QED BY <3>1, <4>1
    <3>2. CASE i \notin S
      <4>1. Untouched(i)
        BY <3>2
      <4>2. ~Locked(i)' => ~Locked(i)
        BY <1>1, <3>2 DEF Locked, Locks
      <4>3. /\ Blank(inode[i])
            /\ ~Locked(i) => inode[i] = disk.dinode[i] /\ Whole(disk, inode[i])
        BY Types DEF InodeInv
      <4> QED BY <4>1, <4>2, <4>3 DEF Untouched, Whole
    <3> QED BY <3>1, <3>2
  <2> QED BY <2>1 DEF InodeInv
<1>4. ASSUME NEW q \in Proc
      PROVE  WriteOf(q)' /\ CopyOf(q)' /\ TruncOf(q)' /\ OtherOf(q)'
  <2>1. CASE q = p
    BY <2>1
  <2>2. CASE q # p
    <3>1. Locks(q) => my[q].i \in Inum /\ Untouched(my[q].i)
      BY <2>2, Types DEF LockInv
    <3>2. WriteOf(q) /\ CopyOf(q) /\ TruncOf(q) /\ OtherOf(q)
      BY Types
    <3>3. Kept(q) /\ FileKept(q)
      BY <2>2
    <3>4. At(q, "trunc") => \A f \in FileId : file'[f].ip # my[q].i
      BY <2>2
    <3> QED BY <3>1, <3>2, <3>3, <3>4, OtherKept
  <2> QED BY <2>1, <2>2
<1> QED BY <1>2, <1>3, <1>4 DEF FilesInv

\* The other processes are where they were.
LEMMA OthersKept ==
    ASSUME TypeOK, NEW p \in Proc, NEW l, NEW m, NEW w,
           pc' = [pc EXCEPT ![p] = l] \/ pc' = pc,
           my' = [my EXCEPT ![p] = m] \/ my' = my,
           logged' = [logged EXCEPT ![p] = w] \/ logged' = logged
    PROVE  \A q \in Proc \ {p} : Kept(q)
BY DEF Kept, TypeOK

-----------------------------------------------------------------------------
(* Steps that change no block and no inode. *)

LEMMA SameDisk ==
    ASSUME disk' = disk, inode' = inode
    PROVE  \A i \in Inum : Untouched(i) /\ Blks(disk', inode'[i]) = Blks(disk, inode[i])
BY DEF Untouched

LEMMA SameFile ==
    ASSUME FilesInv, file' = file
    PROVE  /\ \A q \in Proc : FileKept(q)
           /\ \A q \in Proc : At(q, "trunc") => \A f \in FileId : file'[f].ip # my[q].i
<1>1. \A q \in Proc : WriteOf(q) /\ TruncOf(q)
  BY Types
<1>2. \A q \in Proc : FileKept(q)
  BY <1>1 DEF FileKept, WriteOf
<1> QED BY <1>1, <1>2 DEF TruncOf

\* A step without a lock before or after it.
LEMMA QuietInv ==
    ASSUME FilesInv, NEW p \in Proc, TypeOK',
           disk' = disk, Sound(durable'), inode' = inode, ~Locks(p), ~Locks(p)',
           \A q \in Proc \ {p} : Kept(q),
           \A q \in Proc : FileKept(q),
           \A q \in Proc : At(q, "trunc") => \A f \in FileId : file'[f].ip # my[q].i,
           OpenInv', WriteOf(p)', OtherOf(p)'
    PROVE  FilesInv'
<1>1. \A i \in Inum : Untouched(i) /\ Blks(disk', inode'[i]) = Blks(disk, inode[i])
  BY SameDisk
<1>2. ~At(p, "trunc") /\ ~At(p, "trunc")' /\ ~At(p, "copy")'
  BY DEF Locks, At
<1>3. Live' = Live
  BY <1>1, <1>2, LiveSame
<1>4. Owns(disk'.used, Live') /\ Sound(durable')
  BY <1>3, Types
<1>5. CopyOf(p)' /\ TruncOf(p)'
  BY <1>2 DEF CopyOf, TruncOf
<1> DEFINE S == {}
<1>6. /\ S \in SUBSET Inum
      /\ \A q \in Proc \ {p} : my[q].i \notin S
      /\ \A i \in Inum \ S : Untouched(i)
      /\ \A i \in S : FALSE
  BY <1>1
<1> HIDE DEF S
<1> QED BY <1>4, <1>5, <1>6, StepInv

LEMMA WriteCallInv ==
    ASSUME FilesInv, NEW p \in Proc, NEW f \in FileId, NEW n \in Count, WriteCall(p, f, n)
    PROVE  FilesInv'
<1> DEFINE m == [Idle EXCEPT !.f = f, !.i = file[f].ip, !.left = n]
<1>1. /\ pc[p] = "user" /\ file[f] # Closed
      /\ my' = [my EXCEPT ![p] = m] /\ pc' = [pc EXCEPT ![p] = "write"]
      /\ disk' = disk /\ durable' = durable /\ inode' = inode /\ file' = file
      /\ logged' = logged
  BY DEF WriteCall, Goto, At
<1>2. file[f].ip \in Inum /\ n \in Nat \ {0}
  BY <1>1, Types, FileIs, Facts
<1>3. m \in Job /\ m.f = f /\ m.i = file[f].ip /\ m.left = n /\ m.at = 0
  BY <1>2 DEF Job, Idle
<1> HIDE DEF m
<1>4. TypeOK'
  BY <1>1, <1>3, Types DEF TypeOK, Label
<1>5. my'[p] = m /\ pc'[p] = "write" /\ logged'[p] = logged[p]
  BY <1>1, Types
<1>6. \A q \in Proc \ {p} : Kept(q)
  BY <1>1, OthersKept, Types
<1>8. WriteOf(p)'
  BY <1>1, <1>2, <1>3, <1>5 DEF WriteOf, At
<1>9. OtherOf(p)'
  <2>1. logged[p] = {}
    BY <1>1, Types DEF OtherOf
  <2> QED BY <1>1, <1>5, <2>1 DEF OtherOf, At
<1>10. ~Locks(p) /\ ~Locks(p)'
  BY <1>1, <1>5 DEF Locks
<1>11. OpenInv'
  BY <1>1, Types DEF OpenInv
<1> QED BY <1>1, <1>4, <1>6, <1>8, <1>9, <1>10, <1>11, SameFile, Types, QuietInv

\* ilock() waits for who has the inode of an open file.
LEMMA NobodyIn ==
    ASSUME FilesInv, NEW i, ~Locked(i)
    PROVE  \A q \in Proc : Locks(q) => my[q].i # i
BY DEF Locks, Locked

LEMMA ReadInv ==
    ASSUME FilesInv, NEW p \in Proc, NEW f \in FileId, NEW n \in Count, Read(p, f, n)
    PROVE  FilesInv'
<1> DEFINE i == file[f].ip
           off == file[f].off
           s == Readi(disk, inode[i], off, n)
<1>1. /\ pc[p] = "user" /\ file[f] # Closed /\ ~Locked(i) /\ off <= inode[i].size
      /\ file' = [file EXCEPT ![f].off = off + Len(s)]
      /\ disk' = disk /\ durable' = durable /\ inode' = inode /\ pc' = pc /\ my' = my
      /\ logged' = logged
  BY DEF Read, At
<1>2. file[f] \in File /\ i \in Inum /\ off \in Nat /\ n \in Nat \ {0}
  BY <1>1, Types, FileIs, Facts
<1>3. Len(s) \in Nat
  <2>1. inode[i].size - off \in Nat
    BY <1>1, <1>2, Types, InodeIs
  <2>2. Min({n, inode[i].size - off}) \in Nat
    BY <1>2, <2>1 DEF Min
  <2>3. \E k \in Nat : DOMAIN s = 1 .. k
    BY <2>2 DEF Readi
  <2> QED BY <2>2 DEF Readi
<1> HIDE DEF s
<1>4. /\ file'[f] \in File /\ file'[f].ip = i /\ file'[f] # Closed
      /\ \A g \in FileId \ {f} : file'[g] = file[g]
      /\ file' \in [FileId -> File \cup {Closed}]
  <2> DEFINE g == [file[f] EXCEPT !.off = off + Len(s)]
  <2>1. g \in File /\ g.ip = i
    BY <1>2, <1>3 DEF File
  <2>2. g # Closed
    BY <1>2, <2>1, Facts DEF Closed
  <2>3. file' = [file EXCEPT ![f] = g]
    BY <1>1
  <2> HIDE DEF g
  <2> QED BY <2>1, <2>2, <2>3, Types
<1>5. TypeOK'
  BY <1>1, <1>4, Types DEF TypeOK
<1>6. \A q \in Proc : Kept(q)
  BY <1>1 DEF Kept
<1>8. \A q \in Proc : FileKept(q)
  <2> SUFFICES ASSUME NEW q \in Proc, Writes(q) PROVE FileKept(q)
    BY DEF FileKept, Writes, At
  <2>1. WriteOf(q)
    BY Types
  <2>2. At(q, "copy") => my[q].f # f
    BY <1>1, <2>1, NobodyIn DEF WriteOf, Locks, At
  <2> QED BY <1>4, <2>1, <2>2 DEF FileKept, WriteOf
<1>9. \A q \in Proc : At(q, "trunc") => \A g \in FileId : file'[g].ip # my[q].i
  BY <1>4, Types DEF TruncOf
<1>10. OpenInv'
  BY <1>1, <1>4, Types DEF OpenInv
<1>11. WriteOf(p)' /\ OtherOf(p)'
  BY <1>1, Types DEF WriteOf, Writes, OtherOf, At
<1>12. ~Locks(p) /\ ~Locks(p)'
  BY <1>1 DEF Locks
<1> QED BY <1>1, <1>5, <1>6, <1>8, <1>9, <1>10, <1>11, <1>12, Types, QuietInv

LEMMA OpenFileInv ==
    ASSUME FilesInv, NEW p \in Proc, NEW f \in FileId, NEW i \in Inum, Open(p, f, i)
    PROVE  FilesInv'
<1> DEFINE g == [ip |-> i, off |-> 0]
<1>1. /\ pc[p] = "user" /\ inode[i].nlink > 0 /\ file[f] = Closed
      /\ file' = [file EXCEPT ![f] = g]
      /\ disk' = disk /\ durable' = durable /\ inode' = inode /\ pc' = pc /\ my' = my
      /\ logged' = logged
  BY DEF Open, Opened, At
<1>2. g \in File /\ g.ip = i /\ g # Closed
  BY Facts DEF File, Closed
<1> HIDE DEF g
<1>3. /\ file'[f] = g /\ \A h \in FileId \ {f} : file'[h] = file[h]
      /\ file' \in [FileId -> File \cup {Closed}]
  BY <1>1, <1>2, Types
<1>4. TypeOK'
  BY <1>1, <1>3, Types DEF TypeOK
<1>5. \A q \in Proc : Kept(q)
  BY <1>1 DEF Kept
<1>6. \A q \in Proc : FileKept(q)
  <2> SUFFICES ASSUME NEW q \in Proc, Writes(q) PROVE FileKept(q)
    BY DEF FileKept, Writes, At
  <2>1. my[q].f \in FileId /\ my[q].f # f
    BY <1>1, Types DEF WriteOf
  <2> QED BY <1>3, <2>1, Types DEF FileKept, WriteOf
<1>7. \A q \in Proc : At(q, "trunc") => \A h \in FileId : file'[h].ip # my[q].i
  BY <1>1, <1>2, <1>3, Types DEF TruncOf
<1>8. OpenInv'
  <2>1. inode[i].type = "file"
    <3>1. Blank(inode[i])
      BY Types DEF InodeInv
    <3> QED BY <1>1, <3>1, Types, InodeIs DEF Blank, NoInode
  <2> QED BY <1>1, <1>2, <1>3, <2>1, Types DEF OpenInv
<1>9. WriteOf(p)' /\ OtherOf(p)' /\ ~Locks(p) /\ ~Locks(p)'
  BY <1>1, Types DEF WriteOf, Writes, OtherOf, Locks, At
<1> QED BY <1>1, <1>4, <1>5, <1>6, <1>7, <1>8, <1>9, Types, QuietInv

\* When nobody has a lock the disk is as a disk should be.
LEMMA DiskSound ==
    ASSUME FilesInv, \A p \in Proc : ~Locks(p)
    PROVE  Sound(disk)
<1>1. \A i \in Inum : /\ ~Locked(i) /\ inode[i] = disk.dinode[i] /\ Whole(disk, inode[i])
                      /\ Blank(inode[i]) /\ \A k : ~Gone(i, k)
  BY Types DEF Locks, Locked, InodeInv, Gone, At
<1>2. Live = Map(disk, disk.dinode)
  <2>1. \A x \in Place : x[1] \in Inum
    BY DEF Place
  <2> QED BY <1>1, <2>1 DEF Live, Map
<1> QED BY <1>1, <1>2, Types DEF Sound

LEMMA EndOpInv ==
    ASSUME FilesInv, NEW p \in Proc, EndOp(p)
    PROVE  FilesInv'
<1>1. /\ pc[p] = "end" /\ logged' = [logged EXCEPT ![p] = {}]
      /\ disk' = disk /\ inode' = inode /\ file' = file
  BY DEF EndOp, At
<1>2. \/ my[p].left > 0 /\ pc' = [pc EXCEPT ![p] = "write"] /\ my' = my
      \/ ~(my[p].left > 0) /\ pc' = [pc EXCEPT ![p] = "user"] /\ my' = [my EXCEPT ![p] = Idle]
  BY DEF EndOp, Goto
<1>3. durable' \in Disk /\ Sound(durable')
  <2>1. CASE \E q \in Proc \ {p} : InOp(q)
    <3>1. durable' = durable
      BY <2>1 DEF EndOp
    <3> QED BY <3>1, Types
  <2>2. CASE ~\E q \in Proc \ {p} : InOp(q)
    <3>1. durable' = disk
      BY <2>2 DEF EndOp
    <3>2. \A q \in Proc : ~Locks(q)
      BY <1>1, <2>2 DEF InOp, Locks
    <3> QED BY <3>1, <3>2, DiskSound, Types
  <2> QED BY <2>1, <2>2
<1>4. TypeOK'
  <2>1. Idle \in Job
    BY DEF Idle, Job
  <2>2. my' \in [Proc -> Job] /\ pc' \in [Proc -> Label]
    BY <1>2, <2>1, Types DEF Label
  <2>3. logged' \in [Proc -> SUBSET LogBlock]
    BY <1>1, Types
  <2> QED BY <1>1, <1>3, <2>2, <2>3, Types DEF TypeOK
<1>5. \A q \in Proc \ {p} : Kept(q)
  BY <1>1, <1>2, OthersKept, Types
<1>6. logged'[p] = {} /\ pc'[p] \in {"user", "write"} /\ (pc'[p] = "user" => my'[p] = Idle)
  BY <1>1, <1>2, Types
<1>7. OtherOf(p)' /\ ~Locks(p) /\ ~Locks(p)'
  BY <1>1, <1>6 DEF OtherOf, Locks, At
<1>8. WriteOf(p)'
  <2>1. CASE my[p].left > 0
    <3>1. WriteOf(p) /\ Writes(p)
      BY <1>1, <2>1, Types DEF Writes, At
    <3> QED BY <1>1, <1>2, <2>1, <3>1 DEF WriteOf
  <2>2. CASE ~(my[p].left > 0)
    <3>1. pc'[p] = "user"
      BY <1>2, <2>2, Types
    <3> QED BY <3>1 DEF WriteOf, Writes, At
  <2> QED BY <2>1, <2>2
<1>9. OpenInv'
  BY <1>1, Types DEF OpenInv
<1> QED BY <1>1, <1>3, <1>4, <1>5, <1>7, <1>8, <1>9, SameFile, QuietInv

-----------------------------------------------------------------------------
(* Steps on one inode. *)

LEMMA InodeStepInv ==
    ASSUME FilesInv, NEW p \in Proc, NEW i \in Inum, TypeOK',
           \A q \in Proc \ {p} : Kept(q) /\ FileKept(q) /\ (Locks(q) => my[q].i # i),
           \A q \in Proc \ {p} : At(q, "trunc") => \A f \in FileId : file'[f].ip # my[q].i,
           \A j \in Inum \ {i} : Untouched(j),
           Locks(p) => my[p].i = i,
           Locks(p)' => my'[p].i = i,
           Blank(inode'[i]),
           ~Locks(p)' => inode'[i] = disk'.dinode[i] /\ Whole(disk', inode'[i]),
           OpenInv', Owns(disk'.used, Live'), Sound(durable'),
           WriteOf(p)', CopyOf(p)', TruncOf(p)', OtherOf(p)'
    PROVE  FilesInv'
<1> DEFINE S == {i}
<1>1. /\ S \in SUBSET Inum /\ i \in S
      /\ \A q \in Proc \ {p} : Locks(q) => my[q].i \notin S
      /\ \A j \in Inum \ S : Untouched(j)
      /\ \A j \in S : j = i
  OBVIOUS
<1> HIDE DEF S
<1> QED BY <1>1, StepInv

LEMMA WriteStartInv ==
    ASSUME FilesInv, NEW p \in Proc, WriteStart(p)
    PROVE  FilesInv'
<1> DEFINE i == my[p].i
           off == file[my[p].f].off
           n == Chunk(my[p].left)
<1>1. /\ pc[p] = "write" /\ ~Locked(i) /\ logged[p] = {}
      /\ disk' = disk /\ durable' = durable /\ inode' = inode /\ file' = file
      /\ logged' = logged
  BY Types DEF WriteStart, At, OtherOf
<1>2. /\ i \in Inum /\ off \in Nat /\ my[p].left \in Nat \ {0} /\ n \in Nat \ {0}
      /\ my[p].f \in FileId /\ file[my[p].f] # Closed /\ i = file[my[p].f].ip
  <2>1. WriteOf(p) /\ Writes(p)
    BY <1>1, Types DEF Writes
  <2>2. my[p].f \in FileId /\ my[p].left > 0 /\ file[my[p].f] # Closed /\ i = file[my[p].f].ip
    BY <2>1 DEF WriteOf
  <2>3. my[p].left \in Nat
    BY Types, JobIs
  <2> QED BY <2>2, <2>3, Types, FileIs, ChunkIs
<1>3. ~Locks(p)
  BY <1>1 DEF Locks
<1>4. OpenInv'
  BY <1>1, Types DEF OpenInv
<1>5. CASE off > inode[i].size \/ off + n > MAXFILE * BSIZE
  <2>1. my' = [my EXCEPT ![p] = Idle] /\ pc' = [pc EXCEPT ![p] = "user"]
    BY <1>5 DEF WriteStart, Goto
  <2>2. my'[p] = Idle /\ pc'[p] = "user" /\ logged'[p] = logged[p]
    BY <1>1, <2>1, Types
  <2>3. TypeOK'
    <3>1. Idle \in Job
      BY DEF Idle, Job
    <3> QED BY <1>1, <2>1, <3>1, Types DEF TypeOK, Label
  <2>4. \A q \in Proc \ {p} : Kept(q)
    BY <1>1, <2>1, OthersKept, Types
  <2>5. ~Locks(p)' /\ WriteOf(p)' /\ OtherOf(p)'
    BY <1>1, <2>2 DEF Locks, WriteOf, Writes, OtherOf, At
  <2> QED BY <1>1, <1>3, <1>4, <2>3, <2>4, <2>5, SameFile, Types, QuietInv
<1>6. CASE ~(off > inode[i].size \/ off + n > MAXFILE * BSIZE)
  <2> DEFINE m == [my[p] EXCEPT !.at = off, !.end = off + n]
  <2>1. my' = [my EXCEPT ![p] = m] /\ pc' = [pc EXCEPT ![p] = "copy"]
    BY <1>6, Types DEF WriteStart, Goto
  <2>2. /\ m \in Job /\ m.f = my[p].f /\ m.i = i /\ m.left = my[p].left
        /\ m.at = off /\ m.end = off + n
    <3>1. my[p] \in Job /\ off \in Nat /\ off + n \in Nat
      BY <1>2, Types, JobIs
    <3> HIDE DEF off, n
    <3> QED BY <3>1 DEF Job
  <2> HIDE DEF m
  <2>3. my'[p] = m /\ pc'[p] = "copy" /\ logged'[p] = {}
    BY <1>1, <2>1, Types
  <2>4. TypeOK'
    BY <1>1, <2>1, <2>2, Types DEF TypeOK, Label
  <2>5. \A q \in Proc \ {p} : Kept(q)
    BY <1>1, <2>1, OthersKept, Types
  <2>6. Locks(p)' /\ my'[p].i = i /\ ~At(p, "trunc")' /\ ~At(p, "trunc")
    BY <1>1, <2>2, <2>3 DEF Locks, At
  <2>7. Live' = Live
    BY <1>1, <2>5, <2>6, SameDisk, LiveSame
  <2>8. /\ Blank(inode[i]) /\ inode[i] = disk.dinode[i]
        /\ Full(Blks(disk, inode[i]), inode[i].size)
    BY <1>1, <1>2, Types DEF InodeInv, Whole
  <2>9. WriteOf(p)' /\ TruncOf(p)' /\ OtherOf(p)'
    BY <1>1, <1>2, <2>2, <2>3 DEF WriteOf, TruncOf, OtherOf, At
  <2>10. Copying(Blks(disk, inode[i]), inode[i], disk.dinode[i], m, off, {})
    <3> DEFINE bl == Blks(disk, inode[i])
    <3>1. off <= inode[i].size /\ off + n <= MAXFILE * BSIZE
      BY <1>2, <1>6, Types, InodeIs, Facts
    <3>2. ASSUME NEW k \in 0 .. MAXFILE - 1
          PROVE  /\ k * BSIZE < inode[i].size \/ k * BSIZE < m.at <=> k * BSIZE < inode[i].size
                 /\ bl[k] # 0 <=> k * BSIZE < inode[i].size
      <4>1. k * BSIZE \in Nat /\ inode[i].size \in Nat /\ m.at = off
        BY <1>2, <2>2, Types, InodeIs, Facts
      <4>2. bl[k] # 0 <=> k * BSIZE < inode[i].size
        BY <2>8 DEF Full
      <4> DEFINE w == k * BSIZE
      <4> HIDE DEF w
      <4>3. w \in Nat => (w < inode[i].size \/ w < m.at <=> w < inode[i].size)
        BY <1>2, <3>1, <4>1
      <4> QED BY <4>1, <4>2, <4>3 DEF w
    <3> HIDE DEF bl
    <3>3. /\ off <= m.at /\ m.at <= m.end /\ m.end = off + Chunk(m.left)
          /\ m.end <= MAXFILE * BSIZE
      BY <1>2, <2>2, <3>1
    <3> QED BY <2>8, <3>1, <3>2, <3>3 DEF Copying, bl
  <2>11. CopyOf(p)'
    BY <1>1, <1>2, <2>2, <2>3, <2>10 DEF CopyOf
  <2>12. \A q \in Proc : FileKept(q) /\ (Locks(q) => my[q].i # i)
    BY <1>1, SameFile, NobodyIn
  <2>13. Owns(disk'.used, Live') /\ Sound(durable')
    BY <1>1, <2>7, Types
  <2> QED BY <1>1, <1>2, <1>3, <1>4, <2>4, <2>5, <2>6, <2>8, <2>9, <2>11, <2>12, <2>13,
             SameDisk, SameFile, InodeStepInv
<1> QED BY <1>5, <1>6

\* iupdate()
LEMMA UpdateIs ==
    ASSUME TypeOK, NEW i \in Inum, inode' \in [Inum -> Inode], disk' = Update(i)
    PROVE  /\ disk' \in Disk /\ disk'.used = disk.used /\ disk'.data = disk.data
           /\ disk'.dinode[i] = inode'[i]
           /\ \A j \in Inum \ {i} : disk'.dinode[j] = disk.dinode[j]
BY DEF Update, TypeOK, Disk

\* A change of one inode that leaves its addresses.
LEMMA SameBlocks ==
    ASSUME NEW i \in Inum, inode'[i].addrs = inode[i].addrs, disk'.data = disk.data,
           \A j \in Inum \ {i} :
             inode'[j] = inode[j] /\ disk'.dinode[j] = disk.dinode[j]
    PROVE  /\ \A j \in Inum \ {i} : Untouched(j)
           /\ \A j \in Inum : Blks(disk', inode'[j]) = Blks(disk, inode[j])
<1>1. \A j \in Inum : inode'[j].addrs = inode[j].addrs
  OBVIOUS
<1>2. \A j \in Inum : Blks(disk', inode'[j]) = Blks(disk, inode[j])
  BY <1>1, BlksSame
<1> QED BY <1>2 DEF Untouched

\* An inode and the bitmap fit.
LEMMA SmallLog ==
    ASSUME NEW log, log \subseteq {BITMAP, IBLOCK}
    PROVE  Cardinality(log) <= MAXOPBLOCKS
<1>1. IsFiniteSet({BITMAP}) /\ Cardinality({BITMAP}) = 1
  BY FS_Singleton
<1>2. /\ IsFiniteSet({BITMAP} \cup {IBLOCK})
      /\ Cardinality({BITMAP} \cup {IBLOCK}) \in {1, 2}
  BY <1>1, FS_AddElement
<1>3. log \subseteq {BITMAP} \cup {IBLOCK}
  OBVIOUS
<1>4. Cardinality(log) <= 2 /\ Cardinality(log) \in Nat
  BY <1>2, <1>3, FS_Subset, FS_CardinalityType
<1> QED BY <1>4, Facts

\* iput() by a process that was in no call.
LEMMA IputIs ==
    ASSUME TypeOK, NEW p \in Proc, NEW i \in Inum, pc[p] = "user", my[p] = Idle,
           logged' \in [Proc -> SUBSET LogBlock], logged'[p] \subseteq {IBLOCK}, Iput(p, i)
    PROVE  /\ pc' \in [Proc -> Label] /\ my' \in [Proc -> Job]
           /\ \A q \in Proc \ {p} : pc'[q] = pc[q] /\ my'[q] = my[q]
           /\ Locks(p)' => my'[p].i = i
           /\ At(p, "trunc")' => my'[p].at = 0
           /\ WriteOf(p)' /\ CopyOf(p)' /\ TruncOf(p)' /\ OtherOf(p)'
<1> DEFINE m == [Idle EXCEPT !.i = i]
<1>1. m \in Job /\ Idle \in Job /\ m.i = i /\ m.at = 0 /\ m.left = 0 /\ Idle.left = 0
  BY DEF Idle, Job
<1>2. Cardinality(logged'[p]) <= MAXOPBLOCKS
  BY SmallLog
<1>3. CASE inode'[i].nlink = 0 /\ \A f \in FileId : file'[f].ip # i
  <2>1. pc' = [pc EXCEPT ![p] = "trunc"] /\ my' = [my EXCEPT ![p] = m]
    BY <1>3 DEF Iput, Goto
  <2> HIDE DEF m
  <2>2. pc' \in [Proc -> Label] /\ my' \in [Proc -> Job]
    BY <1>1, <2>1 DEF TypeOK, Label
  <2>3. pc'[p] = "trunc" /\ my'[p] = m
    BY <2>1 DEF TypeOK
  <2>4. \A q \in Proc \ {p} : pc'[q] = pc[q] /\ my'[q] = my[q]
    BY <2>1 DEF TypeOK
  <2>5. WriteOf(p)' /\ CopyOf(p)' /\ OtherOf(p)'
    BY <2>3 DEF WriteOf, Writes, CopyOf, OtherOf, At
  <2>6. TruncOf(p)'
    <3>1. my'[p].i = i /\ my'[p].left = 0 /\ my'[p].at = 0
      BY <1>1, <2>3
    <3> QED BY <1>3, <3>1, Facts DEF TruncOf
  <2> QED BY <1>1, <2>2, <2>3, <2>4, <2>5, <2>6
<1>4. CASE ~(inode'[i].nlink = 0 /\ \A f \in FileId : file'[f].ip # i)
  <2>1. pc' = [pc EXCEPT ![p] = "end"] /\ my' = my
    BY <1>4 DEF Iput, Goto
  <2>2. pc' \in [Proc -> Label] /\ my' \in [Proc -> Job]
    BY <2>1 DEF TypeOK, Label
  <2>3. pc'[p] = "end" /\ my'[p] = Idle
    BY <2>1 DEF TypeOK
  <2>4. \A q \in Proc \ {p} : pc'[q] = pc[q] /\ my'[q] = my[q]
    BY <2>1 DEF TypeOK
  <2>5. WriteOf(p)' /\ CopyOf(p)' /\ TruncOf(p)' /\ OtherOf(p)'
    BY <1>1, <1>2, <2>3 DEF WriteOf, Writes, CopyOf, TruncOf, OtherOf, At
  <2> QED BY <2>2, <2>3, <2>4, <2>5 DEF Locks, At
<1> QED BY <1>3, <1>4

LEMMA CloseInv ==
    ASSUME FilesInv, NEW p \in Proc, NEW f \in FileId, Close(p, f)
    PROVE  FilesInv'
<1> DEFINE i == file[f].ip
<1>1. /\ pc[p] = "user" /\ file[f] # Closed /\ ~Locked(i) /\ \A q \in Proc : my[q].f # f
      /\ file' = [file EXCEPT ![f] = Closed]
      /\ disk' = disk /\ durable' = durable /\ inode' = inode /\ logged' = logged
      /\ Iput(p, i)
  BY DEF Close, At
<1>2. i \in Inum /\ my[p] = Idle /\ logged[p] = {}
  BY <1>1, Types, FileIs DEF OtherOf, At
<1>3. /\ file'[f] = Closed /\ \A g \in FileId \ {f} : file'[g] = file[g]
      /\ file' \in [FileId -> File \cup {Closed}]
  BY <1>1, Types
<1> HIDE DEF i
<1>4. /\ pc' \in [Proc -> Label] /\ my' \in [Proc -> Job]
      /\ \A q \in Proc \ {p} : pc'[q] = pc[q] /\ my'[q] = my[q]
      /\ Locks(p)' => my'[p].i = i
      /\ At(p, "trunc")' => my'[p].at = 0
      /\ WriteOf(p)' /\ CopyOf(p)' /\ TruncOf(p)' /\ OtherOf(p)'
  BY <1>1, <1>2, Types, IputIs
<1>5. TypeOK'
  BY <1>1, <1>3, <1>4, Types DEF TypeOK
<1>6. \A q \in Proc \ {p} : Kept(q)
  BY <1>1, <1>4 DEF Kept
<1>7. \A q \in Proc : FileKept(q) /\ (Locks(q) => my[q].i # i)
  <2> SUFFICES ASSUME NEW q \in Proc, Writes(q) PROVE FileKept(q)
    BY <1>1, NobodyIn DEF FileKept, Writes, At
  <2> QED BY <1>1, <1>3, Types DEF FileKept, WriteOf
<1>8. \A q \in Proc : At(q, "trunc") => \A g \in FileId : file'[g].ip # my[q].i
  <2> SUFFICES ASSUME NEW q \in Proc, At(q, "trunc"), NEW g \in FileId
               PROVE  file'[g].ip # my[q].i
    OBVIOUS
  <2>1. my[q].i \in Inum
    BY Types DEF LockInv, Locks, At
  <2> QED BY <1>3, <2>1, Types, Facts DEF TruncOf, Closed
<1>9. ~Locks(p) /\ ~At(p, "trunc")
  BY <1>1 DEF Locks, At
<1>10. Live' = Live
  BY <1>1, <1>4, <1>6, <1>9, SameDisk, LiveSame
<1>11. Owns(disk'.used, Live') /\ Sound(durable')
  BY <1>1, <1>10, Types
<1>12. OpenInv'
  BY <1>1, <1>3, Types DEF OpenInv
<1>13. Blank(inode'[i]) /\ inode'[i] = disk'.dinode[i] /\ Whole(disk', inode'[i])
  BY <1>1, <1>2, Types DEF InodeInv
<1>14. \A j \in Inum : Untouched(j)
  BY <1>1, SameDisk
<1> QED BY <1>2, <1>4, <1>5, <1>6, <1>7, <1>8, <1>9, <1>11, <1>12, <1>13, <1>14, InodeStepInv

\* The log of a step that writes an inode.
LEMMA LogInode ==
    ASSUME FilesInv, NEW p \in Proc, logged[p] = {}, LogWrite(p, {IBLOCK})
    PROVE  /\ logged' \in [Proc -> SUBSET LogBlock] /\ logged'[p] = {IBLOCK}
           /\ \A q \in Proc \ {p} : logged'[q] = logged[q]
BY Types DEF LogWrite, LogBlock

LEMMA RemoveInv ==
    ASSUME FilesInv, NEW p \in Proc, NEW i \in Inum, Remove(p, i)
    PROVE  FilesInv'
<1>1. /\ pc[p] = "user" /\ inode[i].nlink > 0 /\ ~Locked(i)
      /\ inode' = [inode EXCEPT ![i].nlink = 0]
      /\ disk' = Update(i) /\ LogWrite(p, {IBLOCK})
      /\ durable' = durable /\ file' = file
      /\ Iput(p, i)
  BY DEF Remove, At
<1>2. my[p] = Idle /\ logged[p] = {}
  BY <1>1, Types DEF OtherOf, At
<1>3. /\ inode' \in [Inum -> Inode] /\ inode'[i] = [inode[i] EXCEPT !.nlink = 0]
      /\ \A j \in Inum \ {i} : inode'[j] = inode[j]
  <2> DEFINE ip == [inode[i] EXCEPT !.nlink = 0]
  <2>1. ip \in Inode
    BY Types, InodeIs DEF Inode
  <2>2. inode' = [inode EXCEPT ![i] = ip]
    BY <1>1, Types
  <2> HIDE DEF ip
  <2>3. inode' \in [Inum -> Inode] /\ inode'[i] = ip
    BY <2>1, <2>2, Types
  <2> QED BY <2>2, <2>3 DEF ip
<1>4. /\ inode'[i].addrs = inode[i].addrs /\ inode'[i].size = inode[i].size
      /\ inode'[i].type = inode[i].type
  BY <1>3, Types, InodeIs DEF Inode
<1>5. /\ disk' \in Disk /\ disk'.used = disk.used /\ disk'.data = disk.data
      /\ disk'.dinode[i] = inode'[i]
      /\ \A j \in Inum \ {i} : disk'.dinode[j] = disk.dinode[j]
  BY <1>1, <1>3, Types, UpdateIs
<1>6. /\ logged' \in [Proc -> SUBSET LogBlock] /\ logged'[p] = {IBLOCK}
      /\ \A q \in Proc \ {p} : logged'[q] = logged[q]
  BY <1>1, <1>2, LogInode
<1>7. /\ pc' \in [Proc -> Label] /\ my' \in [Proc -> Job]
      /\ \A q \in Proc \ {p} : pc'[q] = pc[q] /\ my'[q] = my[q]
      /\ Locks(p)' => my'[p].i = i
      /\ At(p, "trunc")' => my'[p].at = 0
      /\ WriteOf(p)' /\ CopyOf(p)' /\ TruncOf(p)' /\ OtherOf(p)'
  BY <1>1, <1>2, <1>6, Types, IputIs
<1>8. TypeOK'
  BY <1>1, <1>3, <1>5, <1>6, <1>7, Types DEF TypeOK
<1>9. \A q \in Proc \ {p} : Kept(q)
  BY <1>6, <1>7 DEF Kept
<1>10. \A q \in Proc : FileKept(q) /\ (Locks(q) => my[q].i # i)
  BY <1>1, SameFile, NobodyIn
<1>11. ~Locks(p) /\ ~At(p, "trunc")
  BY <1>1 DEF Locks, At
<1>12. /\ \A j \in Inum \ {i} : Untouched(j)
       /\ \A j \in Inum : Blks(disk', inode'[j]) = Blks(disk, inode[j])
  BY <1>3, <1>4, <1>5, SameBlocks
<1>13. Live' = Live
  BY <1>7, <1>9, <1>11, <1>12, LiveSame
<1>14. Owns(disk'.used, Live') /\ Sound(durable')
  BY <1>1, <1>5, <1>13, Types
<1>15. inode[i].type = "file"
  <2>1. Blank(inode[i])
    BY Types DEF InodeInv
  <2> QED BY <1>1, <2>1, Types, InodeIs DEF Blank, NoInode
<1>16. Blank(inode'[i])
  BY <1>4, <1>15 DEF Blank
<1>17. inode'[i] = disk'.dinode[i] /\ Whole(disk', inode'[i])
  <2>1. Whole(disk, inode[i])
    BY <1>1, Types DEF InodeInv
  <2> QED BY <1>4, <1>5, <1>12, <2>1 DEF Whole
<1>18. OpenInv'
  <2>1. \A j \in Inum : inode'[j].type = inode[j].type
    BY <1>3, <1>4
  <2> QED BY <1>1, <2>1, Types, FileIs DEF OpenInv
<1>19. \A q \in Proc : At(q, "trunc") => \A g \in FileId : file'[g].ip # my[q].i
  BY <1>1, SameFile
<1> QED BY <1>7, <1>8, <1>9, <1>10, <1>11, <1>12, <1>14, <1>16, <1>17, <1>18, <1>19,
           InodeStepInv

LEMMA CreateInv ==
    ASSUME FilesInv, NEW p \in Proc, NEW f \in FileId, NEW i \in Inum, Create(p, f, i)
    PROVE  FilesInv'
<1> DEFINE ip == [NoInode EXCEPT !.type = "file", !.nlink = 1]
           g == [ip |-> i, off |-> 0]
<1>1. /\ pc[p] = "user" /\ inode[i].type = "free" /\ ~Locked(i) /\ file[f] = Closed
      /\ inode' = [inode EXCEPT ![i] = ip]
      /\ disk' = Update(i) /\ LogWrite(p, {IBLOCK})
      /\ file' = [file EXCEPT ![f] = g]
      /\ pc' = [pc EXCEPT ![p] = "end"] /\ my' = my
      /\ durable' = durable
  BY DEF Create, Opened, Goto, At
<1>2. my[p] = Idle /\ logged[p] = {}
  BY <1>1, Types DEF OtherOf, At
<1>3. /\ ip \in Inode /\ ip.addrs = NoInode.addrs /\ ip.size = NoInode.size
      /\ ip.type = "file"
  <2>1. [k \in 0 .. NDIRECT |-> 0] \in [0 .. NDIRECT -> BlockNo]
    BY DEF BlockNo
  <2> QED BY <2>1 DEF NoInode, Inode
<1>4. inode[i] = NoInode
  BY <1>1, Types DEF InodeInv, Blank
<1> HIDE DEF ip
<1>5. /\ inode' \in [Inum -> Inode] /\ inode'[i] = ip
      /\ \A j \in Inum \ {i} : inode'[j] = inode[j]
  BY <1>1, <1>3, Types
<1>6. /\ disk' \in Disk /\ disk'.used = disk.used /\ disk'.data = disk.data
      /\ disk'.dinode[i] = inode'[i]
      /\ \A j \in Inum \ {i} : disk'.dinode[j] = disk.dinode[j]
  BY <1>1, <1>5, Types, UpdateIs
<1>7. /\ logged' \in [Proc -> SUBSET LogBlock] /\ logged'[p] = {IBLOCK}
      /\ \A q \in Proc \ {p} : logged'[q] = logged[q]
  BY <1>1, <1>2, LogInode
<1>8. g \in File /\ g.ip = i /\ g # Closed
  BY Facts DEF File, Closed
<1> HIDE DEF g
<1>9. /\ file'[f] = g /\ \A h \in FileId \ {f} : file'[h] = file[h]
      /\ file' \in [FileId -> File \cup {Closed}]
  BY <1>1, <1>8, Types
<1>10. pc' \in [Proc -> Label] /\ pc'[p] = "end"
  BY <1>1, Types DEF Label
<1>11. TypeOK'
  BY <1>1, <1>5, <1>6, <1>7, <1>9, <1>10, Types DEF TypeOK
<1>12. \A q \in Proc \ {p} : Kept(q)
  BY <1>1, <1>7, Types DEF Kept
<1>13. \A q \in Proc : FileKept(q) /\ (Locks(q) => my[q].i # i)
  <2> SUFFICES ASSUME NEW q \in Proc, Writes(q) PROVE FileKept(q)
    BY <1>1, NobodyIn DEF FileKept, Writes, At
  <2>1. my[q].f \in FileId /\ my[q].f # f /\ file[my[q].f] # Closed
    BY <1>1, Types DEF WriteOf
  <2> QED BY <1>9, <2>1 DEF FileKept
<1>14. \A q \in Proc : At(q, "trunc") => \A h \in FileId : file'[h].ip # my[q].i
  <2> SUFFICES ASSUME NEW q \in Proc, At(q, "trunc"), NEW h \in FileId
               PROVE  file'[h].ip # my[q].i
    OBVIOUS
  <2>1. my[q].i # i
    BY <1>13 DEF Locks, At
  <2> QED BY <1>8, <1>9, <2>1, Types DEF TruncOf
<1>15. ~Locks(p) /\ ~Locks(p)' /\ ~At(p, "trunc") /\ ~At(p, "trunc")'
  BY <1>1, <1>10 DEF Locks, At
<1>16. /\ \A j \in Inum \ {i} : Untouched(j)
       /\ \A j \in Inum : Blks(disk', inode'[j]) = Blks(disk, inode[j])
  BY <1>3, <1>4, <1>5, <1>6, SameBlocks
<1>17. Live' = Live
  BY <1>12, <1>15, <1>16, LiveSame
<1>18. Owns(disk'.used, Live') /\ Sound(durable')
  BY <1>1, <1>6, <1>17, Types
<1>19. Blank(inode'[i])
  BY <1>3, <1>5 DEF Blank
<1>20. inode'[i] = disk'.dinode[i] /\ Whole(disk', inode'[i])
  <2>1. Whole(disk, inode[i])
    BY <1>1, Types DEF InodeInv
  <2> QED BY <1>3, <1>4, <1>5, <1>6, <1>16, <2>1 DEF Whole
<1>21. OpenInv'
  <2> SUFFICES ASSUME NEW h \in FileId, file'[h] # Closed
               PROVE  inode'[file'[h].ip].type = "file"
    BY DEF OpenInv
  <2>1. CASE h = f
    BY <1>3, <1>5, <1>8, <1>9, <2>1
  <2>2. CASE h # f
    <3>1. file'[h] = file[h] /\ inode[file[h].ip].type = "file" /\ file[h].ip \in Inum
      BY <1>9, <2>2, Types, FileIs DEF OpenInv
    <3>2. file[h].ip # i
      BY <1>1, <3>1
    <3> QED BY <1>5, <3>1, <3>2
  <2> QED BY <2>1, <2>2
<1>22. WriteOf(p)' /\ CopyOf(p)' /\ TruncOf(p)'
  BY <1>1, <1>2, <1>10, <1>15 DEF WriteOf, Writes, CopyOf, TruncOf, At, Idle
<1>23. OtherOf(p)'
  BY <1>7, <1>10, SmallLog DEF OtherOf, At
<1> QED BY <1>11, <1>12, <1>13, <1>14, <1>15, <1>16, <1>18, <1>19, <1>20, <1>21, <1>22, <1>23,
           InodeStepInv

-----------------------------------------------------------------------------
(* The end of a write. *)

LEMMA ImageCount ==
    ASSUME NEW S, IsFiniteSet(S), NEW f
    PROVE  IsFiniteSet({f[x] : x \in S}) /\ Cardinality({f[x] : x \in S}) <= Cardinality(S)
<1> DEFINE T == {f[x] : x \in S}
           g == [x \in S |-> f[x]]
<1>1. g \in [S -> T] /\ \A t \in T : \E x \in S : g[x] = t
  OBVIOUS
<1> HIDE DEF g, T
<1>2. g \in Surjection(S, T)
  BY <1>1 DEF Surjection
<1>3. IsFiniteSet(T) /\ Cardinality(T) <= Cardinality(S)
  BY <1>2, FS_Surjection
<1> QED BY <1>3 DEF T

LEMMA AddOne ==
    ASSUME NEW S, IsFiniteSet(S), NEW x
    PROVE  /\ IsFiniteSet(S \cup {x}) /\ Cardinality(S) \in Nat /\ Cardinality(S \cup {x}) \in Nat
           /\ Cardinality(S \cup {x}) <= Cardinality(S) + 1
<1>1. IsFiniteSet(S \cup {x}) /\ Cardinality(S) \in Nat
  BY FS_AddElement, FS_CardinalityType
<1>2. Cardinality(S \cup {x}) = IF x \in S THEN Cardinality(S) ELSE Cardinality(S) + 1
  BY FS_AddElement
<1> QED BY <1>1, <1>2

LEMMA SpanCount ==
    ASSUME NEW a \in Nat, NEW e \in Nat
    PROVE  /\ IsFiniteSet(a .. e) /\ Cardinality(a .. e) \in Nat
           /\ \A h \in Nat : e <= a + h => Cardinality(a .. e) <= h + 1
<1>1. a \in Int /\ e \in Int
  OBVIOUS
<1>2. IsFiniteSet(a .. e) /\ Cardinality(a .. e) = IF a > e THEN 0 ELSE e - a + 1
  BY <1>1, FS_Interval
<1> QED BY <1>2

\* What a piece of a write has in the log fits, with the inode: the bitmap, the
\* indirect block, and half a transaction of data and one block more.
LEMMA PieceFits ==
    ASSUME NEW bl, NEW ip, NEW dip, NEW m, NEW off \in Nat, NEW log,
           m.left \in Nat \ {0}, m.end \in Nat,
           Copying(bl, ip, dip, m, off, log)
    PROVE  Cardinality(log \cup {IBLOCK}) <= MAXOPBLOCKS /\ Cardinality(log) <= MAXOPBLOCKS
<1> DEFINE h == (MAXOPBLOCKS - 4) \div 2
           a == off \div BSIZE
           e == (m.end - 1) \div BSIZE
           T == {bl[k] : k \in a .. e}
           U == ((T \cup {bl[MAXFILE]}) \cup {BITMAP}) \cup {IBLOCK}
<1>1. m.end = off + Chunk(m.left) /\ Chunk(m.left) \in 1 .. m.left
  BY ChunkIs DEF Copying
<1>2. e <= a + h /\ a \in Nat /\ h \in Nat
  BY <1>1, PieceSpans, DivMod, Facts
<1>3. e \in Nat
  <2>1. m.end - 1 \in Nat
    BY <1>1
  <2> QED BY <2>1, DivMod
<1>4. h + 4 <= MAXOPBLOCKS
  BY Facts
<1> HIDE DEF h, a, e
<1>5. IsFiniteSet(a .. e) /\ Cardinality(a .. e) <= h + 1
  BY <1>2, <1>3, SpanCount
<1>6. IsFiniteSet(T) /\ Cardinality(T) \in Nat /\ Cardinality(T) <= h + 1
  <2>1. IsFiniteSet(T) /\ Cardinality(T) <= Cardinality(a .. e)
    BY <1>5, ImageCount
  <2>2. Cardinality(T) \in Nat /\ Cardinality(a .. e) \in Nat
    BY <1>5, <2>1, FS_CardinalityType
  <2> QED BY <1>2, <1>5, <2>1, <2>2
<1>7. \A b \in log : b = BITMAP \/ b = bl[MAXFILE] \/ \E k \in a .. e : b = bl[k]
  BY DEF Copying, Span, a, e
<1>8. log \cup {IBLOCK} \subseteq U /\ log \subseteq U
  BY <1>7
<1> HIDE DEF T
<1>9. IsFiniteSet(U) /\ Cardinality(U) \in Nat /\ Cardinality(U) <= h + 4
  <2> DEFINE V == T \cup {bl[MAXFILE]}
             W == V \cup {BITMAP}
  <2>1. IsFiniteSet(V) /\ Cardinality(V) \in Nat /\ Cardinality(V) <= Cardinality(T) + 1
    BY <1>6, AddOne
  <2>2. U = W \cup {IBLOCK}
    OBVIOUS
  <2> HIDE DEF V, U
  <2>3. IsFiniteSet(W) /\ Cardinality(W) \in Nat /\ Cardinality(W) <= Cardinality(V) + 1
    BY <2>1, AddOne
  <2> HIDE DEF W
  <2>4. IsFiniteSet(U) /\ Cardinality(U) \in Nat /\ Cardinality(U) <= Cardinality(W) + 1
    BY <2>2, <2>3, AddOne
  <2> QED BY <1>2, <1>6, <2>1, <2>3, <2>4
<1> HIDE DEF U
<1>10. \A S : S \subseteq U => Cardinality(S) \in Nat /\ Cardinality(S) <= Cardinality(U)
  BY <1>9, FS_Subset, FS_CardinalityType
<1>11. /\ Cardinality(log \cup {IBLOCK}) \in Nat /\ Cardinality(log \cup {IBLOCK}) <= Cardinality(U)
       /\ Cardinality(log) \in Nat /\ Cardinality(log) <= Cardinality(U)
  BY <1>8, <1>10
<1> QED BY <1>2, <1>4, <1>9, <1>11, Facts

\* A file is whole when the piece is.
LEMMA PieceWhole ==
    ASSUME NEW bl, NEW ip, NEW dip, NEW m, NEW off \in Nat, NEW log,
           ip.size \in Nat, m.end \in Nat, m.at = m.end,
           Copying(bl, ip, dip, m, off, log)
    PROVE  /\ m.end > ip.size => Full(bl, m.end)
           /\ ~(m.end > ip.size) => Full(bl, ip.size) /\ ip = dip
<1>1. ASSUME NEW k \in 0 .. MAXFILE - 1
      PROVE  /\ k * BSIZE < ip.size \/ k * BSIZE < m.end => bl[k] # 0
             /\ bl[k] # 0 => k * BSIZE < ip.size \/ k * BSIZE < m.end
             /\ k * BSIZE \in Nat
  <2>1. /\ k * BSIZE < ip.size \/ k * BSIZE < m.at => bl[k] # 0
        /\ bl[k] # 0 => \/ k * BSIZE < ip.size \/ k * BSIZE < m.at
                        \/ k = m.at \div BSIZE /\ m.at < m.end
    BY DEF Copying
  <2>2. k * BSIZE \in Nat
    BY Facts
  <2> QED BY <2>1, <2>2
<1>2. \A w \in Nat : /\ m.end > ip.size => (w < ip.size \/ w < m.end <=> w < m.end)
                     /\ ~(m.end > ip.size) => (w < ip.size \/ w < m.end <=> w < ip.size)
  OBVIOUS
<1>3. ASSUME NEW k \in 0 .. MAXFILE - 1
      PROVE  /\ m.end > ip.size => (bl[k] # 0 <=> k * BSIZE < m.end)
             /\ ~(m.end > ip.size) => (bl[k] # 0 <=> k * BSIZE < ip.size)
  BY <1>1, <1>2
<1>4. m.end <= ip.size => ip = dip
  BY DEF Copying
<1> QED BY <1>3, <1>4 DEF Full

LEMMA WriteEndInv ==
    ASSUME FilesInv, NEW p \in Proc, WriteEnd(p)
    PROVE  FilesInv'
<1> DEFINE i == my[p].i
           f == my[p].f
           end == my[p].end
           ip == IF end > inode[i].size THEN [inode[i] EXCEPT !.size = end] ELSE inode[i]
           left == my[p].left - Chunk(my[p].left)
           m == [Idle EXCEPT !.f = f, !.i = i, !.left = left]
           g == [file[f] EXCEPT !.off = end]
           bl == Blks(disk, inode[i])
<1>1. /\ pc[p] = "copy" /\ my[p].at = end
      /\ inode' = IF end > inode[i].size THEN [inode EXCEPT ![i].size = end] ELSE inode
      /\ disk' = IF end > inode[i].size THEN Update(i) ELSE disk
      /\ LogWrite(p, IF end > inode[i].size THEN {IBLOCK} ELSE {})
      /\ file' = [file EXCEPT ![f].off = end]
      /\ my' = [my EXCEPT ![p] = m] /\ pc' = [pc EXCEPT ![p] = "end"]
      /\ durable' = durable
  BY DEF WriteEnd, Goto, At
<1>2. /\ i \in Inum /\ f \in FileId /\ file[f] # Closed /\ i = file[f].ip
      /\ my[p].left \in Nat \ {0} /\ end \in Nat /\ my[p] \in Job
  <2>1. WriteOf(p) /\ Writes(p)
    BY <1>1, Types DEF Writes
  <2> QED BY <2>1, Types, JobIs, FileIs DEF WriteOf
<1>3. file[f] \in File /\ file[f].off \in Nat /\ inode[i] \in Inode /\ inode[i].size \in Nat
  BY <1>2, Types, FileIs, InodeIs
<1>4. Copying(bl, inode[i], disk.dinode[i], my[p], file[f].off, logged[p])
  BY <1>1, Types DEF CopyOf, At
<1>5. left \in Nat
  BY <1>2, ChunkIs
<1>6. m \in Job /\ m.f = f /\ m.i = i /\ m.left = left
  <2> HIDE DEF left
  <2> QED BY <1>2, <1>5 DEF Job, Idle
<1>7. g \in File /\ g.ip = i /\ g # Closed
  <2>1. g \in File /\ g.ip = i
    BY <1>2, <1>3 DEF File
  <2> QED BY <1>2, <2>1, Facts DEF Closed
<1>8. file' = [file EXCEPT ![f] = g]
  BY <1>1
<1>9. /\ ip \in Inode /\ ip.addrs = inode[i].addrs /\ ip.type = inode[i].type
      /\ ip.size = IF end > inode[i].size THEN end ELSE inode[i].size
  <2>1. [inode[i] EXCEPT !.size = end] \in Inode
    BY <1>2, <1>3 DEF Inode
  <2>2. /\ [inode[i] EXCEPT !.size = end].addrs = inode[i].addrs
        /\ [inode[i] EXCEPT !.size = end].type = inode[i].type
        /\ [inode[i] EXCEPT !.size = end].size = end
    BY <1>3 DEF Inode
  <2> QED BY <1>3, <2>1, <2>2
<1>10. inode' = [inode EXCEPT ![i] = ip]
  <2>1. inode = [inode EXCEPT ![i] = inode[i]]
    BY Types
  <2> QED BY <1>1, <2>1
<1> HIDE DEF m, g, ip, left
<1>11. /\ inode' \in [Inum -> Inode] /\ inode'[i] = ip
       /\ \A j \in Inum \ {i} : inode'[j] = inode[j]
  BY <1>2, <1>9, <1>10, Types
<1>12. /\ disk' \in Disk /\ disk'.used = disk.used /\ disk'.data = disk.data
       /\ disk'.dinode[i] = IF end > inode[i].size THEN ip ELSE disk.dinode[i]
       /\ \A j \in Inum \ {i} : disk'.dinode[j] = disk.dinode[j]
  <2>1. CASE end > inode[i].size
    <3>1. disk' = Update(i)
      BY <1>1, <2>1
    <3> QED BY <1>2, <1>11, <2>1, <3>1, Types, UpdateIs
  <2>2. CASE ~(end > inode[i].size)
    BY <1>1, <2>2, Types
  <2> QED BY <2>1, <2>2
<1>13. /\ logged' \in [Proc -> SUBSET LogBlock]
       /\ \A q \in Proc \ {p} : logged'[q] = logged[q]
       /\ logged'[p] = logged[p] \cup {IBLOCK} \/ logged'[p] = logged[p]
  BY <1>1, Types DEF LogWrite, LogBlock
<1>14. /\ file'[f] = g /\ \A h \in FileId \ {f} : file'[h] = file[h]
       /\ file' \in [FileId -> File \cup {Closed}]
  BY <1>2, <1>7, <1>8, Types
<1>15. /\ pc' \in [Proc -> Label] /\ pc'[p] = "end" /\ my' \in [Proc -> Job] /\ my'[p] = m
       /\ \A q \in Proc \ {p} : pc'[q] = pc[q] /\ my'[q] = my[q]
  BY <1>1, <1>6, Types DEF Label
<1>16. TypeOK'
  BY <1>1, <1>11, <1>12, <1>13, <1>14, <1>15, Types DEF TypeOK
<1>17. \A q \in Proc \ {p} : Kept(q)
  BY <1>13, <1>15 DEF Kept
<1>18. \A q \in Proc \ {p} : Locks(q) => my[q].i # i
  BY <1>1, Types DEF LockInv, Locks
<1>19. \A q \in Proc \ {p} : FileKept(q)
  <2> SUFFICES ASSUME NEW q \in Proc \ {p}, Writes(q) PROVE FileKept(q)
    BY DEF FileKept, Writes, At
  <2>1. /\ my[q].f \in FileId /\ file[my[q].f] # Closed /\ my[q].i = file[my[q].f].ip
    BY Types DEF WriteOf
  <2>2. At(q, "copy") => my[q].f # f
    BY <1>2, <1>18, <2>1 DEF Locks, At
  <2>3. file'[my[q].f] # Closed /\ file'[my[q].f].ip = file[my[q].f].ip
    BY <1>2, <1>7, <1>14, <2>1
  <2> QED BY <1>14, <2>1, <2>2, <2>3 DEF FileKept
<1>20. \A q \in Proc : At(q, "trunc") => \A h \in FileId : file'[h].ip # my[q].i
  <2>1. \A h \in FileId : file'[h].ip = file[h].ip
    BY <1>2, <1>7, <1>14
  <2> QED BY <2>1, Types DEF TruncOf
<1>21. Locks(p) /\ ~Locks(p)' /\ ~At(p, "trunc") /\ ~At(p, "trunc")'
  BY <1>1, <1>15 DEF Locks, At
<1>22. /\ \A j \in Inum \ {i} : Untouched(j)
       /\ \A j \in Inum : Blks(disk', inode'[j]) = Blks(disk, inode[j])
  BY <1>2, <1>9, <1>11, <1>12, SameBlocks
<1>23. Live' = Live
  BY <1>17, <1>21, <1>22, LiveSame
<1>24. Owns(disk'.used, Live') /\ Sound(durable')
  BY <1>1, <1>12, <1>23, Types
<1>25. inode[i].type = "file"
  BY <1>2, Types DEF OpenInv
<1>26. Blank(inode'[i])
  BY <1>9, <1>11, <1>25 DEF Blank
<1>27. inode'[i] = disk'.dinode[i] /\ Whole(disk', inode'[i])
  <2>1. /\ end > inode[i].size => Full(bl, end)
        /\ ~(end > inode[i].size) => Full(bl, inode[i].size) /\ inode[i] = disk.dinode[i]
    <3>1. /\ my[p].at = my[p].end /\ my[p].end \in Nat /\ inode[i].size \in Nat
          /\ file[f].off \in Nat
      BY <1>1, <1>2, <1>3
    <3> HIDE DEF bl, i
    <3> DEFINE w == my[p]
               off == file[f].off
               ip0 == inode[i]
               dp0 == disk.dinode[i]
    <3>2. w.at = w.end /\ w.end \in Nat /\ ip0.size \in Nat /\ off \in Nat
      BY <3>1
    <3>3. Copying(bl, ip0, dp0, w, off, logged[p])
      BY <1>4
    <3> HIDE DEF w, off, ip0, dp0
    <3>4. /\ w.end > ip0.size => Full(bl, w.end)
          /\ ~(w.end > ip0.size) => Full(bl, ip0.size) /\ ip0 = dp0
      BY <3>2, <3>3, PieceWhole
    <3> QED BY <3>4 DEF w, ip0, dp0
  <2>2. Blks(disk', inode'[i]) = bl
    BY <1>2, <1>22
  <2> QED BY <1>9, <1>11, <1>12, <2>1, <2>2 DEF Whole, ip
<1>28. OpenInv'
  <2>1. \A j \in Inum : inode'[j].type = inode[j].type
    BY <1>9, <1>11
  <2>2. \A h \in FileId : file'[h] # Closed => file[h] # Closed /\ file'[h].ip = file[h].ip
    BY <1>2, <1>7, <1>14
  <2> QED BY <2>1, <2>2, Types, FileIs DEF OpenInv
<1>29. WriteOf(p)'
  BY <1>2, <1>6, <1>7, <1>14, <1>15 DEF WriteOf, Writes, At
<1>30. CopyOf(p)' /\ TruncOf(p)'
  BY <1>15 DEF CopyOf, TruncOf, At
<1>31. OtherOf(p)'
  <2>1. Cardinality(logged[p] \cup {IBLOCK}) <= MAXOPBLOCKS /\ Cardinality(logged[p]) <= MAXOPBLOCKS
    BY <1>2, <1>3, <1>4, PieceFits
  <2>2. Cardinality(logged'[p]) <= MAXOPBLOCKS
    BY <1>13, <2>1
  <2> QED BY <1>15, <2>2 DEF OtherOf, At
<1> QED BY <1>2, <1>16, <1>17, <1>18, <1>19, <1>20, <1>21, <1>22, <1>24, <1>26, <1>27, <1>28,
           <1>29, <1>30, <1>31, InodeStepInv

-----------------------------------------------------------------------------
(* itrunc() *)

LEMMA LeastOf == ASSUME NEW S \in SUBSET Nat, S # {} PROVE Min(S) \in S /\ \A y \in S : Min(S) <= y
<1>1. PICK x \in S : \A y \in S : <<y, x>> \notin OpToRel(<, Nat)
  BY NatLessThanWellFounded, WFMin
<1>2. \A y \in S : ~(y < x)
  BY <1>1 DEF OpToRel
<1>3. \A y \in S : x <= y
  BY <1>2
<1> QED BY <1>3 DEF Min

\* Where itrunc() is, and what it frees there: no block is left before.
NextAt(p) == IF Present(p) # {} THEN Min(Present(p)) ELSE MAXFILE

LEMMA VictimIs ==
    ASSUME FilesInv, NEW p \in Proc, At(p, "trunc")
    PROVE  LET i == my[p].i
               k == NextAt(p)
               bl == Blks(disk, inode[i])
           IN  /\ i \in Inum /\ k \in 0 .. MAXFILE
               /\ Victim(p) = bl[k]
               /\ k # MAXFILE => bl[k] # 0
               /\ \A j \in my[p].at .. k - 1 : bl[j] = 0
               /\ my[p].at <= k \/ bl[k] = 0
<1> DEFINE i == my[p].i
           k == NextAt(p)
           bl == Blks(disk, inode[i])
<1>1. i \in Inum /\ my[p].at \in Nat /\ my[p].at <= MAXFILE + 1
  BY Types, JobIs DEF LockInv, Locks, TruncOf, At
<1>2. \A j \in 0 .. MAXFILE - 1 : bl[j] = BlockAt(disk, inode[i], j)
  BY Facts DEF Blks, Blk
<1>3. bl[MAXFILE] = inode[i].addrs[NDIRECT]
  BY Facts DEF Blks, Blk
<1>4. Present(p) = {j \in my[p].at .. MAXFILE - 1 : bl[j] # 0}
  BY <1>1, <1>2, Facts DEF Present
<1>5. CASE Present(p) # {}
  <2>1. Present(p) \in SUBSET Nat
    BY <1>1, <1>4, Facts
  <2>2. k \in Present(p) /\ \A j \in Present(p) : k <= j
    BY <1>5, <2>1, LeastOf DEF NextAt
  <2>3. k \in my[p].at .. MAXFILE - 1 /\ bl[k] # 0
    BY <1>4, <2>2
  <2>4. \A j \in my[p].at .. k - 1 : bl[j] = 0
    BY <1>1, <1>4, <2>2, <2>3, Facts
  <2>5. Victim(p) = bl[k]
    BY <1>1, <1>2, <1>5, <2>3, Facts DEF Victim, NextAt
  <2> QED BY <1>1, <2>3, <2>4, <2>5, Facts
<1>6. CASE Present(p) = {}
  <2>1. k = MAXFILE /\ Victim(p) = bl[MAXFILE]
    BY <1>3, <1>6 DEF Victim, NextAt
  <2>2. my[p].at <= MAXFILE \/ bl[MAXFILE] = 0
    BY <1>1, <1>3, Types, Facts DEF TruncOf
  <2> QED BY <1>1, <1>4, <1>6, <2>1, <2>2, Facts
<1> QED BY <1>5, <1>6

LEMMA NoBlks ==
    ASSUME NEW d
    PROVE  /\ \A k \in 0 .. MAXFILE : Blks(d, NoInode)[k] = 0
           /\ Whole(d, NoInode) /\ Blank(NoInode) /\ NoInode \in Inode
<1>1. NoInode.addrs = [k \in 0 .. NDIRECT |-> 0] /\ NoInode.size = 0
  BY DEF NoInode
<1>2. \A k \in 0 .. NDIRECT : NoInode.addrs[k] = 0
  BY <1>1
<1>3. \A k \in 0 .. MAXFILE : Blks(d, NoInode)[k] = 0
  BY <1>2, BlksAre, Facts
<1>4. \A k \in 0 .. MAXFILE - 1 : ~(k * BSIZE < 0)
  <2> SUFFICES ASSUME NEW k \in 0 .. MAXFILE - 1 PROVE ~(k * BSIZE < 0)
    OBVIOUS
  <2>1. k * BSIZE \in Nat
    BY Facts
  <2> QED BY <2>1
<1>5. Whole(d, NoInode)
  <2>1. \A k \in 0 .. MAXFILE - 1 : k \in 0 .. MAXFILE
    BY Facts
  <2> QED BY <1>1, <1>3, <1>4, <2>1 DEF Whole, Full
<1>6. NoInode \in Inode
  <2>1. [k \in 0 .. NDIRECT |-> 0] \in [0 .. NDIRECT -> BlockNo]
    BY DEF BlockNo
  <2> QED BY <2>1 DEF NoInode, Inode
<1> QED BY <1>3, <1>5, <1>6 DEF Blank

\* Which blocks itrunc() has freed is its own matter.
LEMMA GoneElse ==
    ASSUME NEW p \in Proc, \A q \in Proc \ {p} : Kept(q),
           NEW j, NEW k, my[p].i # j, my'[p].i # j
    PROVE  Gone(j, k)' <=> Gone(j, k)
<1>1. \A q \in Proc \ {p} : (At(q, "trunc")' <=> At(q, "trunc")) /\ my'[q] = my[q]
  BY DEF Kept, At
<1> QED BY <1>1 DEF Gone

LEMMA GoneMine ==
    ASSUME NEW p \in Proc, \A q \in Proc \ {p} : Kept(q),
           NEW i, NEW k, \A q \in Proc \ {p} : Locks(q) => my[q].i # i
    PROVE  /\ Gone(i, k) <=> At(p, "trunc") /\ my[p].i = i /\ k < my[p].at
           /\ Gone(i, k)' <=> At(p, "trunc")' /\ my'[p].i = i /\ k < my'[p].at
<1>1. \A q \in Proc \ {p} : /\ At(q, "trunc")' <=> At(q, "trunc")
                            /\ my'[q] = my[q]
                            /\ At(q, "trunc") => my[q].i # i
  BY DEF Kept, At, Locks
<1> QED BY <1>1 DEF Gone

LEMMA TruncEndInv ==
    ASSUME FilesInv, NEW p \in Proc, TruncEnd(p)
    PROVE  FilesInv'
<1> DEFINE i == my[p].i
           bl == Blks(disk, inode[i])
<1>1. /\ pc[p] = "trunc" /\ Victim(p) = 0
      /\ inode' = [inode EXCEPT ![i] = NoInode] /\ disk' = Update(i)
      /\ my' = [my EXCEPT ![p] = Idle] /\ LogWrite(p, {IBLOCK})
      /\ pc' = [pc EXCEPT ![p] = "end"]
      /\ durable' = durable /\ file' = file
  BY DEF TruncEnd, Goto, At
<1>2. i \in Inum
  BY <1>1, Types DEF LockInv, Locks
<1>3. /\ inode' \in [Inum -> Inode] /\ inode'[i] = NoInode
      /\ \A j \in Inum \ {i} : inode'[j] = inode[j]
  BY <1>1, <1>2, NoBlks, Types
<1>4. /\ disk' \in Disk /\ disk'.used = disk.used /\ disk'.data = disk.data
      /\ disk'.dinode[i] = inode'[i]
      /\ \A j \in Inum \ {i} : disk'.dinode[j] = disk.dinode[j]
  BY <1>1, <1>2, <1>3, Types, UpdateIs
<1>5. /\ logged' \in [Proc -> SUBSET LogBlock] /\ logged'[p] = logged[p] \cup {IBLOCK}
      /\ \A q \in Proc \ {p} : logged'[q] = logged[q]
  BY <1>1, Types DEF LogWrite, LogBlock
<1>6. /\ pc' \in [Proc -> Label] /\ pc'[p] = "end" /\ my' \in [Proc -> Job] /\ my'[p] = Idle
      /\ \A q \in Proc \ {p} : pc'[q] = pc[q] /\ my'[q] = my[q]
  <2>1. Idle \in Job
    BY DEF Idle, Job
  <2> QED BY <1>1, <2>1, Types DEF Label
<1>7. TypeOK'
  BY <1>1, <1>3, <1>4, <1>5, <1>6, Types DEF TypeOK
<1>8. \A q \in Proc \ {p} : Kept(q)
  BY <1>5, <1>6 DEF Kept
<1>9. Locks(p) /\ ~Locks(p)' /\ At(p, "trunc") /\ ~At(p, "trunc")'
  BY <1>1, <1>6 DEF Locks, At
<1>10. \A q \in Proc \ {p} : Locks(q) => my[q].i # i
  BY <1>9, Types DEF LockInv
<1>11. \A j \in Inum \ {i} : Untouched(j)
  BY <1>3, <1>4, BlksSame DEF Untouched
<1>12. Live' = Live
  <2>1. \A k \in my[p].at .. MAXFILE : bl[k] = 0
    <3>1. /\ NextAt(p) \in 0 .. MAXFILE /\ Victim(p) = bl[NextAt(p)]
          /\ NextAt(p) # MAXFILE => bl[NextAt(p)] # 0
          /\ \A j \in my[p].at .. NextAt(p) - 1 : bl[j] = 0
      BY <1>9, VictimIs
    <3>2. NextAt(p) = MAXFILE /\ bl[MAXFILE] = 0
      BY <1>1, <3>1
    <3> QED BY <3>1, <3>2, Types, JobIs, Facts
  <2>2. ASSUME NEW j \in Inum, NEW k \in 0 .. MAXFILE
        PROVE  Live'[<<j, k>>] = Live[<<j, k>>]
    <3>1. CASE j # i
      <4>1. Gone(j, k)' <=> Gone(j, k)
        BY <1>2, <1>6, <1>8, <3>1, GoneElse, Facts DEF Idle
      <4>2. Blks(disk', inode'[j]) = Blks(disk, inode[j])
        BY <1>11, <3>1 DEF Untouched
      <4> QED BY <4>1, <4>2, LiveIs
    <3>2. CASE j = i
      <4>1. (Gone(j, k) <=> k < my[p].at) /\ ~Gone(j, k)'
        BY <1>8, <1>9, <1>10, <3>2, GoneMine
      <4>2. Live'[<<j, k>>] = 0
        BY <1>3, <3>2, <4>1, NoBlks, LiveIs
      <4>3. Live[<<j, k>>] = 0
        <5>1. k < my[p].at \/ k \in my[p].at .. MAXFILE
          BY Types, JobIs, Facts
        <5> QED BY <2>1, <3>2, <4>1, <5>1, LiveIs
      <4> QED BY <4>2, <4>3
    <3> QED BY <3>1, <3>2
  <2>3. \A x \in Place : Live'[x] = Live[x]
    BY <2>2, LiveIs
  <2> QED BY <2>3 DEF Live
<1>13. Owns(disk'.used, Live') /\ Sound(durable')
  BY <1>1, <1>4, <1>12, Types
<1>14. Blank(inode'[i]) /\ inode'[i] = disk'.dinode[i] /\ Whole(disk', inode'[i])
  BY <1>3, <1>4, NoBlks
<1>15. OpenInv'
  <2>1. \A f \in FileId : file[f].ip # i
    BY <1>9, Types DEF TruncOf
  <2> QED BY <1>1, <1>3, <2>1, Types, FileIs DEF OpenInv
<1>16. WriteOf(p)' /\ CopyOf(p)' /\ TruncOf(p)'
  BY <1>6, <1>9 DEF WriteOf, Writes, CopyOf, TruncOf, At, Idle
<1>17. OtherOf(p)'
  <2>1. logged'[p] \subseteq {BITMAP, IBLOCK}
    BY <1>5, <1>9, Types DEF TruncOf
  <2>2. Cardinality(logged'[p]) <= MAXOPBLOCKS
    BY <2>1, SmallLog
  <2> QED BY <1>6, <2>2 DEF OtherOf, At
<1>18. /\ \A q \in Proc : FileKept(q)
       /\ \A q \in Proc : At(q, "trunc") => \A f \in FileId : file'[f].ip # my[q].i
  BY <1>1, SameFile
<1> QED BY <1>2, <1>7, <1>8, <1>9, <1>10, <1>11, <1>13, <1>14, <1>15, <1>16, <1>17, <1>18,
           InodeStepInv

WithAddr(ip, n, b) == [ip EXCEPT !.addrs[n] = b]

LEMMA AddrSet ==
    ASSUME NEW ip \in Inode, NEW n \in 0 .. NDIRECT, NEW b \in BlockNo
    PROVE  LET jp == WithAddr(ip, n, b)
           IN  /\ jp \in Inode /\ jp.type = ip.type /\ jp.nlink = ip.nlink /\ jp.size = ip.size
               /\ jp.addrs[n] = b
               /\ \A k \in 0 .. NDIRECT : k # n => jp.addrs[k] = ip.addrs[k]
BY DEF Inode, WithAddr

\* The indirect block of an inode is in use, and not one of another inode.
LEMMA IndirectUsed ==
    ASSUME FilesInv, NEW j \in Inum, inode[j].addrs[NDIRECT] # 0
    PROVE  /\ inode[j].addrs[NDIRECT] \in disk.used
           /\ <<j, MAXFILE>> \in Place
           /\ Live[<<j, MAXFILE>>] = inode[j].addrs[NDIRECT]
<1>1. MAXFILE \in 0 .. MAXFILE
  BY Facts
<1>2. ~Gone(j, MAXFILE)
  BY Types DEF Gone, TruncOf
<1>3. Live[<<j, MAXFILE>>] = inode[j].addrs[NDIRECT] /\ <<j, MAXFILE>> \in Place
  BY <1>1, <1>2, BlksAre, LiveIs
<1> QED BY <1>3, Types DEF Owns

LEMMA BfreeInv ==
    ASSUME FilesInv, NEW p \in Proc, Bfree(p)
    PROVE  FilesInv'
<1> DEFINE i == my[p].i
           k == NextAt(p)
           v == Victim(p)
           bl == Blks(disk, inode[i])
           m == [my[p] EXCEPT !.at = k + 1]
           ip == inode'[i]
<1>1. /\ pc[p] = "trunc" /\ v \in disk.used
      /\ disk' = [disk EXCEPT !.used = @ \ {v}]
      /\ inode' = IF k < NDIRECT THEN [inode EXCEPT ![i].addrs[k] = 0]
                  ELSE IF k = MAXFILE THEN [inode EXCEPT ![i].addrs[NDIRECT] = 0]
                  ELSE inode
      /\ my' = [my EXCEPT ![p].at = k + 1] /\ LogWrite(p, {BITMAP})
      /\ durable' = durable /\ file' = file /\ pc' = pc
  BY DEF Bfree, NextAt, At
<1>2. /\ Locks(p) /\ At(p, "trunc") /\ my[p].at \in Nat /\ my[p] \in Job
  BY <1>1, Types, JobIs DEF Locks, At
<1>3. /\ i \in Inum /\ k \in 0 .. MAXFILE /\ v = bl[k]
      /\ \A j \in my[p].at .. k - 1 : bl[j] = 0
      /\ my[p].at <= k \/ bl[k] = 0
  BY <1>2, VictimIs
<1>4. v # 0 /\ my[p].at <= k
  BY <1>1, <1>3, Types, Facts
<1>5. /\ disk' \in Disk /\ disk'.used = disk.used \ {v} /\ disk'.data = disk.data
      /\ disk'.dinode = disk.dinode
  BY <1>1, Types DEF Disk
<1>6. inode[i] \in Inode
  BY <1>3, Types, InodeIs
<1>7. /\ inode' \in [Inum -> Inode] /\ \A j \in Inum \ {i} : inode'[j] = inode[j]
      /\ ip.type = inode[i].type /\ ip.nlink = inode[i].nlink
      /\ k < NDIRECT => \A n \in 0 .. NDIRECT : n # k => ip.addrs[n] = inode[i].addrs[n]
      /\ k = MAXFILE => ip.addrs[NDIRECT] = 0
      /\ k >= NDIRECT /\ k # MAXFILE => ip = inode[i]
  <2> DEFINE n == IF k < NDIRECT THEN k ELSE NDIRECT
             jp == WithAddr(inode[i], n, 0)
  <2>1. n \in 0 .. NDIRECT /\ 0 \in BlockNo
    BY <1>3, Facts DEF BlockNo
  <2>2. /\ jp \in Inode /\ jp.type = inode[i].type /\ jp.nlink = inode[i].nlink
        /\ jp.addrs[n] = 0
        /\ \A l \in 0 .. NDIRECT : l # n => jp.addrs[l] = inode[i].addrs[l]
    <3> HIDE DEF n
    <3> QED BY <1>6, <2>1, AddrSet
  <2>3. CASE k < NDIRECT \/ k = MAXFILE
    <3>1. inode' = [inode EXCEPT ![i] = jp]
      BY <1>1, <1>3, <2>3, Facts DEF WithAddr
    <3> HIDE DEF jp
    <3>2. inode' \in [Inum -> Inode] /\ ip = jp /\ \A j \in Inum \ {i} : inode'[j] = inode[j]
      BY <1>3, <2>2, <3>1, Types
    <3> QED BY <1>3, <2>2, <2>3, <3>2, Facts
  <2>4. CASE ~(k < NDIRECT \/ k = MAXFILE)
    BY <1>1, <2>4, Types, Facts
  <2> QED BY <2>3, <2>4
<1>8. /\ m \in Job /\ m.i = i /\ m.at = k + 1 /\ m.left = my[p].left
      /\ my' = [my EXCEPT ![p] = m]
  <2>1. k + 1 \in Nat
    BY <1>3, Facts
  <2> HIDE DEF k
  <2> QED BY <1>1, <1>2, <2>1, Types DEF Job
<1> HIDE DEF m, v, ip
<1>9. /\ logged' \in [Proc -> SUBSET LogBlock] /\ logged'[p] = logged[p] \cup {BITMAP}
      /\ \A q \in Proc \ {p} : logged'[q] = logged[q]
  BY <1>1, Types DEF LogWrite, LogBlock
<1>10. /\ my' \in [Proc -> Job] /\ my'[p] = m /\ \A q \in Proc \ {p} : my'[q] = my[q]
  BY <1>8, Types
<1>11. TypeOK'
  BY <1>1, <1>5, <1>7, <1>9, <1>10, Types DEF TypeOK
<1>12. \A q \in Proc \ {p} : Kept(q)
  BY <1>1, <1>9, <1>10 DEF Kept
<1>13. \A q \in Proc \ {p} : Locks(q) => my[q].i # i
  BY <1>2, Types DEF LockInv
<1>14. \A j \in Inum \ {i} : Untouched(j)
  BY <1>5, <1>7, BlksSame DEF Untouched
<1>15. \A l \in k + 1 .. MAXFILE : Blks(disk', ip)[l] = bl[l]
  <2> SUFFICES ASSUME NEW l \in k + 1 .. MAXFILE PROVE Blks(disk', ip)[l] = bl[l]
    OBVIOUS
  <2>1. l \in 0 .. MAXFILE /\ k # MAXFILE /\ k \in Nat
    BY <1>3, Facts
  <2>2. CASE k >= NDIRECT
    BY <1>5, <1>7, <2>1, <2>2, BlksSame
  <2>3. CASE k < NDIRECT
    <3>1. \A n \in 0 .. NDIRECT : n # k => ip.addrs[n] = inode[i].addrs[n]
      BY <1>7, <2>3
    <3>2. ip.addrs[NDIRECT] = inode[i].addrs[NDIRECT]
      BY <2>3, <3>1, Facts
    <3>3. l < NDIRECT => ip.addrs[l] = inode[i].addrs[l]
      BY <2>1, <3>1, Facts
    <3> QED BY <1>5, <2>1, <3>2, <3>3, BlksAre, Facts
  <2> QED BY <1>3, <2>2, <2>3, Facts
<1>16. Owns(disk'.used, Live')
  <2> DEFINE x == <<i, k>>
  <2>1. x \in Place /\ Live[x] = v /\ Live'[x] = 0
    <3> SUFFICES ASSUME NEW j \in Inum, NEW l \in 0 .. MAXFILE, j = i, l = k
                 PROVE  <<j, l>> \in Place /\ Live[<<j, l>>] = v /\ Live'[<<j, l>>] = 0
      BY <1>3
    <3>1. ~Gone(j, l) /\ Gone(j, l)'
      <4>1. /\ Gone(j, l) <=> At(p, "trunc") /\ my[p].i = j /\ l < my[p].at
            /\ Gone(j, l)' <=> At(p, "trunc")' /\ my'[p].i = j /\ l < my'[p].at
        BY <1>12, <1>13, GoneMine
      <4>2. At(p, "trunc")'
        BY <1>1 DEF At
      <4> QED BY <1>2, <1>3, <1>4, <1>8, <1>10, <4>1, <4>2, Facts
    <3> QED BY <1>3, <3>1, LiveIs
  <2>2. ASSUME NEW j \in Inum, NEW l \in 0 .. MAXFILE, <<j, l>> # x
        PROVE  Live'[<<j, l>>] = Live[<<j, l>>]
    <3>1. CASE j # i
      <4>1. Gone(j, l)' <=> Gone(j, l)
        BY <1>8, <1>10, <1>12, <3>1, GoneElse
      <4>2. Blks(disk', inode'[j]) = Blks(disk, inode[j])
        BY <1>14, <3>1 DEF Untouched
      <4> QED BY <4>1, <4>2, LiveIs
    <3>2. CASE j = i
      <4>1. l # k
        BY <2>2, <3>2
      <4>2. /\ Gone(j, l) <=> l < my[p].at
            /\ Gone(j, l)' <=> l < k + 1
        <5>1. /\ Gone(j, l) <=> At(p, "trunc") /\ my[p].i = j /\ l < my[p].at
              /\ Gone(j, l)' <=> At(p, "trunc")' /\ my'[p].i = j /\ l < my'[p].at
          BY <1>12, <1>13, <3>2, GoneMine
        <5>2. At(p, "trunc")'
          BY <1>1 DEF At
        <5> QED BY <1>2, <1>8, <1>10, <3>2, <5>1, <5>2
      <4>3. CASE l < my[p].at
        <5>1. l < k + 1
          BY <1>2, <1>3, <1>4, <4>3, Facts
        <5> QED BY <4>2, <4>3, <5>1, LiveIs
      <4>4. CASE ~(l < my[p].at) /\ l < k
        <5>1. bl[l] = 0
          BY <1>2, <1>3, <4>4, Facts
        <5>2. l < k + 1
          BY <1>3, <4>4, Facts
        <5> QED BY <3>2, <4>2, <4>4, <5>1, <5>2, LiveIs
      <4>5. CASE l > k
        <5>1. ~(l < my[p].at) /\ ~(l < k + 1) /\ l \in k + 1 .. MAXFILE
          BY <1>2, <1>3, <1>4, <4>5, Facts
        <5>2. Blks(disk', ip)[l] = bl[l]
          BY <1>15, <5>1
        <5> QED BY <3>2, <4>2, <5>1, <5>2, LiveIs DEF ip
      <4> QED BY <1>2, <1>3, <4>1, <4>3, <4>4, <4>5, Facts
    <3> QED BY <3>1, <3>2
  <2>3. \A y \in Place : y # x => Live'[y] = Live[y]
    BY <2>2, LiveIs
  <2> HIDE DEF x
  <2>4. Owns(disk.used \ {Live[x]}, Live')
    <3> DEFINE u == disk.used
               L == Live
               N == Live'
    <3>1. u \in SUBSET DataBlock /\ Owns(u, L)
      BY Types
    <3>2. x \in Place /\ L[x] # 0 /\ N[x] = 0 /\ \A y \in Place : y # x => N[y] = L[y]
      BY <1>4, <2>1, <2>3
    <3> HIDE DEF u, L, N
    <3>3. Owns(u \ {L[x]}, N)
      BY <3>1, <3>2, OwnsLess
    <3> QED BY <3>3 DEF u, L, N
  <2> QED BY <1>5, <2>1, <2>4
<1>17. Blank(inode'[i])
  <2>1. inode[i] # NoInode
    BY <1>3, <1>4, NoBlks
  <2>2. Blank(inode[i])
    BY <1>3, Types DEF InodeInv
  <2> QED BY <1>7, <2>1, <2>2 DEF Blank, ip
<1>18. OpenInv'
  <2>1. \A j \in Inum : inode'[j].type = inode[j].type
    BY <1>7 DEF ip
  <2> QED BY <1>1, <2>1, Types, FileIs DEF OpenInv
<1>19. Locks(p)' /\ my'[p].i = i
  BY <1>1, <1>8, <1>10 DEF Locks
<1>20. WriteOf(p)' /\ CopyOf(p)' /\ OtherOf(p)'
  BY <1>1 DEF WriteOf, Writes, CopyOf, OtherOf, At
<1>21. TruncOf(p)'
  <2>1. /\ inode[i].nlink = 0 /\ \A f \in FileId : file[f].ip # i
        /\ my[p].left = 0 /\ logged[p] \subseteq {BITMAP, IBLOCK}
    BY <1>2, Types DEF TruncOf
  <2>2. ip.nlink = 0 /\ k + 1 <= MAXFILE + 1 /\ (k + 1 > MAXFILE => ip.addrs[NDIRECT] = 0)
    BY <1>3, <1>7, <2>1, Facts
  <2>3. logged'[p] \subseteq {BITMAP, IBLOCK}
    BY <1>9, <2>1
  <2> QED BY <1>1, <1>8, <1>10, <2>1, <2>2, <2>3 DEF TruncOf, ip
<1>22. /\ \A q \in Proc : FileKept(q)
       /\ \A q \in Proc : At(q, "trunc") => \A f \in FileId : file'[f].ip # my[q].i
  BY <1>1, SameFile
<1> QED BY <1>1, <1>2, <1>3, <1>11, <1>12, <1>13, <1>14, <1>16, <1>17, <1>18, <1>19, <1>20,
           <1>21, <1>22, Types, InodeStepInv

-----------------------------------------------------------------------------
(* bmap() *)

LEMMA CopyIs ==
    ASSUME FilesInv, NEW p \in Proc, At(p, "copy")
    PROVE  LET i == my[p].i
               off == file[my[p].f].off
               ip == inode[i]
           IN  /\ i \in Inum /\ my[p].f \in FileId /\ file[my[p].f] # Closed
               /\ i = file[my[p].f].ip /\ ip.type = "file"
               /\ my[p].left \in Nat \ {0} /\ my[p].at \in Nat /\ my[p].end \in Nat
               /\ off \in Nat /\ ip.size \in Nat /\ ip \in Inode
               /\ Copying(Blks(disk, ip), ip, disk.dinode[i], my[p], off, logged[p])
               /\ off <= my[p].at /\ off < my[p].end /\ my[p].at <= my[p].end
               /\ my[p].end <= MAXFILE * BSIZE
<1>1. WriteOf(p) /\ Writes(p) /\ CopyOf(p)
  BY Types DEF Writes, At
<1>2. /\ my[p].f \in FileId /\ file[my[p].f] # Closed /\ my[p].i = file[my[p].f].ip
      /\ my[p].left \in Nat \ {0} /\ my[p].at \in Nat /\ my[p].end \in Nat
  BY <1>1, Types, JobIs DEF WriteOf
<1>3. my[p].i \in Inum /\ file[my[p].f].off \in Nat /\ inode[my[p].i].type = "file"
  BY <1>2, Types, FileIs DEF OpenInv
<1>4. Copying(Blks(disk, inode[my[p].i]), inode[my[p].i], disk.dinode[my[p].i], my[p],
              file[my[p].f].off, logged[p])
  BY <1>1 DEF CopyOf
<1>5. Chunk(my[p].left) \in 1 .. my[p].left
  BY <1>2, ChunkIs
<1>6. /\ file[my[p].f].off <= my[p].at /\ my[p].at <= my[p].end
      /\ my[p].end = file[my[p].f].off + Chunk(my[p].left) /\ my[p].end <= MAXFILE * BSIZE
  BY <1>4 DEF Copying
<1>7. file[my[p].f].off < my[p].end
  BY <1>2, <1>3, <1>5, <1>6
<1> QED BY <1>2, <1>3, <1>4, <1>6, <1>7, Types, InodeIs

\* The blocks of a piece are blocks of a file.
LEMMA SpanIn ==
    ASSUME NEW off \in Nat, NEW at \in Nat, NEW end \in Nat,
           off <= at, at < end, end <= MAXFILE * BSIZE
    PROVE  /\ Span(off, end) \subseteq 0 .. MAXFILE - 1
           /\ at \div BSIZE \in Span(off, end) /\ at \div BSIZE \in 0 .. MAXFILE - 1
<1>1. end - 1 \in Nat /\ MAXFILE * BSIZE \in Nat
  BY Facts
<1>2. (end - 1) \div BSIZE \in 0 .. MAXFILE - 1 /\ off \div BSIZE \in Nat /\ at \div BSIZE \in Nat
  BY <1>1, InFile, DivMod
<1>3. \A a, b \in Nat : a <= b => a \div BSIZE <= b \div BSIZE
  <2> SUFFICES ASSUME NEW a \in Nat, NEW b \in Nat, a <= b PROVE a \div BSIZE <= b \div BSIZE
    OBVIOUS
  <2>1. a \div BSIZE \in Nat
    BY DivMod
  <2>2. (a \div BSIZE) * BSIZE <= a /\ (a \div BSIZE) * BSIZE \in Nat
    BY <2>1, Starts, Facts
  <2>3. (a \div BSIZE) * BSIZE <= b
    BY <2>2
  <2> QED BY <2>1, <2>3, Starts
<1>4. off \div BSIZE <= at \div BSIZE /\ at \div BSIZE <= (end - 1) \div BSIZE
  BY <1>1, <1>3
<1> QED BY <1>2, <1>4, Facts DEF Span

Adds(bl, bm, x, b) ==
    bl[x] = 0 /\ bm[x] = b /\ \A k \in 0 .. MAXFILE : k # x => bm[k] = bl[k]

LogAdds(log, log2, bm, b) ==
    \A c \in log2 : c \in log \/ c = BITMAP \/ c = b \/ (c # 0 /\ c = bm[MAXFILE])

\* A block at x, which is the next one to write or the indirect one.
LEMMA CopyGrows ==
    ASSUME NEW bl, NEW ip, NEW dip, NEW jp, NEW m, NEW off \in Nat, NEW log, NEW bm,
           NEW x, NEW b \in DataBlock, NEW log2,
           m.at \in Nat, m.end \in Nat, ip.size \in Nat, off < m.end,
           Copying(bl, ip, dip, m, off, log),
           x = m.at \div BSIZE \/ x = MAXFILE, m.at < m.end, bl[m.at \div BSIZE] = 0,
           Adds(bl, bm, x, b), jp.size = ip.size, LogAdds(log, log2, bm, b)
    PROVE  Copying(bm, jp, dip, m, off, log2)
<1> USE DEF Adds, LogAdds
<1>1. /\ off <= ip.size /\ off <= m.at /\ m.at <= m.end
      /\ m.end = off + Chunk(m.left) /\ m.end <= MAXFILE * BSIZE
      /\ \A k \in 0 .. MAXFILE - 1 :
           /\ k * BSIZE < ip.size \/ k * BSIZE < m.at => bl[k] # 0
           /\ bl[k] # 0 => \/ k * BSIZE < ip.size \/ k * BSIZE < m.at
                           \/ k = m.at \div BSIZE /\ m.at < m.end
      /\ \A c \in log : \/ c = BITMAP
                        \/ c # 0 /\ c = bl[MAXFILE]
                        \/ c # 0 /\ \E k \in Span(off, m.end) : c = bl[k]
  BY DEF Copying
<1>2. b # 0
  BY Facts
<1>3. /\ Span(off, m.end) \subseteq 0 .. MAXFILE - 1
      /\ m.at \div BSIZE \in Span(off, m.end) /\ m.at \div BSIZE \in 0 .. MAXFILE - 1
  BY <1>1, SpanIn
<1>4. /\ \A k \in 0 .. MAXFILE - 1 : k \in 0 .. MAXFILE
      /\ MAXFILE \in 0 .. MAXFILE /\ MAXFILE \notin 0 .. MAXFILE - 1
  BY Facts
<1>5. ASSUME NEW k \in 0 .. MAXFILE - 1
      PROVE  /\ k * BSIZE < jp.size \/ k * BSIZE < m.at => bm[k] # 0
             /\ bm[k] # 0 => \/ k * BSIZE < jp.size \/ k * BSIZE < m.at
                             \/ k = m.at \div BSIZE /\ m.at < m.end
  <2> DEFINE P == k * BSIZE < ip.size \/ k * BSIZE < m.at
  <2>1. /\ P => bl[k] # 0
        /\ bl[k] # 0 => P \/ (k = m.at \div BSIZE /\ m.at < m.end)
    BY <1>1
  <2>2. k * BSIZE < jp.size \/ k * BSIZE < m.at <=> P
    OBVIOUS
  <2> HIDE DEF P
  <2>3. /\ P => bm[k] # 0
        /\ bm[k] # 0 => P \/ (k = m.at \div BSIZE /\ m.at < m.end)
    <3>1. CASE k = x
      <4>1. k = m.at \div BSIZE
        BY <1>4, <3>1
      <4> QED BY <1>2, <3>1, <4>1
    <3>2. CASE k # x
      BY <1>4, <2>1, <3>2
    <3> QED BY <3>1, <3>2
  <2> QED BY <2>2, <2>3
<1>6. ~(m.end <= ip.size)
  <2> SUFFICES ASSUME m.end <= ip.size PROVE FALSE
    OBVIOUS
  <2> DEFINE k == m.at \div BSIZE
  <2>1. k \in 0 .. MAXFILE - 1 /\ k \in Nat
    BY <1>3, DivMod
  <2>2. k * BSIZE <= m.at /\ k * BSIZE \in Nat
    BY <2>1, Starts, Facts
  <2>3. k * BSIZE < ip.size
    BY <2>2
  <2> HIDE DEF k
  <2>4. bl[k] # 0
    BY <1>1, <2>1, <2>3
  <2> QED BY <2>4 DEF k
<1>7. ASSUME NEW c \in log2
      PROVE  \/ c = BITMAP
             \/ c # 0 /\ c = bm[MAXFILE]
             \/ c # 0 /\ \E k \in Span(off, m.end) : c = bm[k]
  <2>1. CASE c \in log
    <3>1. \A k \in 0 .. MAXFILE : bl[k] # 0 => bm[k] = bl[k]
      OBVIOUS
    <3> QED BY <1>1, <1>3, <1>4, <2>1, <3>1
  <2>2. CASE c = b
    BY <1>2, <1>3, <2>2
  <2> QED BY <2>1, <2>2
<1> QED BY <1>1, <1>5, <1>6, <1>7 DEF Copying

\* The block of the file that p writes next.
NextBlk(p) == my[p].at \div BSIZE

\* A block b that was free gets the place x in the file that p writes.
Grown(p, i, x, b, log) ==
    /\ At(p, "copy") /\ my[p].at < my[p].end /\ i = my[p].i
    /\ x = NextBlk(p) \/ x = MAXFILE
    /\ Blks(disk, inode[i])[NextBlk(p)] = 0
    /\ b \in DataBlock \ disk.used
    /\ disk' \in Disk /\ disk'.used = disk.used \cup {b} /\ disk'.dinode = disk.dinode
    /\ inode' \in [Inum -> Inode]
    /\ inode'[i].type = inode[i].type /\ inode'[i].size = inode[i].size
    /\ \A j \in Inum \ {i} : /\ inode'[j] = inode[j]
                             /\ Blks(disk', inode'[j]) = Blks(disk, inode[j])
    /\ Adds(Blks(disk, inode[i]), Blks(disk', inode'[i]), x, b)
    /\ log \subseteq LogBlock /\ LogWrite(p, log)
    /\ LogAdds({}, log, Blks(disk', inode'[i]), b)
    /\ durable' = durable /\ file' = file /\ pc' = pc /\ my' = my

LEMMA BmapInv ==
    ASSUME FilesInv, NEW p \in Proc, NEW i, NEW x, NEW b, NEW log, Grown(p, i, x, b, log)
    PROVE  FilesInv'
<1> USE DEF Grown, Adds, LogAdds
<1> DEFINE off == file[my[p].f].off
           bl == Blks(disk, inode[i])
           bm == Blks(disk', inode'[i])
<1>1. /\ i \in Inum /\ my[p].f \in FileId /\ file[my[p].f] # Closed
      /\ i = file[my[p].f].ip /\ inode[i].type = "file"
      /\ my[p].left \in Nat \ {0} /\ my[p].at \in Nat /\ my[p].end \in Nat
      /\ off \in Nat /\ inode[i].size \in Nat
      /\ Copying(bl, inode[i], disk.dinode[i], my[p], off, logged[p])
      /\ off <= my[p].at /\ off < my[p].end /\ my[p].end <= MAXFILE * BSIZE
  BY CopyIs
<1>2. x \in 0 .. MAXFILE
  <2>1. NextBlk(p) \in 0 .. MAXFILE - 1
    BY <1>1, SpanIn DEF NextBlk
  <2> QED BY <2>1, Facts
<1>3. /\ logged' \in [Proc -> SUBSET LogBlock] /\ logged'[p] = logged[p] \cup log
      /\ \A q \in Proc \ {p} : logged'[q] = logged[q]
  BY Types DEF LogWrite
<1>4. TypeOK'
  BY <1>3, Types DEF TypeOK
<1>5. \A q \in Proc \ {p} : Kept(q)
  BY <1>3 DEF Kept
<1>6. Locks(p) /\ Locks(p)' /\ my'[p].i = i /\ ~At(p, "trunc") /\ ~At(p, "trunc")'
  BY DEF Locks, At
<1>7. \A q \in Proc \ {p} : Locks(q) => my[q].i # i
  BY <1>6, Types DEF LockInv
<1>8. \A j \in Inum \ {i} : Untouched(j)
  BY DEF Untouched
<1>9. /\ \A q \in Proc : FileKept(q)
      /\ \A q \in Proc : At(q, "trunc") => \A f \in FileId : file'[f].ip # my[q].i
  BY SameFile
<1>10. Blank(inode'[i])
  BY <1>1 DEF Blank
<1>11. OpenInv'
  <2>1. \A j \in Inum : inode'[j].type = inode[j].type
    OBVIOUS
  <2> QED BY <2>1, Types, FileIs DEF OpenInv
<1>12. Owns(disk'.used, Live')
  <2> DEFINE pl == <<i, x>>
             u == disk.used
             L == Live
             N == Live'
  <2>1. \A j, k : k \in 0 .. MAXFILE => (Gone(j, k)' <=> Gone(j, k))
    BY DEF Gone, At
  <2>2. \A k \in 0 .. MAXFILE : ~Gone(i, k)
    BY <1>5, <1>6, <1>7, GoneMine
  <2>3. pl \in Place /\ L[pl] = 0 /\ N[pl] = b
    <3>1. bl[x] = 0 /\ bm[x] = b
      OBVIOUS
    <3> HIDE DEF Grown, Adds, LogAdds
    <3> QED BY <1>1, <1>2, <2>1, <2>2, <3>1, LiveIs
  <2>4. ASSUME NEW j \in Inum, NEW k \in 0 .. MAXFILE, <<j, k>> # pl
        PROVE  N[<<j, k>>] = L[<<j, k>>]
    <3>1. Blks(disk', inode'[j])[k] = Blks(disk, inode[j])[k]
      BY <2>4
    <3> QED BY <2>1, <3>1, LiveIs
  <2>5. \A y \in Place : y # pl => N[y] = L[y]
    BY <2>4, LiveIs
  <2>6. u \in SUBSET DataBlock /\ Owns(u, L) /\ b \in DataBlock \ u
    BY Types
  <2> HIDE DEF Grown, Adds, LogAdds, pl, u, L, N
  <2>7. Owns(u \cup {b}, N)
    BY <2>3, <2>5, <2>6, OwnsMore
  <2> QED BY <2>7 DEF Grown, u, N
<1>13. WriteOf(p)' /\ TruncOf(p)' /\ OtherOf(p)'
  BY <1>1, Types DEF WriteOf, Writes, TruncOf, OtherOf, At
<1>14. CopyOf(p)'
  <2> DEFINE ip == inode[i]
             jp == inode'[i]
             dip == disk.dinode[i]
             m == my[p]
             lg == logged[p]
             lg2 == logged'[p]
  <2>1. /\ m.at \in Nat /\ m.end \in Nat /\ ip.size \in Nat /\ off \in Nat /\ off < m.end
        /\ Copying(bl, ip, dip, m, off, lg)
        /\ x = m.at \div BSIZE \/ x = MAXFILE
        /\ m.at < m.end /\ bl[m.at \div BSIZE] = 0
        /\ Adds(bl, bm, x, b) /\ b \in DataBlock /\ jp.size = ip.size
    BY <1>1 DEF Adds, NextBlk
  <2>2. LogAdds(lg, lg2, bm, b)
    BY <1>3 DEF LogAdds
  <2> HIDE DEF Grown, Adds, LogAdds, ip, jp, dip, m, lg, lg2, bl, bm, off
  <2>3. Copying(bm, jp, dip, m, off, lg2)
    BY <2>1, <2>2, CopyGrows
  <2> QED BY <1>6, <2>3 DEF Grown, CopyOf, ip, jp, dip, m, lg2, bm, off, At
<1>15. Owns(disk'.used, Live') /\ Sound(durable')
  BY <1>12, Types
<1> QED BY <1>1, <1>4, <1>5, <1>6, <1>7, <1>8, <1>9, <1>10, <1>11, <1>13, <1>14, <1>15,
           InodeStepInv

LEMMA BallocIs ==
    ASSUME disk \in Disk, NEW b \in DataBlock, NEW d, d = Balloc(disk, b)
    PROVE  /\ d \in Disk /\ d.used = disk.used \cup {b} /\ d.dinode = disk.dinode
           /\ d.data[b] = Zero /\ \A c \in DataBlock \ {b} : d.data[c] = disk.data[c]
           /\ \A w \in 0 .. BSIZE - 1 : Zero[w] = 0
<1>1. Zero \in Block /\ \A w \in 0 .. BSIZE - 1 : Zero[w] = 0
  BY DEF Zero, Block, BlockNo
<1>2. d = [disk EXCEPT !.used = @ \cup {b}, !.data[b] = Zero]
  BY DEF Balloc
<1>3. d.data = [disk.data EXCEPT ![b] = Zero] /\ d.used = disk.used \cup {b}
      /\ d.dinode = disk.dinode
  BY <1>2 DEF Disk
<1>4. disk.data \in [DataBlock -> Block] /\ disk.used \in SUBSET DataBlock
  BY DEF Disk
<1>5. d.data \in [DataBlock -> Block]
  BY <1>1, <1>3, <1>4
<1>6. d \in Disk
  <2>1. DOMAIN d = DOMAIN disk
    BY <1>2
  <2> QED BY <1>2, <1>3, <1>4, <1>5 DEF Disk
<1> QED BY <1>1, <1>3, <1>4, <1>6

\* balloc() takes the first block that is free.
LEMMA FreshIs ==
    ASSUME FreeBlocks # {}
    PROVE  Min(FreeBlocks) \in DataBlock \ disk.used
<1>1. FreeBlocks \in SUBSET Nat
  BY Facts DEF FreeBlocks
<1> QED BY <1>1, LeastOf DEF FreeBlocks

LEMMA MissingIs ==
    ASSUME FilesInv, NEW p \in Proc, Missing(p)
    PROVE  LET i == my[p].i
               k == NextBlk(p)
           IN  /\ At(p, "copy") /\ my[p].at < my[p].end /\ i \in Inum
               /\ k \in 0 .. MAXFILE - 1 /\ k \in 0 .. MAXFILE /\ k # MAXFILE
               /\ Blks(disk, inode[i])[k] = 0
<1> DEFINE i == my[p].i
           k == NextBlk(p)
<1>1. At(p, "copy") /\ my[p].at < my[p].end /\ BlockAt(disk, inode[i], k) = 0
  BY DEF Missing, NextBlk
<1>2. i \in Inum /\ k \in 0 .. MAXFILE - 1
  <2>1. /\ i \in Inum /\ my[p].at \in Nat /\ my[p].end \in Nat /\ file[my[p].f].off \in Nat
        /\ file[my[p].f].off <= my[p].at /\ my[p].end <= MAXFILE * BSIZE
    BY <1>1, CopyIs
  <2> QED BY <1>1, <2>1, SpanIn DEF NextBlk
<1> HIDE DEF k
<1>3. k \in 0 .. MAXFILE /\ k # MAXFILE
  BY <1>2, Facts
<1>4. Blks(disk, inode[i])[k] = Blk(disk, inode[i], k)
  BY <1>3 DEF Blks
<1> QED BY <1>1, <1>2, <1>3, <1>4 DEF Blk, k

LEMMA BmapIndirectInv ==
    ASSUME FilesInv, NEW p \in Proc, BmapIndirect(p)
    PROVE  FilesInv'
<1> DEFINE i == my[p].i
           k == NextBlk(p)
           b == Min(FreeBlocks)
           ip == WithAddr(inode[i], NDIRECT, b)
<1>1. /\ Missing(p) /\ inode[i].addrs[NDIRECT] = 0 /\ FreeBlocks # {}
      /\ disk' = Balloc(disk, b)
      /\ inode' = [inode EXCEPT ![i] = ip]
      /\ LogWrite(p, {BITMAP, b})
      /\ durable' = durable /\ file' = file /\ pc' = pc /\ my' = my
  BY DEF BmapIndirect, WithAddr, NextBlk
<1>2. b \in DataBlock \ disk.used
  BY <1>1, FreshIs
<1> HIDE DEF b
<1>3. /\ At(p, "copy") /\ my[p].at < my[p].end /\ i \in Inum /\ k \in 0 .. MAXFILE
      /\ Blks(disk, inode[i])[k] = 0
  BY <1>1, MissingIs
<1> HIDE DEF k
<1>4. /\ disk' \in Disk /\ disk'.used = disk.used \cup {b} /\ disk'.dinode = disk.dinode
      /\ disk'.data[b] = Zero /\ \A c \in DataBlock \ {b} : disk'.data[c] = disk.data[c]
      /\ \A w \in 0 .. BSIZE - 1 : Zero[w] = 0
  BY <1>1, <1>2, Types, BallocIs
<1>5. /\ ip \in Inode /\ ip.type = inode[i].type /\ ip.size = inode[i].size
      /\ ip.addrs[NDIRECT] = b
      /\ \A l \in 0 .. NDIRECT : l # NDIRECT => ip.addrs[l] = inode[i].addrs[l]
  <2>1. inode[i] \in Inode /\ NDIRECT \in 0 .. NDIRECT /\ b \in BlockNo
    BY <1>2, <1>3, Types, InodeIs, Facts DEF BlockNo
  <2> QED BY <2>1, AddrSet
<1> HIDE DEF ip
<1>6. /\ inode' \in [Inum -> Inode] /\ inode'[i] = ip
      /\ \A j \in Inum \ {i} : inode'[j] = inode[j]
  BY <1>1, <1>3, <1>5, Types
<1>7. \A j \in Inum \ {i} : Blks(disk', inode'[j]) = Blks(disk, inode[j])
  <2> SUFFICES ASSUME NEW j \in Inum \ {i}
               PROVE  Blks(disk', inode'[j]) = Blks(disk, inode[j])
    OBVIOUS
  <2>1. inode[j].addrs[NDIRECT] # 0 => inode[j].addrs[NDIRECT] \in disk.used
    BY IndirectUsed
  <2>2. inode[j].addrs[NDIRECT] # 0 =>
          disk'.data[inode[j].addrs[NDIRECT]] = disk.data[inode[j].addrs[NDIRECT]]
    BY <1>2, <1>4, <2>1, Types
  <2> QED BY <1>6, <2>2, BlksSame
<1>8. Blks(disk, inode[i])[MAXFILE] = 0 /\ Blks(disk', inode'[i])[MAXFILE] = b
  BY <1>1, <1>5, <1>6, BlksAre, Facts
<1>9. ASSUME NEW l \in 0 .. MAXFILE, l # MAXFILE
      PROVE  Blks(disk', inode'[i])[l] = Blks(disk, inode[i])[l]
  <2>1. CASE l < NDIRECT
    BY <1>5, <1>6, <2>1, BlksAre, Facts
  <2>2. CASE ~(l < NDIRECT)
    <3>1. Blks(disk, inode[i])[l] = 0
      BY <1>1, <1>9, <2>2, BlksAre, Facts
    <3>2. l - NDIRECT \in 0 .. BSIZE - 1 /\ b # 0
      BY <1>2, <1>9, <2>2, Facts
    <3>3. Blks(disk', inode'[i])[l] = disk'.data[b][l - NDIRECT]
      BY <1>5, <1>6, <1>9, <2>2, <3>2, BlksAre, Facts
    <3> QED BY <1>4, <3>1, <3>2, <3>3
  <2> QED BY <2>1, <2>2
<1> DEFINE log == {BITMAP, b}
<1>10. /\ log \subseteq LogBlock /\ LogWrite(p, log)
       /\ \A c \in log : c = BITMAP \/ c = b
  BY <1>1, <1>2 DEF LogBlock
<1> HIDE DEF log
<1>11. Blks(disk, inode[i])[NextBlk(p)] = 0
  BY <1>3 DEF k
<1>12. inode'[i].type = inode[i].type /\ inode'[i].size = inode[i].size
  BY <1>5, <1>6
<1> HIDE DEF i
<1>13. Adds(Blks(disk, inode[i]), Blks(disk', inode'[i]), MAXFILE, b)
  BY <1>8, <1>9 DEF Adds
<1>14. LogAdds({}, log, Blks(disk', inode'[i]), b)
  BY <1>10 DEF LogAdds
<1>15. Grown(p, i, MAXFILE, b, log)
  BY <1>1, <1>2, <1>3, <1>4, <1>6, <1>7, <1>10, <1>11, <1>12, <1>13, <1>14 DEF Grown, i
<1> QED BY <1>15, BmapInv

LEMMA BmapDirectInv ==
    ASSUME FilesInv, NEW p \in Proc, NEW i, NEW k, NEW b, i = my[p].i, k = NextBlk(p),
           Missing(p), b \in DataBlock \ disk.used, k < NDIRECT, disk' = Balloc(disk, b),
           inode' = [inode EXCEPT ![i] = WithAddr(inode[i], k, b)],
           LogWrite(p, {BITMAP, b}),
           durable' = durable, file' = file, pc' = pc, my' = my
    PROVE  FilesInv'
<1> DEFINE ip == WithAddr(inode[i], k, b)
<1>1. /\ At(p, "copy") /\ my[p].at < my[p].end /\ i \in Inum /\ k \in 0 .. MAXFILE
      /\ Blks(disk, inode[i])[k] = 0
  BY MissingIs
<1>2. /\ disk' \in Disk /\ disk'.used = disk.used \cup {b} /\ disk'.dinode = disk.dinode
      /\ \A c \in DataBlock \ {b} : disk'.data[c] = disk.data[c]
  BY Types, BallocIs
<1>3. /\ ip \in Inode /\ ip.type = inode[i].type /\ ip.size = inode[i].size
      /\ ip.addrs[k] = b
      /\ \A l \in 0 .. NDIRECT : l # k => ip.addrs[l] = inode[i].addrs[l]
  <2>1. inode[i] \in Inode /\ k \in 0 .. NDIRECT /\ b \in BlockNo
    BY <1>1, Types, InodeIs, Facts DEF BlockNo
  <2> QED BY <2>1, AddrSet
<1>4. inode' = [inode EXCEPT ![i] = ip]
  OBVIOUS
<1> HIDE DEF ip
<1>5. /\ inode' \in [Inum -> Inode] /\ inode'[i] = ip
      /\ \A j \in Inum \ {i} : inode'[j] = inode[j]
  BY <1>1, <1>3, <1>4, Types
<1>6. \A j \in Inum : inode[j].addrs[NDIRECT] # 0 =>
        disk'.data[inode[j].addrs[NDIRECT]] = disk.data[inode[j].addrs[NDIRECT]]
  <2> SUFFICES ASSUME NEW j \in Inum, inode[j].addrs[NDIRECT] # 0
               PROVE  disk'.data[inode[j].addrs[NDIRECT]] = disk.data[inode[j].addrs[NDIRECT]]
    OBVIOUS
  <2>1. inode[j].addrs[NDIRECT] \in disk.used
    BY IndirectUsed
  <2> QED BY <1>2, <2>1, Types
<1>7. \A j \in Inum \ {i} : Blks(disk', inode'[j]) = Blks(disk, inode[j])
  BY <1>5, <1>6, BlksSame
<1>8. Blks(disk', inode'[i])[k] = b
  BY <1>1, <1>3, <1>5, BlksAre
<1>9. ASSUME NEW l \in 0 .. MAXFILE, l # k
      PROVE  Blks(disk', inode'[i])[l] = Blks(disk, inode[i])[l]
  <2>1. CASE l < NDIRECT
    BY <1>3, <1>5, <1>9, <2>1, BlksAre, Facts
  <2>2. CASE ~(l < NDIRECT)
    <3>1. ip.addrs[NDIRECT] = inode[i].addrs[NDIRECT]
      BY <1>1, <1>3, Facts
    <3> DEFINE a == inode[i].addrs[NDIRECT]
    <3>2. CASE a = 0 \/ l = MAXFILE
      BY <1>5, <2>2, <3>1, <3>2, BlksAre, Facts
    <3>3. CASE a # 0 /\ l # MAXFILE
      <4>1. disk'.data[a] = disk.data[a]
        BY <1>1, <1>6, <3>3
      <4>2. Blks(disk', inode'[i])[l] = disk'.data[a][l - NDIRECT]
        BY <1>5, <2>2, <3>1, <3>3, BlksAre, Facts
      <4>3. Blks(disk, inode[i])[l] = disk.data[a][l - NDIRECT]
        BY <2>2, <3>3, BlksAre, Facts
      <4> QED BY <4>1, <4>2, <4>3
    <3> QED BY <3>2, <3>3
  <2> QED BY <2>1, <2>2
<1> DEFINE log == {BITMAP, b}
<1>10. log \subseteq LogBlock /\ LogWrite(p, log) /\ LogAdds({}, log, Blks(disk', inode'[i]), b)
  BY DEF LogBlock, LogAdds
<1> HIDE DEF log
<1>11. Adds(Blks(disk, inode[i]), Blks(disk', inode'[i]), k, b)
  BY <1>1, <1>8, <1>9 DEF Adds
<1>12. inode'[i].type = inode[i].type /\ inode'[i].size = inode[i].size
  BY <1>3, <1>5
<1>13. Grown(p, i, k, b, log)
  BY <1>1, <1>2, <1>5, <1>7, <1>10, <1>11, <1>12 DEF Grown
<1> QED BY <1>13, BmapInv

\* The indirect block of an inode has a place of its own: no file has it as well.
LEMMA IndirectOwn ==
    ASSUME FilesInv, NEW i \in Inum, NEW j \in Inum, NEW k \in 0 .. MAXFILE,
           inode[i].addrs[NDIRECT] # 0, ~Gone(j, k),
           Blks(disk, inode[j])[k] = inode[i].addrs[NDIRECT]
    PROVE  j = i /\ k = MAXFILE
<1>1. /\ <<i, MAXFILE>> \in Place /\ Live[<<i, MAXFILE>>] = inode[i].addrs[NDIRECT]
  BY IndirectUsed
<1>2. <<j, k>> \in Place /\ Live[<<j, k>>] = inode[i].addrs[NDIRECT]
  BY LiveIs
<1>3. <<i, MAXFILE>> = <<j, k>>
  BY <1>1, <1>2, Types DEF Owns
<1> QED BY <1>3

LEMMA OtherIndirect ==
    ASSUME FilesInv, NEW i \in Inum, NEW j \in Inum, j # i, inode[i].addrs[NDIRECT] # 0
    PROVE  inode[j].addrs[NDIRECT] # inode[i].addrs[NDIRECT]
<1>1. ~Gone(j, MAXFILE) \/ inode[j].addrs[NDIRECT] = 0
  BY Types DEF Gone, TruncOf
<1>2. Blks(disk, inode[j])[MAXFILE] = inode[j].addrs[NDIRECT] /\ MAXFILE \in 0 .. MAXFILE
  BY BlksAre, Facts
<1> QED BY <1>1, <1>2, IndirectOwn

\* The indirect block a has b at w.
Linked(d, a, w, b) == [d EXCEPT !.data[a][w] = b]

\* b is linked from the indirect block a of the inode i.
Through(p, i, k, b, a) ==
    /\ i = my[p].i /\ k = NextBlk(p) /\ a = inode[i].addrs[NDIRECT]
    /\ Missing(p) /\ b \in DataBlock \ disk.used /\ k >= NDIRECT /\ a # 0
    /\ disk' = Linked(Balloc(disk, b), a, k - NDIRECT, b)
    /\ inode' = inode /\ LogWrite(p, {BITMAP, b, a})
    /\ durable' = durable /\ file' = file /\ pc' = pc /\ my' = my

LEMMA BmapThroughInv ==
    ASSUME FilesInv, NEW p \in Proc, NEW i, NEW k, NEW b, NEW a, Through(p, i, k, b, a)
    PROVE  FilesInv'
<1> DEFINE e == Balloc(disk, b)
           w == k - NDIRECT
<1>0. /\ i = my[p].i /\ k = NextBlk(p) /\ a = inode[i].addrs[NDIRECT]
      /\ Missing(p) /\ b \in DataBlock \ disk.used /\ k >= NDIRECT /\ a # 0
      /\ disk' = Linked(Balloc(disk, b), a, k - NDIRECT, b)
      /\ inode' = inode /\ LogWrite(p, {BITMAP, b, a})
      /\ durable' = durable /\ file' = file /\ pc' = pc /\ my' = my
  BY DEF Through
<1>1. /\ At(p, "copy") /\ my[p].at < my[p].end /\ i \in Inum /\ k \in 0 .. MAXFILE
      /\ k # MAXFILE /\ Blks(disk, inode[i])[k] = 0
  BY <1>0, MissingIs
<1>2. /\ e \in Disk /\ e.used = disk.used \cup {b} /\ e.dinode = disk.dinode
      /\ \A c \in DataBlock \ {b} : e.data[c] = disk.data[c]
  BY <1>0, Types, BallocIs
<1>3. a \in disk.used /\ a \in DataBlock /\ a # b
  BY <1>0, <1>1, IndirectUsed, Types
<1>4. w \in 0 .. BSIZE - 1 /\ b \in BlockNo
  BY <1>0, <1>1, Facts DEF BlockNo
<1>5. /\ disk' \in Disk /\ disk'.used = disk.used \cup {b} /\ disk'.dinode = disk.dinode
      /\ disk'.data[a] = [disk.data[a] EXCEPT ![w] = b]
      /\ \A c \in DataBlock \ {a, b} : disk'.data[c] = disk.data[c]
  <2> HIDE DEF e, w
  <2> DEFINE v == [e.data[a] EXCEPT ![w] = b]
  <2>1. disk' = [e EXCEPT !.data = [e.data EXCEPT ![a] = v]]
    BY <1>0, <1>2 DEF Linked, e, w, Disk
  <2>2. v \in Block
    <3>1. e.data[a] \in Block
      BY <1>0, <1>2, <1>3 DEF Disk
    <3> QED BY <1>4, <3>1 DEF Block
  <2> HIDE DEF v
  <2> DEFINE dt == [e.data EXCEPT ![a] = v]
  <2>3. /\ dt \in [DataBlock -> Block] /\ dt[a] = v
        /\ \A c \in DataBlock \ {a} : dt[c] = e.data[c]
    <3>1. e.data \in [DataBlock -> Block]
      BY <1>0, <1>2 DEF Disk
    <3> QED BY <1>3, <2>2, <3>1
  <2> HIDE DEF dt
  <2>4. disk' = [e EXCEPT !.data = dt]
    BY <2>1 DEF dt
  <2>5. disk' \in Disk /\ disk'.used = e.used /\ disk'.dinode = e.dinode /\ disk'.data = dt
    BY <1>2, <2>3, <2>4 DEF Disk
  <2>6. e.data[a] = disk.data[a] /\ \A c \in DataBlock \ {a, b} : dt[c] = disk.data[c]
    BY <1>0, <1>2, <1>3, <2>3
  <2>7. disk'.used = disk.used \cup {b} /\ disk'.dinode = disk.dinode
    BY <1>2, <2>5
  <2>8. disk'.data[a] = [disk.data[a] EXCEPT ![w] = b]
    BY <2>3, <2>5, <2>6 DEF v
  <2> QED BY <2>5, <2>6, <2>7, <2>8
<1> HIDE DEF e, w
<1>6. disk.data[a] \in Block
  BY <1>0, <1>3, Types
<1>7. disk'.data[a][w] = b /\ \A l \in 0 .. BSIZE - 1 : l # w => disk'.data[a][l] = disk.data[a][l]
  <2>1. disk.data[a] \in [0 .. BSIZE - 1 -> BlockNo \cup Proc]
    BY <1>6 DEF Block
  <2>2. disk'.data[a] = [disk.data[a] EXCEPT ![w] = b]
    BY <1>5
  <2> QED BY <1>4, <2>1, <2>2
<1>8. \A j \in Inum \ {i} : Blks(disk', inode'[j]) = Blks(disk, inode[j])
  <2> SUFFICES ASSUME NEW j \in Inum \ {i}
               PROVE  Blks(disk', inode'[j]) = Blks(disk, inode[j])
    OBVIOUS
  <2>1. inode[j].addrs[NDIRECT] # 0 =>
          /\ inode[j].addrs[NDIRECT] \in disk.used
          /\ inode[j].addrs[NDIRECT] # a
    BY <1>0, <1>1, IndirectUsed, OtherIndirect
  <2>2. inode[j].addrs[NDIRECT] # 0 =>
          disk'.data[inode[j].addrs[NDIRECT]] = disk.data[inode[j].addrs[NDIRECT]]
    BY <1>0, <1>5, <2>1, Types
  <2>3. inode'[j].addrs = inode[j].addrs
    BY <1>0
  <2> QED BY <2>2, <2>3, BlksSame
<1>9. \A l \in 0 .. MAXFILE :
        l >= NDIRECT /\ l # MAXFILE =>
          /\ Blks(disk', inode'[i])[l] = disk'.data[a][l - NDIRECT]
          /\ Blks(disk, inode[i])[l] = disk.data[a][l - NDIRECT]
          /\ l - NDIRECT \in 0 .. BSIZE - 1
  <2> SUFFICES ASSUME NEW l \in 0 .. MAXFILE, l >= NDIRECT, l # MAXFILE
               PROVE  /\ Blks(disk', inode'[i])[l] = disk'.data[a][l - NDIRECT]
                      /\ Blks(disk, inode[i])[l] = disk.data[a][l - NDIRECT]
                      /\ l - NDIRECT \in 0 .. BSIZE - 1
    OBVIOUS
  <2>1. l - NDIRECT \in 0 .. BSIZE - 1
    BY <1>0, Facts
  <2>2. inode[i].addrs[NDIRECT] = a /\ inode'[i].addrs[NDIRECT] = a /\ a # 0
    BY <1>0
  <2>3. Blks(disk, inode[i])[l] = disk.data[a][l - NDIRECT]
    BY <2>2, BlksAre
  <2>4. Blks(disk', inode'[i])[l] = disk'.data[a][l - NDIRECT]
    BY <2>2, BlksAre
  <2> QED BY <2>1, <2>3, <2>4
<1>10. Blks(disk', inode'[i])[k] = b
  BY <1>0, <1>1, <1>7, <1>9 DEF w
<1>11. ASSUME NEW l \in 0 .. MAXFILE, l # k
       PROVE  Blks(disk', inode'[i])[l] = Blks(disk, inode[i])[l]
  <2>1. CASE l < NDIRECT \/ l = MAXFILE
    BY <1>0, <2>1, BlksAre
  <2>2. CASE ~(l < NDIRECT \/ l = MAXFILE)
    <3>1. l >= NDIRECT /\ l # MAXFILE
      BY <1>0, <2>2, Facts
    <3>2. l - NDIRECT # w
      BY <1>0, <1>1, <1>11, <3>1, Facts DEF w
    <3> QED BY <1>7, <1>9, <3>1, <3>2
  <2> QED BY <2>1, <2>2
<1>12. Blks(disk', inode'[i])[MAXFILE] = a
  BY <1>0, BlksAre, Facts
<1> DEFINE log == {BITMAP, b, a}
<1>13. log \subseteq LogBlock /\ LogWrite(p, log) /\ LogAdds({}, log, Blks(disk', inode'[i]), b)
  BY <1>0, <1>3, <1>12 DEF LogBlock, LogAdds
<1> HIDE DEF log
<1>14. Adds(Blks(disk, inode[i]), Blks(disk', inode'[i]), k, b)
  BY <1>0, <1>1, <1>10, <1>11 DEF Adds
<1>15. Grown(p, i, k, b, log)
  BY <1>0, <1>1, <1>5, <1>8, <1>13, <1>14, Types DEF Grown
<1> QED BY <1>15, BmapInv

LEMMA BmapDataInv ==
    ASSUME FilesInv, NEW p \in Proc, BmapData(p)
    PROVE  FilesInv'
<1> DEFINE i == my[p].i
           k == NextBlk(p)
           b == Min(FreeBlocks)
           a == inode[i].addrs[NDIRECT]
<1>1. /\ Missing(p) /\ FreeBlocks # {}
      /\ \/ /\ k < NDIRECT
            /\ disk' = Balloc(disk, b)
            /\ inode' = [inode EXCEPT ![i].addrs[k] = b]
            /\ LogWrite(p, {BITMAP, b})
         \/ /\ k >= NDIRECT /\ a # 0
            /\ disk' = [Balloc(disk, b) EXCEPT !.data[a][k - NDIRECT] = b]
            /\ LogWrite(p, {BITMAP, b, a})
            /\ inode' = inode
      /\ durable' = durable /\ file' = file /\ pc' = pc /\ my' = my
  BY DEF BmapData, NextBlk
<1>2. b \in DataBlock \ disk.used
  BY <1>1, FreshIs
<1>3. i = my[p].i /\ k = NextBlk(p) /\ a = inode[i].addrs[NDIRECT]
  OBVIOUS
<1>4. CASE k < NDIRECT /\ disk' = Balloc(disk, b) /\ inode' = [inode EXCEPT ![i].addrs[k] = b]
           /\ LogWrite(p, {BITMAP, b})
  <2>1. inode' = [inode EXCEPT ![i] = WithAddr(inode[i], k, b)]
    BY <1>4 DEF WithAddr
  <2> HIDE DEF i, k, b, a
  <2> QED BY <1>1, <1>2, <1>3, <1>4, <2>1, BmapDirectInv
<1>5. CASE k >= NDIRECT /\ a # 0 /\ inode' = inode /\ LogWrite(p, {BITMAP, b, a})
           /\ disk' = [Balloc(disk, b) EXCEPT !.data[a][k - NDIRECT] = b]
  <2>1. disk' = Linked(Balloc(disk, b), a, k - NDIRECT, b)
    BY <1>5 DEF Linked
  <2> HIDE DEF i, k, b, a
  <2>2. Through(p, i, k, b, a)
    BY <1>1, <1>2, <1>3, <1>5, <2>1 DEF Through
  <2> QED BY <2>2, BmapThroughInv
<1> QED BY <1>1, <1>4, <1>5

-----------------------------------------------------------------------------
(* writei() *)

\* To the end of the block or of the piece.
LEMMA Advance ==
    ASSUME NEW at \in Nat, NEW end \in Nat, at < end, NEW n,
           n = Min({end - at, BSIZE - (at % BSIZE)})
    PROVE  /\ n \in Nat \ {0} /\ at + n <= end
           /\ \A l \in Nat : l * BSIZE < at + n <=> l <= at \div BSIZE
           /\ \A l \in Nat : l < at \div BSIZE => l * BSIZE < at
<1> DEFINE q == at \div BSIZE
           r == at % BSIZE
           s == q * BSIZE
<1>1. q \in Nat /\ r \in Nat /\ r < BSIZE /\ at = s + r /\ s \in Nat /\ BSIZE \in Nat \ {0}
  BY DivMod, Facts
<1>2. n = IF end - at <= BSIZE - r THEN end - at ELSE BSIZE - r
  <2>1. end - at \in Nat /\ BSIZE - r \in Nat
    BY <1>1
  <2> HIDE DEF r
  <2> QED BY <2>1 DEF Min, r
<1>3. (q + 1) * BSIZE = s + BSIZE
  BY <1>1
<1> HIDE DEF r, s, q
<1>4. n \in Nat \ {0} /\ at + n <= end /\ at + n <= s + BSIZE /\ at < at + n
  BY <1>1, <1>2
<1>5. ASSUME NEW l \in Nat
      PROVE  /\ l * BSIZE < at + n <=> l <= q
             /\ l < q => l * BSIZE < at
  <2>1. l * BSIZE \in Nat
    BY Facts
  <2>2. CASE l <= q
    <3>1. l * BSIZE <= s
      BY <1>1, <2>2, Monotone DEF s
    <3>2. l < q => l * BSIZE < at
      <4> SUFFICES ASSUME l < q PROVE l * BSIZE < at
        OBVIOUS
      <4>1. (l + 1) * BSIZE <= s
        BY <1>1, Monotone DEF s
      <4>2. (l + 1) * BSIZE = l * BSIZE + BSIZE
        BY <1>1
      <4> DEFINE z == l * BSIZE
      <4> HIDE DEF z
      <4>3. z \in Nat /\ z + BSIZE <= s
        BY <2>1, <4>1, <4>2 DEF z
      <4>4. z < at
        BY <1>1, <4>3
      <4> QED BY <4>4 DEF z
    <3>3. l * BSIZE < at + n
      BY <1>1, <1>4, <2>1, <3>1
    <3> QED BY <2>2, <3>2, <3>3
  <2>3. CASE l > q
    <3>1. (q + 1) * BSIZE <= l * BSIZE
      BY <1>1, <2>3, Monotone
    <3>2. s + BSIZE <= l * BSIZE
      BY <1>3, <3>1
    <3>3. ~(l * BSIZE < at + n)
      BY <1>1, <1>4, <2>1, <3>2
    <3> QED BY <1>1, <2>3, <3>3
  <2> QED BY <1>1, <2>2, <2>3
<1> QED BY <1>4, <1>5 DEF q

\* One block of a piece is written.
LEMMA CopyMoves ==
    ASSUME NEW bl, NEW ip, NEW dip, NEW m, NEW w, NEW off \in Nat, NEW log, NEW n, NEW b,
           m.at \in Nat, m.end \in Nat, ip.size \in Nat, m.at < m.end,
           n = Min({m.end - m.at, BSIZE - (m.at % BSIZE)}),
           w.at = m.at + n, w.end = m.end, w.left = m.left,
           b = bl[m.at \div BSIZE], b # 0,
           Copying(bl, ip, dip, m, off, log)
    PROVE  Copying(bl, ip, dip, w, off, log \cup {b})
<1> DEFINE k == m.at \div BSIZE
<1>1. /\ off <= ip.size /\ off <= m.at /\ m.at <= m.end
      /\ m.end = off + Chunk(m.left) /\ m.end <= MAXFILE * BSIZE
      /\ \A l \in 0 .. MAXFILE - 1 :
           /\ l * BSIZE < ip.size \/ l * BSIZE < m.at => bl[l] # 0
           /\ bl[l] # 0 => \/ l * BSIZE < ip.size \/ l * BSIZE < m.at
                           \/ l = m.at \div BSIZE /\ m.at < m.end
      /\ m.end <= ip.size => ip = dip
      /\ \A c \in log : \/ c = BITMAP
                        \/ c # 0 /\ c = bl[MAXFILE]
                        \/ c # 0 /\ \E l \in Span(off, m.end) : c = bl[l]
  BY DEF Copying
<1>2. /\ n \in Nat \ {0} /\ m.at + n <= m.end
      /\ \A l \in Nat : l * BSIZE < m.at + n <=> l <= k
      /\ \A l \in Nat : l < k => l * BSIZE < m.at
  BY Advance
<1>3. k \in Span(off, m.end) /\ k \in 0 .. MAXFILE - 1 /\ k \in Nat
  BY <1>1, SpanIn, DivMod
<1>4. ASSUME NEW l \in 0 .. MAXFILE - 1
      PROVE  /\ l * BSIZE < ip.size \/ l * BSIZE < w.at => bl[l] # 0
             /\ bl[l] # 0 => \/ l * BSIZE < ip.size \/ l * BSIZE < w.at
  <2> DEFINE P == l * BSIZE < ip.size
             Q == l * BSIZE < m.at
             R == l * BSIZE < w.at
  <2>1. /\ P \/ Q => bl[l] # 0
        /\ bl[l] # 0 => P \/ Q \/ l = k
    BY <1>1
  <2>2. (R <=> l <= k) /\ (l < k => Q)
    <3>1. l \in Nat /\ w.at = m.at + n
      BY Facts
    <3> HIDE DEF k
    <3> QED BY <1>2, <3>1
  <2>3. Q => R
    <3> DEFINE z == l * BSIZE
    <3>1. z \in Nat
      BY Facts
    <3> HIDE DEF z
    <3>2. z < m.at => z < m.at + n
      BY <1>2, <3>1
    <3> QED BY <3>2 DEF z
  <2>4. bl[k] # 0 /\ k \in Nat /\ l \in Nat
    BY <1>3
  <2> HIDE DEF P, Q, R, k
  <2>5. R => bl[l] # 0
    <3>1. l <= k => l < k \/ l = k
      BY <2>4
    <3> QED BY <2>1, <2>2, <2>4, <3>1
  <2>6. l = k => R
    BY <2>2, <2>4
  <2> QED BY <2>1, <2>3, <2>5, <2>6 DEF P, R
<1>5. /\ off <= w.at /\ w.at <= w.end /\ w.end = off + Chunk(w.left)
      /\ w.end <= MAXFILE * BSIZE /\ (w.end <= ip.size => ip = dip)
  BY <1>1, <1>2
<1>6. \A c \in log \cup {b} : \/ c = BITMAP
                              \/ c # 0 /\ c = bl[MAXFILE]
                              \/ c # 0 /\ \E l \in Span(off, w.end) : c = bl[l]
  BY <1>1, <1>3
<1> QED BY <1>1, <1>4, <1>5, <1>6 DEF Copying

LEMMA WriteBlockInv ==
    ASSUME FilesInv, NEW p \in Proc, WriteBlock(p)
    PROVE  FilesInv'
<1> DEFINE i == my[p].i
           off == file[my[p].f].off
           k == my[p].at \div BSIZE
           b == BlockAt(disk, inode[i], k)
           n == Min({my[p].end - my[p].at, BSIZE - (my[p].at % BSIZE)})
           S == (my[p].at % BSIZE) .. ((my[p].at % BSIZE) + n - 1)
           v == [w \in 0 .. BSIZE - 1 |-> IF w \in S THEN p ELSE disk.data[b][w]]
           m == [my[p] EXCEPT !.at = my[p].at + n]
           bl == Blks(disk, inode[i])
<1>1. /\ At(p, "copy") /\ my[p].at < my[p].end /\ b # 0
      /\ disk' = [disk EXCEPT !.data[b] = v]
      /\ my' = [my EXCEPT ![p] = m]
      /\ LogWrite(p, {b})
      /\ durable' = durable /\ inode' = inode /\ file' = file /\ pc' = pc
  BY Types DEF WriteBlock
<1> HIDE DEF S
<1>2. /\ i \in Inum /\ my[p].f \in FileId /\ file[my[p].f] # Closed
      /\ i = file[my[p].f].ip /\ inode[i].type = "file"
      /\ my[p].left \in Nat \ {0} /\ my[p].at \in Nat /\ my[p].end \in Nat
      /\ off \in Nat /\ inode[i].size \in Nat
      /\ Copying(bl, inode[i], disk.dinode[i], my[p], off, logged[p])
      /\ off <= my[p].at /\ my[p].end <= MAXFILE * BSIZE
  BY <1>1, CopyIs
<1>3. k \in 0 .. MAXFILE - 1 /\ k \in 0 .. MAXFILE /\ k # MAXFILE /\ b = bl[k]
  <2>1. k \in 0 .. MAXFILE - 1
    BY <1>1, <1>2, SpanIn
  <2> HIDE DEF k
  <2> QED BY <2>1, Facts DEF Blks, Blk
<1>4. Locks(p) /\ ~At(p, "trunc")
  BY <1>1 DEF Locks, At
<1>5. \A q \in Proc \ {p} : Locks(q) => my[q].i # i
  BY <1>4, Types DEF LockInv
<1>6. ~Gone(i, k)
  BY <1>4, <1>5 DEF Gone, Locks, At
<1>7. b \in disk.used /\ b \in DataBlock
  <2>1. <<i, k>> \in Place /\ Live[<<i, k>>] = b
    BY <1>2, <1>3, <1>6, LiveIs
  <2> QED BY <1>1, <2>1, Types DEF Owns
<1>8. \A j \in Inum : inode[j].addrs[NDIRECT] # 0 => inode[j].addrs[NDIRECT] # b
  BY <1>2, <1>3, <1>6, IndirectOwn
<1> HIDE DEF b, k, n
<1>9. v \in Block
  <2>1. disk.data[b] \in Block
    BY <1>7, Types
  <2> QED BY <2>1 DEF Block
<1> HIDE DEF v
<1>10. /\ disk' \in Disk /\ disk'.used = disk.used /\ disk'.dinode = disk.dinode
       /\ \A c \in DataBlock \ {b} : disk'.data[c] = disk.data[c]
  <2> DEFINE dt == [disk.data EXCEPT ![b] = v]
  <2>1. dt \in [DataBlock -> Block] /\ \A c \in DataBlock \ {b} : dt[c] = disk.data[c]
    BY <1>7, <1>9, Types
  <2>2. disk' = [disk EXCEPT !.data = dt]
    BY <1>1
  <2> HIDE DEF dt
  <2>3. disk' \in Disk /\ disk'.used = disk.used /\ disk'.dinode = disk.dinode /\ disk'.data = dt
    BY <2>1, <2>2, Types DEF Disk
  <2> QED BY <2>1, <2>3
<1>11. \A j \in Inum : Blks(disk', inode'[j]) = Blks(disk, inode[j])
  <2> SUFFICES ASSUME NEW j \in Inum PROVE Blks(disk', inode'[j]) = Blks(disk, inode[j])
    OBVIOUS
  <2>1. inode[j].addrs[NDIRECT] # 0 =>
          disk'.data[inode[j].addrs[NDIRECT]] = disk.data[inode[j].addrs[NDIRECT]]
    BY <1>8, <1>10, IndirectUsed, Types
  <2>2. inode'[j].addrs = inode[j].addrs
    BY <1>1
  <2> QED BY <2>1, <2>2, BlksSame
<1>12. \A j \in Inum : Untouched(j)
  BY <1>1, <1>10, <1>11 DEF Untouched
<1>13. n \in Nat \ {0}
  BY <1>1, <1>2, Advance DEF n
<1>14. /\ m \in Job /\ m.f = my[p].f /\ m.i = i /\ m.left = my[p].left
       /\ m.at = my[p].at + n /\ m.end = my[p].end
  <2>1. my[p].at + n \in Nat
    <3>1. my[p].at \in Nat
      BY <1>2
    <3> QED BY <1>13, <3>1
  <2>2. my[p] \in Job
    BY Types
  <2> QED BY <2>1, <2>2 DEF Job
<1> HIDE DEF m
<1>15. /\ my' \in [Proc -> Job] /\ my'[p] = m /\ \A q \in Proc \ {p} : my'[q] = my[q]
  BY <1>1, <1>14, Types
<1>16. /\ logged' \in [Proc -> SUBSET LogBlock] /\ logged'[p] = logged[p] \cup {b}
       /\ \A q \in Proc \ {p} : logged'[q] = logged[q]
  BY <1>1, <1>7, Types DEF LogWrite, LogBlock
<1>17. TypeOK'
  BY <1>1, <1>10, <1>15, <1>16, Types DEF TypeOK
<1>18. \A q \in Proc \ {p} : Kept(q)
  BY <1>1, <1>15, <1>16 DEF Kept
<1>19. Locks(p)' /\ my'[p].i = i /\ ~At(p, "trunc")'
  BY <1>1, <1>14, <1>15 DEF Locks, At
<1>20. Live' = Live
  BY <1>4, <1>11, <1>18, <1>19, LiveSame
<1>21. Owns(disk'.used, Live') /\ Sound(durable')
  BY <1>1, <1>10, <1>20, Types
<1>22. /\ \A q \in Proc : FileKept(q)
       /\ \A q \in Proc : At(q, "trunc") => \A f \in FileId : file'[f].ip # my[q].i
  BY <1>1, SameFile
<1>23. Blank(inode'[i]) /\ OpenInv'
  BY <1>1, <1>2, Types DEF InodeInv, OpenInv
<1>24. WriteOf(p)' /\ TruncOf(p)' /\ OtherOf(p)'
  <2>1. pc'[p] = "copy" /\ file' = file
    BY <1>1 DEF At
  <2>2. my'[p].left > 0 /\ my'[p].f = my[p].f /\ my'[p].i = i
    <3>1. my[p].left > 0
      BY <1>2
    <3> QED BY <1>14, <1>15, <3>1
  <2>3. TruncOf(p)' /\ OtherOf(p)'
    BY <2>1 DEF TruncOf, OtherOf, At
  <2> QED BY <1>2, <2>1, <2>2, <2>3 DEF WriteOf
<1>25. CopyOf(p)'
  <2> DEFINE ip == inode[i]
             dip == disk.dinode[i]
             w == my[p]
             lg == logged[p]
  <2>1. /\ w.at \in Nat /\ w.end \in Nat /\ ip.size \in Nat /\ off \in Nat /\ w.at < w.end
        /\ n = Min({w.end - w.at, BSIZE - (w.at % BSIZE)})
        /\ m.at = w.at + n /\ m.end = w.end /\ m.left = w.left
        /\ b = bl[w.at \div BSIZE] /\ b # 0
        /\ Copying(bl, ip, dip, w, off, lg)
    BY <1>1, <1>2, <1>3, <1>14 DEF n, k
  <2> HIDE DEF ip, dip, w, lg, bl, off
  <2>2. Copying(bl, ip, dip, m, off, lg \cup {b})
    BY <2>1, CopyMoves
  <2>3. /\ my'[p] = m /\ m.f = my[p].f /\ m.i = i /\ inode'[i] = ip /\ disk'.dinode[i] = dip
        /\ Blks(disk', inode'[i]) = bl /\ file'[my[p].f].off = off
        /\ logged'[p] = lg \cup {b}
    BY <1>1, <1>2, <1>10, <1>11, <1>14, <1>15, <1>16 DEF ip, dip, lg, bl, off
  <2> QED BY <2>2, <2>3 DEF CopyOf
<1> QED BY <1>2, <1>4, <1>5, <1>12, <1>17, <1>18, <1>19, <1>21, <1>22, <1>23, <1>24, <1>25,
           InodeStepInv

-----------------------------------------------------------------------------
(* The start, and a crash. *)

\* Nobody is in a call.
Rested ==
    /\ TypeOK /\ OpenInv
    /\ inode = disk.dinode /\ Sound(disk) /\ Sound(durable)
    /\ \A p \in Proc : pc[p] = "user" /\ my[p] = Idle /\ logged[p] = {}

LEMMA RestedInv == Rested => FilesInv
<1> SUFFICES ASSUME Rested PROVE FilesInv
  OBVIOUS
<1>1. \A p \in Proc : pc[p] = "user" /\ my[p] = Idle /\ logged[p] = {}
  BY DEF Rested
<1>2. LockInv
  BY <1>1 DEF LockInv, Locks
<1>3. InodeInv
  BY DEF Rested, InodeInv, Sound
<1>4. Owns(disk.used, Live)
  <2>1. \A i, k : ~Gone(i, k)
    BY <1>1 DEF Gone, At
  <2>2. Live = Map(disk, disk.dinode)
    BY <2>1 DEF Rested, Live, Map
  <2> QED BY <2>2 DEF Rested, Sound
<1>5. \A p \in Proc : WriteOf(p) /\ CopyOf(p) /\ TruncOf(p) /\ OtherOf(p)
  BY <1>1 DEF WriteOf, Writes, CopyOf, TruncOf, OtherOf, At
<1> QED BY <1>2, <1>3, <1>4, <1>5 DEF Rested, FilesInv

LEMMA RestedNext == Rested' => FilesInv'
BY RestedInv, PTL

LEMMA CrashInv ==
    ASSUME FilesInv, Crash
    PROVE  FilesInv'
<1>1. /\ disk' = durable /\ inode' = durable.dinode /\ durable' = durable
      /\ file' = [f \in FileId |-> Closed]
      /\ pc' = [p \in Proc |-> "user"]
      /\ my' = [p \in Proc |-> Idle]
      /\ logged' = [p \in Proc |-> {}]
  BY DEF Crash
<1>2. durable \in Disk /\ durable.dinode \in [Inum -> Inode] /\ Sound(durable)
  BY Types DEF Disk
<1>3. TypeOK'
  <2>1. Idle \in Job
    BY DEF Idle, Job
  <2> QED BY <1>1, <1>2, <2>1 DEF TypeOK, Label
<1>4. Rested'
  BY <1>1, <1>2, <1>3 DEF Rested, OpenInv
<1> QED BY <1>4, RestedNext

\* Where mkfs puts the blocks of its file.
LEMMA ImageIs ==
    ASSUME NEW i \in Inum, NEW d, d = Image(i)
    PROVE  d \in Disk /\ Sound(d) /\ \A j \in Inum : d.dinode[j].type = "file"
<1> DEFINE empty == [NoInode EXCEPT !.type = "file", !.nlink = 1]
           full == [empty EXCEPT !.size = MAXFILE * BSIZE, !.addrs = [k \in 0 .. NDIRECT |-> k + 1]]
           c == NDIRECT + 1
<1>1. /\ d.used = 1 .. MAXFILE + 1
      /\ d.dinode = [j \in Inum |-> IF j = i THEN full ELSE empty]
      /\ d.data = [b \in DataBlock |-> IF b = c THEN [w \in 0 .. BSIZE - 1 |-> b + 1 + w]
                                       ELSE Zero]
  BY DEF Image
<1>2. 1 .. MAXFILE + 1 \subseteq DataBlock
  BY FilesAssumption, Facts
<1>3. /\ empty \in Inode /\ empty.addrs = NoInode.addrs /\ empty.size = 0 /\ empty.type = "file"
  <2>1. [k \in 0 .. NDIRECT |-> 0] \in [0 .. NDIRECT -> BlockNo]
    BY DEF BlockNo
  <2> QED BY <2>1 DEF NoInode, Inode
<1>4. /\ full \in Inode /\ full.size = MAXFILE * BSIZE /\ full.type = "file"
      /\ full.addrs = [k \in 0 .. NDIRECT |-> k + 1]
  <2> DEFINE ad == [k \in 0 .. NDIRECT |-> k + 1]
             n == MAXFILE * BSIZE
  <2>1. ad \in [0 .. NDIRECT -> BlockNo]
    BY <1>2, Facts DEF BlockNo
  <2>2. n \in Nat
    BY Facts
  <2>3. full = [empty EXCEPT !.size = n, !.addrs = ad]
    OBVIOUS
  <2> HIDE DEF ad, n, empty, full
  <2>4. full \in Inode /\ full.size = n /\ full.type = "file" /\ full.addrs = ad
    BY <1>3, <2>1, <2>2, <2>3 DEF Inode
  <2> QED BY <2>4 DEF ad, n
<1> HIDE DEF empty, full
<1>5. /\ d.data[c] = [w \in 0 .. BSIZE - 1 |-> c + 1 + w]
      /\ d.data \in [DataBlock -> Block]
  <2>1. c \in DataBlock
    BY <1>2, Facts
  <2>2. [w \in 0 .. BSIZE - 1 |-> c + 1 + w] \in Block
    BY <1>2, Facts DEF Block, BlockNo
  <2>3. Zero \in Block
    BY DEF Zero, Block, BlockNo
  <2> DEFINE v == [w \in 0 .. BSIZE - 1 |-> c + 1 + w]
  <2>4. \A b \in DataBlock : d.data[b] = IF b = c THEN v ELSE Zero
    BY <1>1
  <2>5. d.data = [b \in DataBlock |-> d.data[b]]
    BY <1>1
  <2> HIDE DEF c, v
  <2>6. v \in Block /\ d.data[c] = v /\ \A b \in DataBlock : d.data[b] \in Block
    BY <2>1, <2>2, <2>3, <2>4 DEF v
  <2>7. d.data \in [DataBlock -> Block]
    BY <2>5, <2>6
  <2> QED BY <2>6, <2>7 DEF v
<1>6. d \in Disk
  <2>1. d.used \in SUBSET DataBlock /\ d.dinode \in [Inum -> Inode]
    BY <1>1, <1>2, <1>3, <1>4
  <2> DEFINE u == d.used
             dn == d.dinode
             dt == d.data
  <2>2. d = [used |-> u, dinode |-> dn, data |-> dt]
    BY DEF Image
  <2>3. u \in SUBSET DataBlock /\ dn \in [Inum -> Inode] /\ dt \in [DataBlock -> Block]
    BY <1>5, <2>1
  <2> HIDE DEF u, dn, dt
  <2> QED BY <2>2, <2>3 DEF Disk
<1> DEFINE bl == Blks(d, full)
<1>7. \A k \in 0 .. MAXFILE :
        bl[k] = IF k < NDIRECT THEN k + 1 ELSE IF k = MAXFILE THEN c ELSE k + 2
  <2> SUFFICES ASSUME NEW k \in 0 .. MAXFILE
               PROVE  bl[k] = IF k < NDIRECT THEN k + 1 ELSE IF k = MAXFILE THEN c ELSE k + 2
    OBVIOUS
  <2>1. full.addrs[NDIRECT] = c /\ c # 0 /\ (k < NDIRECT => full.addrs[k] = k + 1)
    BY <1>4, Facts
  <2>2. k >= NDIRECT /\ k # MAXFILE => d.data[c][k - NDIRECT] = k + 2
    BY <1>5, Facts
  <2> QED BY <2>1, <2>2, BlksAre, Facts
<1>8. \A j \in Inum : d.dinode[j] = IF j = i THEN full ELSE empty
  BY <1>1
<1>9. \A k \in 0 .. MAXFILE : Blks(d, empty)[k] = 0
  <2>1. \A k \in 0 .. NDIRECT : NoInode.addrs[k] = 0
    BY DEF NoInode
  <2> QED BY <1>3, <2>1, BlksAre, Facts
<1>10. ASSUME NEW j \in Inum
       PROVE  Whole(d, d.dinode[j]) /\ Blank(d.dinode[j]) /\ d.dinode[j].type = "file"
  <2>1. d.dinode[j].type = "file"
    BY <1>3, <1>4, <1>8
  <2>2. Whole(d, d.dinode[j])
    <3> SUFFICES ASSUME NEW k \in 0 .. MAXFILE - 1
                 PROVE  Blks(d, d.dinode[j])[k] # 0 <=> k * BSIZE < d.dinode[j].size
      BY DEF Whole, Full
    <3>1. k \in 0 .. MAXFILE /\ k \in Nat /\ k * BSIZE \in Nat
      BY Facts
    <3>2. CASE j = i
      <4>1. bl[k] # 0
        BY <1>7, <3>1, Facts
      <4>2. k * BSIZE < MAXFILE * BSIZE
        <5>1. (k + 1) * BSIZE <= MAXFILE * BSIZE
          BY <3>1, Monotone, Facts
        <5>2. (k + 1) * BSIZE = k * BSIZE + BSIZE /\ MAXFILE * BSIZE \in Nat
          BY <3>1, Facts
        <5> DEFINE z == k * BSIZE
                   y == MAXFILE * BSIZE
        <5> HIDE DEF z, y
        <5>3. z < y
          <6>1. z \in Nat /\ y \in Nat /\ z + BSIZE <= y
            BY <3>1, <5>1, <5>2 DEF z, y
          <6> QED BY <6>1, Facts
        <5> QED BY <5>3 DEF z, y
      <4> QED BY <1>4, <1>8, <3>2, <4>1, <4>2
    <3>3. CASE j # i
      BY <1>3, <1>8, <1>9, <3>1, <3>3
    <3> QED BY <3>2, <3>3
  <2> QED BY <2>1, <2>2 DEF Blank
<1>11. Owns(d.used, Map(d, d.dinode))
  <2> DEFINE M == Map(d, d.dinode)
  <2>1. ASSUME NEW j \in Inum, NEW k \in 0 .. MAXFILE
        PROVE  /\ <<j, k>> \in Place
               /\ M[<<j, k>>] = IF j = i THEN bl[k] ELSE 0
    <3>1. <<j, k>> \in Place
      BY DEF Place
    <3>2. M[<<j, k>>] = Blks(d, d.dinode[j])[k]
      <4>1. <<j, k>>[1] = j /\ <<j, k>>[2] = k
        OBVIOUS
      <4> QED BY <3>1, <4>1 DEF Map
    <3> HIDE DEF M
    <3>3. d.dinode[j] = IF j = i THEN full ELSE empty
      BY <1>8
    <3> QED BY <1>9, <3>1, <3>2, <3>3
  <2>2. \A x \in Place : \E j \in Inum, k \in 0 .. MAXFILE : x = <<j, k>>
    BY DEF Place
  <2> HIDE DEF M, bl
  <2>3. \A k \in 0 .. MAXFILE : bl[k] \in 1 .. MAXFILE + 1
    BY <1>7, Facts
  <2>4. \A b \in 1 .. MAXFILE + 1 : \E k \in 0 .. MAXFILE : bl[k] = b
    <3> SUFFICES ASSUME NEW b \in 1 .. MAXFILE + 1
                 PROVE  \E k \in 0 .. MAXFILE : bl[k] = b
      OBVIOUS
    <3>1. CASE b <= NDIRECT
      <4>1. b - 1 \in 0 .. MAXFILE /\ bl[b - 1] = b
        BY <1>7, <3>1, Facts
      <4> QED BY <4>1
    <3>2. CASE b = NDIRECT + 1
      <4>1. MAXFILE \in 0 .. MAXFILE /\ bl[MAXFILE] = b
        BY <1>7, <3>2, Facts
      <4> QED BY <4>1
    <3>3. CASE b > NDIRECT + 1
      <4>1. b - 2 \in 0 .. MAXFILE /\ bl[b - 2] = b
        BY <1>7, <3>3, Facts
      <4> QED BY <4>1
    <3> QED BY <3>1, <3>2, <3>3, Facts
  <2>5. \A k, l \in 0 .. MAXFILE : bl[k] = bl[l] => k = l
    BY <1>7, Facts
  <2>6. \A x \in Place : M[x] \in d.used \cup {0}
    BY <1>1, <2>1, <2>2, <2>3
  <2>7. \A b \in d.used : \E x \in Place : M[x] = b
    <3> SUFFICES ASSUME NEW b \in 1 .. MAXFILE + 1 PROVE \E x \in Place : M[x] = b
      BY <1>1
    <3>1. PICK k \in 0 .. MAXFILE : bl[k] = b
      BY <2>4
    <3>2. <<i, k>> \in Place /\ M[<<i, k>>] = b
      BY <2>1, <3>1
    <3> QED BY <3>2
  <2>8. ASSUME NEW x \in Place, NEW y \in Place, M[x] = M[y], M[x] # 0
        PROVE  x = y
    <3>1. PICK j \in Inum, k \in 0 .. MAXFILE : x = <<j, k>>
      BY <2>2
    <3>2. PICK h \in Inum, l \in 0 .. MAXFILE : y = <<h, l>>
      BY <2>2
    <3>3. j = i /\ h = i /\ bl[k] = bl[l]
      BY <2>1, <2>8, <3>1, <3>2
    <3> QED BY <2>5, <3>1, <3>2, <3>3
  <2> QED BY <2>6, <2>7, <2>8 DEF Owns, M
<1> QED BY <1>6, <1>10, <1>11 DEF Sound

LEMMA InitInv == Init => FilesInv
<1> SUFFICES ASSUME Init PROVE FilesInv
  OBVIOUS
<1>1. /\ durable = disk /\ inode = disk.dinode
      /\ pc = [p \in Proc |-> "user"]
      /\ my = [p \in Proc |-> Idle]
      /\ logged = [p \in Proc |-> {}]
  BY DEF Init
<1>2. disk \in Disk /\ Sound(disk) /\ \A j \in Inum : disk.dinode[j].type = "file"
  BY ImageIs DEF Init
<1>3. file \in [FileId -> File]
  BY DEF Init, File
<1>4. TypeOK
  <2>1. Idle \in Job
    BY DEF Idle, Job
  <2> QED BY <1>1, <1>2, <1>3, <2>1 DEF TypeOK, Label, Disk
<1>5. OpenInv
  BY <1>1, <1>2, <1>3 DEF OpenInv, File
<1>6. Rested
  BY <1>1, <1>2, <1>4, <1>5 DEF Rested
<1> QED BY <1>6, RestedInv

LEMMA NextInv == FilesInv /\ [Next]_vars => FilesInv'
<1> SUFFICES ASSUME FilesInv, [Next]_vars PROVE FilesInv'
  OBVIOUS
<1>1. CASE UNCHANGED vars
  <2>1. /\ disk' = disk /\ durable' = durable /\ inode' = inode /\ file' = file
        /\ pc' = pc /\ my' = my /\ logged' = logged
    BY <1>1 DEF vars
  <2> QED BY <2>1 DEF FilesInv, TypeOK, LockInv, Locks, InodeInv, Locked, OpenInv, Live, Gone,
                      WriteOf, Writes, CopyOf, TruncOf, OtherOf, At
<1>2. CASE Crash
  BY <1>2, CrashInv
<1>3. ASSUME NEW p \in Proc, Step(p)
      PROVE  FilesInv'
  <2>1. CASE \E f \in FileId, n \in Count : WriteCall(p, f, n) \/ Read(p, f, n)
    BY <2>1, WriteCallInv, ReadInv
  <2>2. CASE WriteStart(p)
    BY <2>2, WriteStartInv
  <2>3. CASE BmapIndirect(p)
    BY <2>3, BmapIndirectInv
  <2>4. CASE BmapData(p)
    BY <2>4, BmapDataInv
  <2>5. CASE WriteBlock(p)
    BY <2>5, WriteBlockInv
  <2>6. CASE WriteEnd(p)
    BY <2>6, WriteEndInv
  <2>7. CASE EndOp(p)
    BY <2>7, EndOpInv
  <2>8. CASE \E f \in FileId, i \in Inum : Open(p, f, i) \/ Create(p, f, i)
    BY <2>8, OpenFileInv, CreateInv
  <2>9. CASE \E i \in Inum : Remove(p, i)
    BY <2>9, RemoveInv
  <2>10. CASE \E f \in FileId : Close(p, f)
    BY <2>10, CloseInv
  <2>11. CASE Bfree(p)
    BY <2>11, BfreeInv
  <2>12. CASE TruncEnd(p)
    BY <2>12, TruncEndInv
  <2> QED BY <1>3, <2>1, <2>2, <2>3, <2>4, <2>5, <2>6, <2>7, <2>8, <2>9, <2>10, <2>11, <2>12
          DEF Step
<1> QED BY <1>1, <1>2, <1>3 DEF Next

(* The invariant of the module, for any number of processes, inodes, files   *)
(* and blocks of any size.                                                   *)
THEOREM FilesInvariant == Spec => []FilesInv
BY InitInv, NextInv, PTL DEF Spec

-----------------------------------------------------------------------------
(* What follows from the invariant. *)

LEMMA Disks == FilesInv => DiskConsistent
<1> SUFFICES ASSUME FilesInv PROVE DiskConsistent
  OBVIOUS
<1> DEFINE M == Map(durable, durable.dinode)
           P == {x \in Place : M[x] # 0}
<1>1. /\ durable.used \in SUBSET DataBlock /\ Owns(durable.used, M)
      /\ \A i \in Inum : Whole(durable, durable.dinode[i])
  BY Types DEF Sound, Disk
<1>2. ASSUME NEW i \in Inum, NEW k \in 0 .. MAXFILE
      PROVE  /\ BlockOf(durable, i, k) = Blks(durable, durable.dinode[i])[k]
             /\ <<i, k>> \in Place /\ M[<<i, k>>] = BlockOf(durable, i, k)
  <2>1. BlockOf(durable, i, k) = Blks(durable, durable.dinode[i])[k]
    BY DEF BlockOf, Blks, Blk
  <2>2. <<i, k>> \in Place /\ <<i, k>>[1] = i /\ <<i, k>>[2] = k
    BY DEF Place
  <2> QED BY <2>1, <2>2 DEF Map
<1>3. \A x \in Place : /\ x[1] \in Inum /\ x[2] \in 0 .. MAXFILE /\ x = <<x[1], x[2]>>
  BY DEF Place
<1>4. \A x \in Place : M[x] = BlockOf(durable, x[1], x[2])
  <2> SUFFICES ASSUME NEW x \in Place PROVE M[x] = BlockOf(durable, x[1], x[2])
    OBVIOUS
  <2> DEFINE i == x[1]
             k == x[2]
  <2>1. i \in Inum /\ k \in 0 .. MAXFILE /\ x = <<i, k>>
    BY <1>3
  <2> HIDE DEF i, k, M
  <2>2. M[x] = BlockOf(durable, i, k)
    BY <1>2, <2>1
  <2> QED BY <2>2 DEF i, k
<1> HIDE DEF M
<1>5. Places(durable) = P
  BY <1>4 DEF Places, Place
<1>6. durable.used = {BlockOf(durable, pl[1], pl[2]) : pl \in Places(durable)}
  <2>1. \A b \in durable.used : \E x \in P : M[x] = b
    <3> SUFFICES ASSUME NEW b \in durable.used PROVE \E x \in P : M[x] = b
      OBVIOUS
    <3>1. PICK x \in Place : M[x] = b
      BY <1>1 DEF Owns
    <3> QED BY <1>1, <3>1, Facts
  <2>2. \A x \in P : M[x] \in durable.used
    BY <1>1 DEF Owns
  <2>3. \A x \in P : M[x] = BlockOf(durable, x[1], x[2])
    BY <1>4
  <2> HIDE DEF P
  <2> QED BY <1>5, <2>1, <2>2, <2>3
<1>7. Cardinality(durable.used) = Cardinality(Places(durable))
  <2>1. Cardinality(durable.used) = Cardinality(P)
    BY <1>1, OwnsCount
  <2> QED BY <1>5, <2>1
<1>8. ASSUME NEW i \in Inum, NEW k \in 0 .. MAXFILE - 1
      PROVE  BlockOf(durable, i, k) # 0 <=> k * BSIZE < durable.dinode[i].size
  <2>1. k \in 0 .. MAXFILE
    BY Facts
  <2> QED BY <1>1, <1>2, <2>1 DEF Whole, Full
<1> QED BY <1>6, <1>7, <1>8 DEF DiskConsistent

(* At every moment the disk that a crash would leave has each block free or  *)
(* in one place of one file, and a file has the blocks of its size and no    *)
(* others.                                                                   *)
THEOREM Consistent == Spec => []DiskConsistent
BY FilesInvariant, Disks, PTL

\* bfree() of a free block.
DoubleFree(p) == At(p, "trunc") /\ Victim(p) \notin disk.used \cup {0}

CallsFit == \A p \in Proc : Cardinality(logged[p]) <= MAXOPBLOCKS /\ ~DoubleFree(p)

LEMMA CallsIn == FilesInv => CallsFit
<1> SUFFICES ASSUME FilesInv, NEW p \in Proc
             PROVE  Cardinality(logged[p]) <= MAXOPBLOCKS /\ ~DoubleFree(p)
  BY DEF CallsFit
<1>1. Cardinality(logged[p]) <= MAXOPBLOCKS
  <2>1. CASE pc[p] \in {"user", "write"}
    <3>1. logged[p] \subseteq {BITMAP, IBLOCK}
      BY <2>1, Types DEF OtherOf
    <3> QED BY <3>1, SmallLog
  <2>2. CASE pc[p] = "copy"
    <3> DEFINE i == my[p].i
               off == file[my[p].f].off
               m == my[p]
               ip == inode[i]
               dip == disk.dinode[i]
               bl == Blks(disk, ip)
    <3>1. /\ m.left \in Nat \ {0} /\ m.end \in Nat /\ off \in Nat
          /\ Copying(bl, ip, dip, m, off, logged[p])
      BY <2>2, CopyIs DEF At
    <3> HIDE DEF i, off, m, ip, dip, bl
    <3> QED BY <3>1, PieceFits
  <2>3. CASE pc[p] = "trunc"
    BY <2>3, SmallLog, Types DEF TruncOf, At
  <2>4. CASE pc[p] = "end"
    BY <2>4, Types DEF OtherOf, At
  <2> QED BY <2>1, <2>2, <2>3, <2>4, Types DEF Label
<1>2. ~DoubleFree(p)
  <2> SUFFICES ASSUME At(p, "trunc") PROVE Victim(p) \in disk.used \cup {0}
    BY DEF DoubleFree
  <2> DEFINE i == my[p].i
             k == NextAt(p)
             bl == Blks(disk, inode[i])
  <2>1. /\ i \in Inum /\ k \in 0 .. MAXFILE /\ Victim(p) = bl[k]
        /\ my[p].at <= k \/ bl[k] = 0
    BY VictimIs
  <2>2. CASE bl[k] = 0
    BY <2>1, <2>2
  <2>3. CASE my[p].at <= k
    <3>1. \A q \in Proc : Locks(q) /\ my[q].i = i => q = p
      BY Types DEF LockInv, Locks, At
    <3>2. my[p].at \in Nat
      BY Types, JobIs
    <3>3. ~Gone(i, k)
      <4> HIDE DEF k
      <4> QED BY <2>1, <2>3, <3>1, <3>2, Facts DEF Gone, Locks, At
    <3>4. <<i, k>> \in Place /\ Live[<<i, k>>] = bl[k]
      BY <2>1, <3>3, LiveIs
    <3> QED BY <2>1, <3>4, Types DEF Owns
  <2> QED BY <2>1, <2>2, <2>3
<1> QED BY <1>1, <1>2

(* No transaction has more blocks than begin_op() counts with, and no block  *)
(* is freed that is free, however small the disk is.                         *)
THEOREM TransactionsFit == Spec => []CallsFit
BY FilesInvariant, CallsIn, PTL

\* Blocks for as many files of the largest size as there are inodes.
LargeDisk == Cardinality(DataBlock) >= Cardinality(Inum) * (MAXFILE + 1)

LEMMA RoomLeft ==
    ASSUME FilesInv, LargeDisk, NEW p \in Proc, Missing(p)
    PROVE  FreeBlocks # {}
<1> DEFINE i == my[p].i
           k == NextBlk(p)
           P == {x \in Place : Live[x] # 0}
<1>1. /\ At(p, "copy") /\ i \in Inum /\ k \in 0 .. MAXFILE /\ Blks(disk, inode[i])[k] = 0
  BY MissingIs
<1> HIDE DEF k
<1>2. <<i, k>> \in Place /\ Live[<<i, k>>] = 0
  BY <1>1, LiveIs
<1>3. IsFiniteSet(P) /\ Cardinality(disk.used) = Cardinality(P)
  BY Types, OwnsCount
<1>4. Cardinality(P) < Cardinality(Place)
  <2>1. P \subseteq Place /\ P # Place
    BY <1>2
  <2> HIDE DEF P
  <2>2. Cardinality(P) <= Cardinality(Place) /\ (Cardinality(P) = Cardinality(Place) => P = Place)
    BY <2>1, PlaceFinite, FS_Subset
  <2>3. Cardinality(P) \in Nat /\ Cardinality(Place) \in Nat
    BY <1>3, PlaceFinite, FS_CardinalityType DEF P
  <2> QED BY <2>1, <2>2, <2>3
<1>5. Cardinality(Place) <= Cardinality(DataBlock)
  BY PlaceFinite DEF LargeDisk
<1>6. /\ Cardinality(P) \in Nat /\ Cardinality(Place) \in Nat /\ Cardinality(DataBlock) \in Nat
  BY <1>3, PlaceFinite, Facts, FS_CardinalityType
<1> HIDE DEF P
<1>7. disk.used # DataBlock
  BY <1>3, <1>4, <1>5, <1>6
<1> QED BY <1>7, Types DEF FreeBlocks

(* ... and none is missing, on a disk that has blocks for all the files.     *)
THEOREM Fits ==
    ASSUME LargeDisk
    PROVE  Spec => []TransactionFits
<1>1. FilesInv => TransactionFits
  <2> SUFFICES ASSUME FilesInv PROVE TransactionFits
    OBVIOUS
  <2>1. CallsFit
    BY CallsIn
  <2>2. ASSUME NEW p \in Proc
        PROVE  ~Panics(p)
    BY <2>1, RoomLeft DEF Panics, CallsFit, DoubleFree
  <2> QED BY <2>1, <2>2 DEF TransactionFits, CallsFit
<1> QED BY <1>1, FilesInvariant, PTL
=============================================================================
