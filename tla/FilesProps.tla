----------------------------- MODULE FilesProps -----------------------------
(* What the blocks of files must keep, and the files they implement.         *)
EXTENDS Files

-----------------------------------------------------------------------------
(* The disk a crash leaves. *)

BlockOf(d, i, k) == IF k = MAXFILE THEN d.dinode[i].addrs[NDIRECT] ELSE BlockAt(d, d.dinode[i], k)

\* Where the inodes of d name a block.
Places(d) == {pl \in Inum \X (0 .. MAXFILE) : BlockOf(d, pl[1], pl[2]) # 0}

(* Blocks go from one file to another through a bitmap that other calls have *)
(* changed and not committed, and an inode learns of its new blocks in       *)
(* memory first: at every moment the disk that a crash would leave has each  *)
(* block free or in one place of one file, and a file has all the blocks of  *)
(* its size, and no others.                                                  *)
DiskConsistent ==
    /\ durable.used = {BlockOf(durable, pl[1], pl[2]) : pl \in Places(durable)}
    /\ Cardinality(durable.used) = Cardinality(Places(durable))
    /\ \A i \in Inum :
         \A k \in 0 .. MAXFILE - 1 :
           BlockOf(durable, i, k) # 0 <=> k * BSIZE < durable.dinode[i].size

(* param.h: "max # of blocks any FS op writes".  begin_op() rests on it, and *)
(* filewrite() cuts a write into pieces for it, by a formula that leaves     *)
(* room for the inode, the indirect block, the bitmap and unaligned ends.    *)
(* No block is freed twice, and the disk of the instance is large enough.    *)
TransactionFits ==
    \A p \in Proc : Cardinality(logged[p]) <= MAXOPBLOCKS /\ ~Panics(p)

-----------------------------------------------------------------------------
(* Sequences of words. *)

Words(d, i) == Readi(d, d.dinode[i], 0, d.dinode[i].size)

\* A write counts from the moment on when it has the lock.
Content(i) ==
    IF \E p \in Proc : At(p, "trunc") /\ my[p].i = i THEN <<>>
    ELSE IF Locked(i)
    THEN LET p == CHOOSE q \in Proc : At(q, "copy") /\ my[q].i = i
             size == Max({my[p].end, inode[i].size})
         IN  [k \in 1 .. size |->
                IF k \in my[p].at + 1 .. my[p].end THEN p
                ELSE Readi(disk, [inode[i] EXCEPT !.size = size], k - 1, 1)[1]]
    ELSE Words([disk EXCEPT !.dinode = inode], i)

Offset(f) ==
    LET writing == {p \in Proc : At(p, "copy") /\ my[p].f = f}
    IN  IF writing = {} THEN file[f].off ELSE Max({my[p].end : p \in writing})

Bytes == INSTANCE ByteFiles
           WITH content <- [i \in Inum |-> Content(i)],
                saved <- [i \in Inum |-> Words(durable, i)],
                file <- [f \in FileId |-> [ip |-> file[f].ip, off |-> Offset(f)]],
                Blank <- Closed,
                MaxChunk <- Chunk(MAXFILE * BSIZE),
                MaxSize <- MAXFILE * BSIZE

(* Files are written block by block, into blocks that are found through an   *)
(* indirect block and were another file's before, by processes that share an *)
(* offset (the test sharedfd), while others commit or the machine stops:     *)
(* programs see sequences of words, where no write is lost or torn within a  *)
(* transaction, and none changes another file.                               *)
ImplementsByteFiles == Bytes!Spec
=============================================================================
