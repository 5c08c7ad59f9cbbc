------------------------------- MODULE Files -------------------------------
(***************************************************************************)
(* The contents of files: read() and write() (file.c), the blocks an inode *)
(* has (fs.c) and the bitmap they come from, the same in all four          *)
(* projects.                                                               *)
(*                                                                         *)
(* An action goes to the next lock that is let go: a step of balloc() or   *)
(* bfree() has the bitmap block to itself, a step of writei() one block of *)
(* the file.  A block has BSIZE words; a word is what an entry of an       *)
(* indirect block takes, or something a process wrote, of which only the   *)
(* process is kept.  Blocks are changed in memory, inside a transaction of *)
(* the log: AtomicDisk, where memory becomes durable when the last         *)
(* system call that is under way ends.  The bitmap is one block (FSSIZE is *)
(* less than BPB) and so are the inodes.                                   *)
(*                                                                         *)
(* Names are left to module Inodes: here a file has one until it is        *)
(* removed, and references that are counted and dropped in one step.       *)
(*                                                                         *)
(* A definition marked "Slip" is no part of the specification: it is a     *)
(* plausible mistake in the definition below it, kept to show that the     *)
(* properties would see it.                                                *)
(***************************************************************************)
EXTENDS Integers, Sequences, FiniteSets, FiniteSetsExt

CONSTANTS
    Proc,
    Inum,           \* inodes for files
    FileId,         \* entries of the file table, which any process may use
    DataBlock,
    NDIRECT, BSIZE,
    MAXOPBLOCKS,
    Count,          \* words programs read and write with one call
    MaxCalls        \* a bound of the instance: calls programs make

Null == "none"

ASSUME FilesAssumption ==
    /\ IsFiniteSet(Inum) /\ Null \notin Inum /\ IsFiniteSet(DataBlock)
    /\ DataBlock \subseteq Nat \ {0} /\ 1 .. NDIRECT + BSIZE + 1 \subseteq DataBlock
    /\ NDIRECT \in Nat /\ BSIZE \in Nat \ {0}
    /\ MAXOPBLOCKS \in Nat /\ MAXOPBLOCKS >= 6
    /\ Count \subseteq Nat \ {0}

NINDIRECT == BSIZE
MAXFILE == NDIRECT + NINDIRECT

Closed == [ip |-> Null, off |-> 0]
Idle == [f |-> Null, i |-> Null, left |-> 0, at |-> 0, end |-> 0]

NoInode == [type |-> "free", nlink |-> 0, size |-> 0, addrs |-> [k \in 0 .. NDIRECT |-> 0]]
Zero == [w \in 0 .. BSIZE - 1 |-> 0]

\* The blocks that are not data, as the log counts them.
BITMAP == -1
IBLOCK == -2

VARIABLES
    disk,      \* the blocks as system calls see them: bitmap, inodes, data
    durable,   \* ... and as a crash leaves them
    inode,     \* the copies of the inodes in icache
    file,      \* ftable.file
    pc, my,    \* where a process is; its file, its inode and how far it is
    logged,    \* the blocks it wrote in its transaction
    calls      \* calls made so far

vars == <<disk, durable, inode, file, pc, my, logged, calls>>

At(p, l) == pc[p] = l
Goto(p, l) == pc' = [pc EXCEPT ![p] = l]
LogWrite(p, blocks) == logged' = [logged EXCEPT ![p] = @ \cup blocks]

\* The bound of the instance.
Counted == calls < MaxCalls /\ calls' = calls + 1

\* Between begin_op() and end_op().
InOp(p) == pc[p] \in {"copy", "trunc", "end"}

\* ilock() has to wait.
Locked(i) == \E p \in Proc : pc[p] \in {"copy", "trunc"} /\ my[p].i = i

Update(i) == [disk EXCEPT !.dinode[i] = inode'[i]]

-----------------------------------------------------------------------------
(* bmap(), balloc() *)

\* The k-th block of an inode, 0 if there is none.
BlockAt(d, ip, k) ==
    IF k < NDIRECT THEN ip.addrs[k]
    ELSE IF ip.addrs[NDIRECT] = 0 THEN 0
    ELSE d.data[ip.addrs[NDIRECT]][k - NDIRECT]

\* Slip: a block is not zeroed.
SlipBalloc(d, b) == [d EXCEPT !.used = @ \cup {b}]

Balloc(d, b) == [d EXCEPT !.used = @ \cup {b}, !.data[b] = Zero]

FreeBlocks == DataBlock \ disk.used

\* The place p writes next, when it has no block yet.
Missing(p) ==
    /\ At(p, "copy") /\ my[p].at < my[p].end
    /\ BlockAt(disk, inode[my[p].i], my[p].at \div BSIZE) = 0

BmapIndirect(p) ==
    LET i == my[p].i
        b == Min(FreeBlocks)
    IN  /\ Missing(p) /\ my[p].at \div BSIZE >= NDIRECT
        /\ inode[i].addrs[NDIRECT] = 0
        /\ FreeBlocks # {}
        /\ disk' = Balloc(disk, b)
        /\ inode' = [inode EXCEPT ![i].addrs[NDIRECT] = b]
        /\ LogWrite(p, {BITMAP, b})
        /\ UNCHANGED <<durable, file, pc, my, calls>>

BmapData(p) ==
    LET i == my[p].i
        k == my[p].at \div BSIZE
        b == Min(FreeBlocks)
        a == inode[i].addrs[NDIRECT]
    IN  /\ Missing(p) /\ FreeBlocks # {}
        /\ \/ /\ k < NDIRECT
              /\ disk' = Balloc(disk, b)
              /\ inode' = [inode EXCEPT ![i].addrs[k] = b]
              /\ LogWrite(p, {BITMAP, b})
           \/ /\ k >= NDIRECT /\ a # 0
              /\ disk' = [Balloc(disk, b) EXCEPT !.data[a][k - NDIRECT] = b]
              /\ LogWrite(p, {BITMAP, b, a})
              /\ UNCHANGED inode
        /\ UNCHANGED <<durable, file, pc, my, calls>>

-----------------------------------------------------------------------------
(* write() *)

\* Slip: a write is not cut.
SlipChunk(n) == n

\* filewrite(): what goes into one transaction, of n words that are left.
Chunk(n) == Min({n, ((MAXOPBLOCKS - 1 - 1 - 2) \div 2) * BSIZE})

WriteCall(p, f, n) ==
    /\ At(p, "user") /\ file[f] # Closed
    /\ Counted
    /\ my' = [my EXCEPT ![p] = [Idle EXCEPT !.f = f, !.i = file[f].ip, !.left = n]]
    /\ Goto(p, "write")
    /\ UNCHANGED <<disk, durable, inode, file, logged>>

\* Slip: ilock() is forgotten.
SlipWriteStart(p) ==
    LET i == my[p].i
        off == file[my[p].f].off
        n == Chunk(my[p].left)
    IN  /\ At(p, "write")
        /\ IF off > inode[i].size \/ off + n > MAXFILE * BSIZE
           THEN my' = [my EXCEPT ![p] = Idle] /\ Goto(p, "user")
           ELSE /\ my' = [my EXCEPT ![p].at = off, ![p].end = off + n]
                /\ Goto(p, "copy")
        /\ UNCHANGED <<disk, durable, inode, file, logged, calls>>

\* begin_op(), ilock() and writei() as far as its loop, which refuses what would
\* be larger than a file can be.  A transaction without a write only puts the
\* commit off, so one that waits for the lock, or fails, is left out.
WriteStart(p) ==
    LET i == my[p].i
        off == file[my[p].f].off
        n == Chunk(my[p].left)
    IN  /\ At(p, "write") /\ ~Locked(i)
        /\ IF off > inode[i].size \/ off + n > MAXFILE * BSIZE
           THEN my' = [my EXCEPT ![p] = Idle] /\ Goto(p, "user")
           ELSE /\ my' = [my EXCEPT ![p].at = off, ![p].end = off + n]
                /\ Goto(p, "copy")
        /\ UNCHANGED <<disk, durable, inode, file, logged, calls>>

\* One block of the loop.
WriteBlock(p) ==
    LET at == my[p].at
        b == BlockAt(disk, inode[my[p].i], at \div BSIZE)
        n == Min({my[p].end - at, BSIZE - (at % BSIZE)})
    IN  /\ At(p, "copy") /\ at < my[p].end /\ b # 0
        /\ disk' = [disk EXCEPT !.data[b] =
                      [w \in 0 .. BSIZE - 1 |->
                         IF w \in (at % BSIZE) .. ((at % BSIZE) + n - 1) THEN p ELSE @[w]]]
        /\ my' = [my EXCEPT ![p].at = at + n]
        /\ LogWrite(p, {b})
        /\ UNCHANGED <<durable, inode, file, pc, calls>>

\* The end of writei(), and the offset, under the lock that goes here.
WriteEnd(p) ==
    LET i == my[p].i
        f == my[p].f
        end == my[p].end
        grown == end > inode[i].size
    IN  /\ At(p, "copy") /\ my[p].at = end
        /\ inode' = IF grown THEN [inode EXCEPT ![i].size = end] ELSE inode
        /\ disk' = IF grown THEN Update(i) ELSE disk
        /\ LogWrite(p, IF grown THEN {IBLOCK} ELSE {})
        /\ file' = [file EXCEPT ![f].off = end]
        /\ my' = [my EXCEPT ![p] = [Idle EXCEPT !.f = f, !.i = i,
                                      !.left = my[p].left - Chunk(my[p].left)]]
        /\ Goto(p, "end")
        /\ UNCHANGED <<durable, calls>>

\* The last call that is under way commits for all.
EndOp(p) ==
    /\ At(p, "end")
    /\ durable' = IF \E q \in Proc \ {p} : InOp(q) THEN durable ELSE disk
    /\ logged' = [logged EXCEPT ![p] = {}]
    /\ IF my[p].left > 0 THEN Goto(p, "write") /\ UNCHANGED my
       ELSE Goto(p, "user") /\ my' = [my EXCEPT ![p] = Idle]
    /\ UNCHANGED <<disk, inode, file, calls>>

-----------------------------------------------------------------------------
(* read() *)

\* readi(): up to n words from off on.
Readi(d, ip, off, n) ==
    [k \in 1 .. Min({n, ip.size - off}) |->
       d.data[BlockAt(d, ip, (off + k - 1) \div BSIZE)][(off + k - 1) % BSIZE]]

Read(p, f, n) ==
    LET i == file[f].ip
        off == file[f].off
    IN  /\ Counted
        /\ At(p, "user") /\ file[f] # Closed /\ ~Locked(i)
        /\ off <= inode[i].size
        /\ file' = [file EXCEPT ![f].off = off + Len(Readi(disk, inode[i], off, n))]
        /\ UNCHANGED <<disk, durable, inode, pc, my, logged>>

-----------------------------------------------------------------------------
(* open(), close() and unlink(), as far as contents are concerned *)

Opened(f, i) == file[f] = Closed /\ file' = [file EXCEPT ![f] = [ip |-> i, off |-> 0]]

Open(p, f, i) ==
    /\ Counted
    /\ At(p, "user") /\ inode[i].nlink > 0 /\ ~Locked(i)
    /\ Opened(f, i)
    /\ UNCHANGED <<disk, durable, inode, pc, my, logged>>

\* ialloc() and the name.
Create(p, f, i) ==
    /\ Counted
    /\ At(p, "user") /\ inode[i].type = "free" /\ ~Locked(i)
    /\ inode' = [inode EXCEPT ![i] = [NoInode EXCEPT !.type = "file", !.nlink = 1]]
    /\ disk' = Update(i)
    /\ Opened(f, i)
    /\ LogWrite(p, {IBLOCK})
    /\ Goto(p, "end")
    /\ UNCHANGED <<durable, my>>

\* iput() of the last reference, or not.
Iput(p, i) ==
    IF inode'[i].nlink = 0 /\ \A f \in FileId : file'[f].ip # i
    THEN Goto(p, "trunc") /\ my' = [my EXCEPT ![p] = [Idle EXCEPT !.i = i]]
    ELSE Goto(p, "end") /\ UNCHANGED my

Remove(p, i) ==
    /\ Counted
    /\ At(p, "user") /\ inode[i].nlink > 0 /\ ~Locked(i)
    /\ inode' = [inode EXCEPT ![i].nlink = 0]
    /\ disk' = Update(i)
    /\ LogWrite(p, {IBLOCK})
    /\ UNCHANGED <<durable, file>>
    /\ Iput(p, i)

\* No other process is in a call on f: it has a reference of its own.
Close(p, f) ==
    /\ Counted
    /\ At(p, "user") /\ file[f] # Closed
    /\ \A q \in Proc : my[q].f # f
    /\ ~Locked(file[f].ip)
    /\ file' = [file EXCEPT ![f] = Closed]
    /\ UNCHANGED <<disk, durable, inode, logged>>
    /\ Iput(p, file[f].ip)

-----------------------------------------------------------------------------
(* itrunc() and the end of iput() *)

Present(p) == {k \in my[p].at .. MAXFILE - 1 : BlockAt(disk, inode[my[p].i], k) # 0}

\* The block that is freed next: those of the file, then the indirect one.
Victim(p) ==
    IF Present(p) # {} THEN BlockAt(disk, inode[my[p].i], Min(Present(p)))
    ELSE inode[my[p].i].addrs[NDIRECT]

Bfree(p) ==
    LET i == my[p].i
        k == IF Present(p) # {} THEN Min(Present(p)) ELSE MAXFILE
    IN  /\ At(p, "trunc") /\ Victim(p) \in disk.used
        /\ disk' = [disk EXCEPT !.used = @ \ {Victim(p)}]
        /\ inode' = IF k < NDIRECT THEN [inode EXCEPT ![i].addrs[k] = 0]
                    ELSE IF k = MAXFILE THEN [inode EXCEPT ![i].addrs[NDIRECT] = 0]
                    ELSE inode
        /\ my' = [my EXCEPT ![p].at = k + 1]
        /\ LogWrite(p, {BITMAP})
        /\ UNCHANGED <<durable, file, pc, calls>>

TruncEnd(p) ==
    LET i == my[p].i
    IN  /\ At(p, "trunc") /\ Victim(p) = 0
        /\ inode' = [inode EXCEPT ![i] = NoInode]
        /\ disk' = Update(i)
        /\ my' = [my EXCEPT ![p] = Idle]
        /\ LogWrite(p, {IBLOCK})
        /\ Goto(p, "end")
        /\ UNCHANGED <<durable, file, calls>>

-----------------------------------------------------------------------------
\* bfree() of a free block, and balloc() with none left.
Panics(p) ==
    \/ At(p, "trunc") /\ Victim(p) \notin disk.used \cup {0}
    \/ Missing(p) /\ FreeBlocks = {}

\* mkfs: a disk with a file as large as can be, the others empty.
Image(i) ==
    LET empty == [NoInode EXCEPT !.type = "file", !.nlink = 1]
        full == [empty EXCEPT !.size = MAXFILE * BSIZE, !.addrs = [k \in 0 .. NDIRECT |-> k + 1]]
    IN  [used |-> 1 .. MAXFILE + 1,
         dinode |-> [j \in Inum |-> IF j = i THEN full ELSE empty],
         data |-> [b \in DataBlock |-> IF b = NDIRECT + 1 THEN [w \in 0 .. BSIZE - 1 |-> b + 1 + w]
                                       ELSE Zero]]

Init ==
    /\ \E i \in Inum : disk = Image(i)
    /\ durable = disk
    /\ inode = disk.dinode
    /\ \E ip \in [FileId -> Inum] : file = [f \in FileId |-> [ip |-> ip[f], off |-> 0]]
    /\ pc = [p \in Proc |-> "user"]
    /\ my = [p \in Proc |-> Idle]
    /\ logged = [p \in Proc |-> {}]
    /\ calls = 0

Crash ==
    /\ disk' = durable
    /\ inode' = durable.dinode
    /\ file' = [f \in FileId |-> Closed]
    /\ pc' = [p \in Proc |-> "user"]
    /\ my' = [p \in Proc |-> Idle]
    /\ logged' = [p \in Proc |-> {}]
    /\ UNCHANGED <<durable, calls>>

Step(p) ==
    \/ \E f \in FileId, n \in Count : WriteCall(p, f, n) \/ Read(p, f, n)
    \/ WriteStart(p) \/ BmapIndirect(p) \/ BmapData(p) \/ WriteBlock(p)
    \/ WriteEnd(p) \/ EndOp(p)
    \/ \E f \in FileId, i \in Inum : Open(p, f, i) \/ Create(p, f, i)
    \/ \E i \in Inum : Remove(p, i)
    \/ \E f \in FileId : Close(p, f)
    \/ Bfree(p) \/ TruncEnd(p)

Next == (\E p \in Proc : Step(p)) \/ Crash

Spec == Init /\ [][Next]_vars
=============================================================================
