-------------------------- MODULE BufferCacheProps --------------------------
(* What the buffer cache must keep, and the block store it implements. *)
EXTENDS BufferCache

Holds(p) == mine[p] # NoBuf /\ buf[mine[p]].holder = p

\* The process that has a block with its contents.
Holder(b) ==
    LET h == {p \in Proc : Holds(p) /\ buf[mine[p]].block = b /\ buf[mine[p]].valid}
    IN  IF h = {} THEN NoProc ELSE CHOOSE p \in h : TRUE

Mem(b) ==
    LET c == {i \in Cached(b) : buf[i].valid}
    IN  IF c = {} THEN disk[b] ELSE buf[CHOOSE i \in c : TRUE].data

Store == INSTANCE BlockStore WITH
            mem <- [b \in Block |-> Mem(b)],
            holder <- [b \in Block |-> Holder(b)]

(* Buffers are given from block to block, read while others wait for them,   *)
(* and let go in two steps; yet a block has one user at a time, who sees     *)
(* what the last one made of it, and goes to the disk as it is in memory.    *)
ImplementsBlockStore == Store!Spec

(* bget() finds a block under bcache.lock and locks its buffer after that;   *)
(* in between the reference alone keeps the buffer from being given away. So *)
(* a block never has two buffers, a process gets the block it asked for (the *)
(* count is that of its users), no lock is held by a process that is not one *)
(* of them, and what is clean in the cache is on the disk.                   *)
CacheSound ==
    /\ \A b \in Block : Cardinality(Cached(b)) <= 1
    /\ \A i \in Buf :
         /\ buf[i].refcnt = Cardinality({p \in Proc : mine[p] = i})
         /\ buf[i].holder # NoProc => mine[buf[i].holder] = i
         /\ buf[i].valid /\ ~buf[i].dirty => buf[i].data = disk[buf[i].block]
    /\ \A p \in Proc : pc[p] \in {"held", "asleep on disk", "woken"} => Holds(p)
    /\ \A p \in Proc : pc[p] = "held" => buf[mine[p]].valid

(* As long as the log leaves no more than NBUF - #Proc blocks dirty, a bread *)
(* finds a buffer: none is lost to a count that does not come back.          *)
BuffersSuffice == \A p \in Proc : \A b \in Block : ~BgetPanics(p, b)

(* Every bread() and bwrite() returns: the disk wakes the process it works   *)
(* for, whoever lets a lock go wakes those who wait, and a process woken     *)
(* without reason waits again without missing the real end.                  *)
BreadReturns == \A p \in Proc : (mine[p] # NoBuf /\ pc[p] # "release") ~> (pc[p] = "held")
=============================================================================
