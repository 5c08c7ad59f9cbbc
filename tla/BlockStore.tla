----------------------------- MODULE BlockStore -----------------------------
(***************************************************************************)
(* What bread(), bwrite() and brelse() promise log.c and fs.c: the blocks  *)
(* of the disk, each used by one process at a time, which sees what the    *)
(* process before it made of the block.  A block gets to the disk as it is *)
(* in memory.                                                              *)
(***************************************************************************)
CONSTANTS Proc, Block, Val, NoProc

VARIABLES
    mem,      \* the blocks as processes see them
    disk,     \* the blocks on the disk
    holder    \* the process that uses a block

vars == <<mem, disk, holder>>

Init ==
    /\ disk \in [Block -> Val]
    /\ mem = disk
    /\ holder = [b \in Block |-> NoProc]

Take(p, b) ==
    /\ holder[b] = NoProc
    /\ holder' = [holder EXCEPT ![b] = p]
    /\ UNCHANGED <<mem, disk>>

Change(p, b, v) ==
    /\ holder[b] = p
    /\ mem' = [mem EXCEPT ![b] = v]
    /\ UNCHANGED <<disk, holder>>

Save(p, b) ==
    /\ holder[b] = p
    /\ disk' = [disk EXCEPT ![b] = mem[b]]
    /\ UNCHANGED <<mem, holder>>

Give(p, b) ==
    /\ holder[b] = p
    /\ holder' = [holder EXCEPT ![b] = NoProc]
    /\ UNCHANGED <<mem, disk>>

Next ==
    \E p \in Proc, b \in Block :
       \/ Take(p, b) \/ Save(p, b) \/ Give(p, b)
       \/ \E v \in Val : Change(p, b, v)

Spec == Init /\ [][Next]_vars
=============================================================================
