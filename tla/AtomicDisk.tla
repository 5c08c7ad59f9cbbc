----------------------------- MODULE AtomicDisk -----------------------------
(***************************************************************************)
(* What log.c promises the file system: a disk whose blocks programs read  *)
(* and write in memory, and that keeps, over a crash, all that a system    *)
(* call wrote or nothing of it.  System calls that overlap may share one   *)
(* fate.                                                                   *)
(***************************************************************************)
CONSTANTS Proc, Block, Val, Blank

VARIABLES
    mem,      \* the blocks as programs see them
    durable,  \* the blocks a crash leaves
    open      \* the processes inside a file system call

vars == <<mem, durable, open>>

Init ==
    /\ mem = [b \in Block |-> Blank]
    /\ durable = mem
    /\ open = {}

Begin(p) ==
    /\ open' = open \cup {p}
    /\ UNCHANGED <<mem, durable>>

\* Only inside a system call.
Write(p, b, v) ==
    /\ p \in open
    /\ mem' = [mem EXCEPT ![b] = v]
    /\ UNCHANGED <<durable, open>>

End(p) ==
    /\ open' = open \ {p}
    /\ UNCHANGED <<mem, durable>>

\* Never in the middle of a system call.
Commit ==
    /\ open = {}
    /\ durable' = mem
    /\ UNCHANGED <<mem, open>>

Crash ==
    /\ mem' = durable
    /\ open' = {}
    /\ UNCHANGED durable

Next ==
    \/ \E p \in Proc : Begin(p) \/ End(p) \/ \E b \in Block, v \in Val : Write(p, b, v)
    \/ Commit
    \/ Crash

Spec == Init /\ [][Next]_vars
=============================================================================
