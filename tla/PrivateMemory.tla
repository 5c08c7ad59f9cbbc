--------------------------- MODULE PrivateMemory ---------------------------
(***************************************************************************)
(* What fork, sbrk, exec and exit promise user code, whatever the kernel   *)
(* shares underneath: each process has a memory of its own.  A store is    *)
(* seen by its process alone; fork hands the child the parent's memory as  *)
(* it is at one instant; new pages read as zero.                           *)
(***************************************************************************)
EXTENDS Integers

CONSTANTS Proc, initproc, MaxVa, Val, Zero

\* The memories of at most MaxVa pages, and that of a process that has none.
Memory == UNION {[0 .. n - 1 -> Val] : n \in 1 .. MaxVa}
NoMemory == <<>>

VARIABLE mem        \* [Proc -> Memory \cup {NoMemory}]

Alive(p) == mem[p] # NoMemory
Size(m) == CHOOSE n \in 1 .. MaxVa : DOMAIN m = 0 .. n - 1

Init == mem = [p \in Proc |-> IF p = initproc THEN [a \in 0 .. 0 |-> Zero]
                                              ELSE NoMemory]

Write(p) ==
    /\ Alive(p)
    /\ \E a \in DOMAIN mem[p], v \in Val : mem' = [mem EXCEPT ![p][a] = v]

Fork(p) ==
    /\ Alive(p)
    /\ \E c \in Proc : ~Alive(c) /\ mem' = [mem EXCEPT ![c] = mem[p]]

\* sbrk: pages keep what they hold, new ones are zero.
Resize(p) ==
    /\ Alive(p)
    /\ \E n \in 1 .. MaxVa :
         mem' = [mem EXCEPT ![p] =
                   [a \in 0 .. n - 1 |-> IF a < Size(@) THEN @[a] ELSE Zero]]

\* exec: nothing of the old memory is left in the new one.
Replace(p) ==
    /\ Alive(p)
    /\ \E n \in 1 .. MaxVa : mem' = [mem EXCEPT ![p] = [a \in 0 .. n - 1 |-> Zero]]

\* exit, or the kernel out of memory for a page this process writes.
Lose(p) == Alive(p) /\ mem' = [mem EXCEPT ![p] = NoMemory]

Next == \E p \in Proc : Write(p) \/ Fork(p) \/ Resize(p) \/ Replace(p) \/ Lose(p)

Spec == Init /\ [][Next]_mem
=============================================================================
