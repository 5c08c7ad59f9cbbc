---------------------------- MODULE ThreadsProps ----------------------------
(***************************************************************************)
(* What processes of several threads have to keep true, over the state of  *)
(* Threads.                                                                *)
(***************************************************************************)
EXTENDS Threads

Live == Slot \ Unused

\* Every thread has a kernel stack of its own, which is not on the free list,
\* until it is joined, reaped or ended by exec(), and then its slot is empty: it
\* owns no stack and is nobody's child.
StacksOwned ==
    /\ \A s \in Live :
         /\ thread[s].state # "EMBRYO" => thread[s].kstack # NoPage
         /\ thread[s].kstack # NoPage =>
              /\ thread[s].kstack \notin free
              /\ \A t \in Live : thread[t].pgdir # thread[s].kstack
              /\ \A t \in Live \ {s} : thread[t].kstack # thread[s].kstack
    /\ \A s \in Unused : thread[s].kstack = NoPage /\ thread[s].parent = Null

\* No page directory is freed under a thread that still runs in it.
PgdirLive ==
    \A s \in Live : thread[s].state # "EMBRYO" => thread[s].pgdir \in Page \ free

\* The memory a thread runs on is its own until it is dead, whichever of its
\* siblings and parents give theirs back meanwhile.
MemoryOwned == StacksOwned /\ PgdirLive

\* The threads of a process are in one address space of one size, and have one
\* parent, and no other process is in it.
OneAddressSpace ==
    \A s, t \in Live :
      thread[s].state # "EMBRYO" /\ thread[t].state # "EMBRYO" =>
        IF thread[s].pid = thread[t].pid
        THEN thread[s].pgdir = thread[t].pgdir /\ thread[s].sz = thread[t].sz
             /\ thread[s].parent = thread[t].parent
        ELSE thread[s].pgdir # thread[t].pgdir

\* thread_join() has no loop around its sleep(), and yet it returns before the
\* thread has ended only to a process that is killed.
JoinAfterEnd ==
    [][\A p \in Slot : JoinWoken(p) =>
         thread[p].killed \/ thread[arg[p]].state = "ZOMBIE"]_vars

\* A wakeup that comes before the sleep, or goes to another thread: nobody
\* sleeps in thread_join() for a thread that has ended, nor in wait() with
\* nothing but zombies to wait for.
SleepersWoken ==
    \A p \in Live : thread[p].state = "SLEEPING" =>
      /\ pc[p] = "join" => thread[arg[p]].state \notin {"ZOMBIE", "UNUSED"}
      /\ pc[p] = "wait" => \E s \in Children(p) : thread[s].state # "ZOMBIE"
=============================================================================
