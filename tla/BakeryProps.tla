----------------------------- MODULE BakeryProps ----------------------------
(***************************************************************************)
(* What the lock of pthread_lock_linux.c has to keep true, over the state  *)
(* of Bakery.                                                              *)
(***************************************************************************)
EXTENDS Bakery

Inside(t) == pc[t] \in {"enter", "add", "unlock"}

\* Mutual exclusion, on processors that delay stores: no order of loads, stores
\* and flushes lets two threads between lock() and unlock().
MutualExclusion == \A t, u \in Thread : Inside(t) /\ Inside(u) => t = u

Waits(t) == pc[t] \in {"choosing", "waiting", "smaller", "equal"}

\* First come, first served: a thread that is inside holds a smaller ticket than
\* all those that wait, ties broken by number, although a ticket is drawn from
\* numbers that others reset meanwhile.
TicketsInOrder ==
    \A t, u \in Thread :
      Inside(t) /\ Waits(u) =>
        \/ Load(t, Number(t)) < Load(u, Number(u))
        \/ Load(t, Number(t)) = Load(u, Number(u)) /\ t < u

\* main()'s own test: when all threads have been joined no increment is lost
\* and the lock is as it was.
TestPasses ==
    Joined =>
      /\ mem[Shared] = n * NUM_ITERS
      /\ \A t \in Thread : mem[Number(t)] = 0 /\ mem[Choosing(t)] = 0

\* Every thread that calls lock() gets it.
EveryThreadEnters == \A t \in Thread : pc[t] = "lock" ~> Inside(t)
=============================================================================
