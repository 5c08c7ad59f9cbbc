------------------------------ MODULE LogProps ------------------------------
(***************************************************************************)
(* What the log has to keep true, over the state of Log.                   *)
(***************************************************************************)
EXTENDS Log

\* log.c:20-23 and log.c:132: begin_op() lets a system call in only when the
\* log has room for all it may write, so log_write() never panics.
NoPanic == ~panicked

\* A block in the log is dirty, and so stays in the cache, until it is
\* installed: write_log() and the readers see what the system calls wrote.
LoggedBlocksPinned ==
    \A i \in 1 .. Len(lh) :
      phase \in {"none", "log", "head"} => dirty[lh[i]] /\ cache[lh[i]] # NotCached

\* What recovery would make of the disk as it is.
Recovered ==
    [b \in Block |->
       IF b \in ToSet(dhead) THEN dlog[CHOOSE i \in DOMAIN dhead : dhead[i] = b] ELSE disk[b]]
Seen == [b \in Block |-> IF recovering THEN Recovered[b] ELSE Data(b)]

\* With no system call under way and no commit, all that was ever written would
\* survive a crash: end_op() of the last one returns when it does.
QuiescentDurable ==
    outstanding = 0 /\ ~committing /\ ~panicked => Seen = Recovered

\* The log implements AtomicDisk: a crash at any point, also in the middle of a
\* commit or of a recovery, leaves each system call done or not done at all.
Atomic == INSTANCE AtomicDisk
            WITH mem <- Seen, durable <- Recovered,
                 open <- {p \in Proc : pc[p] \in {"in", "logging"}}
ImplementsAtomicDisk == Atomic!Spec

\* Nobody sleeps in begin_op() for ever: the one who makes room wakes it.
BeginOpWoken == \A p \in Proc : pc[p] = "asleep" ~> panicked \/ pc[p] # "asleep"
=============================================================================
