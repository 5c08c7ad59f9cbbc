---------------------------- MODULE BufferCache ----------------------------
(***************************************************************************)
(* The buffer cache (bio.c), the sleep lock of each buffer (sleeplock.c)   *)
(* and the disk driver with its interrupt (ide.c), the same in all four    *)
(* projects, used as log.c and fs.c use them: who changes a block hands it *)
(* to log_write(), which marks it B_DIRTY and leaves it in the cache, or   *)
(* to bwrite(); and in the end every B_DIRTY block is written.             *)
(*                                                                         *)
(* An action is one critical section of bcache.lock, of idelock or of the  *)
(* spin lock in a sleep lock; sleep() ends it and wakeup() comes from      *)
(* another one.  kill() wakes a sleeper too, and it sleeps again.          *)
(*                                                                         *)
(* A definition marked "Slip" is no part of the specification: it is a     *)
(* plausible mistake in the definition below it, kept to show that the     *)
(* properties would see it.                                                *)
(***************************************************************************)
EXTENDS Integers, Sequences, FiniteSets

CONSTANTS
    Proc, Block,
    Val, Blank,    \* contents of a block, and what all have at first
    Written,       \* the blocks that are ever changed; the superblock is not
    NBUF,
    MAXDIRTY,      \* blocks the log lets its users leave B_DIRTY
    NoProc, NoBlock, NoVal

ASSUME BufferAssumption ==
    /\ Written \subseteq Block /\ Blank \in Val
    /\ NBUF \in Nat \ {0} /\ MAXDIRTY \in Nat
    /\ NoProc \notin Proc /\ NoBlock \notin Block /\ NoVal \notin Val

Buf == 1 .. NBUF

VARIABLES
    buf,       \* the buffers
    lru,       \* bcache.head.next and so on: the buffers, the last used first
    idequeue,
    disk,
    pc, mine   \* where a process is, and the buffer it works on

vars == <<buf, lru, idequeue, disk, pc, mine>>

NoBuf == 0
Fresh == [block |-> NoBlock, valid |-> FALSE, dirty |-> FALSE, refcnt |-> 0,
          data |-> NoVal, holder |-> NoProc]

At(p, l) == pc[p] = l
Goto(p, l) == pc' = [pc EXCEPT ![p] = l]

\* wakeup(): those asleep at l for buffer i go on at m.
Woken(f, i, l, m) ==
    [p \in Proc |-> IF f[p] = l /\ mine[p] = i THEN m ELSE f[p]]

-----------------------------------------------------------------------------
(* bget() *)

Cached(b) == {i \in Buf : buf[i].block = b}
Unused == {i \in Buf : buf[i].refcnt = 0 /\ ~buf[i].dirty}

BgetHit(p, b) ==
    /\ At(p, "idle")
    /\ \E i \in Cached(b) :
         /\ buf' = [buf EXCEPT ![i].refcnt = @ + 1]
         /\ mine' = [mine EXCEPT ![p] = i]
    /\ Goto(p, "lock")
    /\ UNCHANGED <<lru, idequeue, disk>>

\* The place in the list of the last buffer of those in "set".
LastIn(set) == {k \in Buf : lru[k] \in set /\ \A j \in Buf : j > k => lru[j] \notin set}

\* Slip: a dirty buffer is as good as another.
SlipVictim == LastIn({i \in Buf : buf[i].refcnt = 0})

\* That of the buffer that was not used for the longest time.
Victim == LastIn(Unused)

BgetRecycle(p, b) ==
    /\ At(p, "idle") /\ Cached(b) = {}
    /\ \E k \in Victim :
         LET i == lru[k]
         IN  /\ buf' = [buf EXCEPT ![i] = [Fresh EXCEPT !.block = b, !.refcnt = 1,
                                                  !.holder = buf[i].holder]]
             /\ mine' = [mine EXCEPT ![p] = i]
    /\ Goto(p, "lock")
    /\ UNCHANGED <<lru, idequeue, disk>>

\* panic("bget: no buffers"), and p is stuck.
BgetPanics(p, b) == At(p, "idle") /\ Cached(b) = {} /\ \A k \in Buf : lru[k] \notin Unused

-----------------------------------------------------------------------------
(* acquiresleep() and releasesleep() of the lock of a buffer. *)

\* Slip: what follows does not look at B_VALID under the lock.
SlipAcquireSleep(p) ==
    LET i == mine[p]
    IN  /\ At(p, "lock") /\ buf[i].holder = NoProc
        /\ buf' = [buf EXCEPT ![i].holder = p]
        /\ Goto(p, IF buf[i].refcnt > 1 THEN "held" ELSE "read")
        /\ UNCHANGED <<lru, idequeue, disk, mine>>

AcquireSleep(p) ==
    LET i == mine[p]
    IN  /\ At(p, "lock") /\ buf[i].holder = NoProc
        /\ buf' = [buf EXCEPT ![i].holder = p]
        /\ Goto(p, IF buf[i].valid THEN "held" ELSE "read")
        /\ UNCHANGED <<lru, idequeue, disk, mine>>

LockSleep(p) ==
    /\ At(p, "lock") /\ buf[mine[p]].holder # NoProc
    /\ Goto(p, "asleep on lock")
    /\ UNCHANGED <<buf, lru, idequeue, disk, mine>>

\* Slip: nobody is woken.
SlipReleaseSleep(p) ==
    LET i == mine[p]
    IN  /\ At(p, "held")
        /\ buf' = [buf EXCEPT ![i].holder = NoProc]
        /\ Goto(p, "release")
        /\ UNCHANGED <<lru, idequeue, disk, mine>>

\* The first half of brelse().
ReleaseSleep(p) ==
    LET i == mine[p]
    IN  /\ At(p, "held")
        /\ buf' = [buf EXCEPT ![i].holder = NoProc]
        /\ pc' = [Woken(pc, i, "asleep on lock", "lock") EXCEPT ![p] = "release"]
        /\ UNCHANGED <<lru, idequeue, disk, mine>>

\* The list with buffer i moved to its front.
Promoted(i) ==
    LET k == CHOOSE n \in Buf : lru[n] = i
    IN  [n \in Buf |-> IF n = 1 THEN i ELSE IF n <= k THEN lru[n - 1] ELSE lru[n]]

\* Slip: only the last user counts itself out.
SlipBrelse(p) ==
    LET i == mine[p]
        last == buf[i].refcnt = 1
    IN  /\ At(p, "release")
        /\ buf' = [buf EXCEPT ![i].refcnt = IF last THEN 0 ELSE @]
        /\ lru' = IF last THEN Promoted(i) ELSE lru
        /\ mine' = [mine EXCEPT ![p] = NoBuf]
        /\ Goto(p, "idle")
        /\ UNCHANGED <<idequeue, disk>>

\* The second half of brelse().
Brelse(p) ==
    LET i == mine[p]
    IN  /\ At(p, "release")
        /\ buf' = [buf EXCEPT ![i].refcnt = @ - 1]
        /\ lru' = IF buf[i].refcnt = 1 THEN Promoted(i) ELSE lru
        /\ mine' = [mine EXCEPT ![p] = NoBuf]
        /\ Goto(p, "idle")
        /\ UNCHANGED <<idequeue, disk>>

-----------------------------------------------------------------------------
(* iderw(): the request is queued and the process sleeps, under idelock. *)

Iderw(p, i) ==
    /\ idequeue' = Append(idequeue, i)
    /\ Goto(p, "asleep on disk")

\* The rest of bread().
ReadBlock(p) ==
    /\ At(p, "read")
    /\ Iderw(p, mine[p])
    /\ UNCHANGED <<buf, lru, disk, mine>>

\* The caller changes the data and calls log_write() or bwrite().
Pinned == {i \in Buf : buf[i].dirty}

LogWrite(p, v) ==
    LET i == mine[p]
    IN  /\ At(p, "held") /\ buf[i].block \in Written
        /\ Cardinality(Pinned \cup {i}) <= MAXDIRTY
        /\ buf' = [buf EXCEPT ![i] = [@ EXCEPT !.data = v, !.dirty = TRUE]]
        /\ UNCHANGED <<lru, idequeue, disk, pc, mine>>

Bwrite(p, v) ==
    LET i == mine[p]
    IN  /\ At(p, "held") /\ buf[i].block \in Written
        /\ buf' = [buf EXCEPT ![i] = [@ EXCEPT !.data = v, !.dirty = TRUE]]
        /\ Iderw(p, i)
        /\ UNCHANGED <<lru, disk, mine>>

\* (b->flags & (B_VALID|B_DIRTY)) == B_VALID
Done(i) == buf[i].valid /\ ~buf[i].dirty

\* The loop of iderw() after a wakeup.
IderwLoop(p) ==
    /\ At(p, "woken")
    /\ Goto(p, IF Done(mine[p]) THEN "held" ELSE "asleep on disk")
    /\ UNCHANGED <<buf, lru, idequeue, disk, mine>>

\* The disk is done with the first request; idestart() gives it the next.
Ideintr ==
    LET i == Head(idequeue)
        b == buf[i].block
    IN  /\ idequeue # <<>>
        /\ disk' = IF buf[i].dirty THEN [disk EXCEPT ![b] = buf[i].data] ELSE disk
        /\ buf' = [buf EXCEPT ![i] = [@ EXCEPT !.valid = TRUE, !.dirty = FALSE,
                                        !.data = IF buf[i].dirty THEN buf[i].data
                                                                 ELSE disk[b]]]
        /\ idequeue' = Tail(idequeue)
        /\ pc' = Woken(pc, i, "asleep on disk", "woken")
        /\ UNCHANGED <<lru, mine>>

\* The part of kill() that matters here.
KillWakes(p) ==
    /\ \/ At(p, "asleep on lock") /\ Goto(p, "lock")
       \/ At(p, "asleep on disk") /\ Goto(p, "woken")
    /\ UNCHANGED <<buf, lru, idequeue, disk, mine>>

-----------------------------------------------------------------------------
Init ==
    /\ buf = [i \in Buf |-> Fresh]
    /\ lru = [k \in Buf |-> NBUF + 1 - k]
    /\ idequeue = <<>>
    /\ disk = [b \in Block |-> Blank]
    /\ pc = [p \in Proc |-> "idle"]
    /\ mine = [p \in Proc |-> NoBuf]

Bget(p) == \E b \in Block : BgetHit(p, b) \/ BgetRecycle(p, b)
Change(p) == \E v \in Val : LogWrite(p, v) \/ Bwrite(p, v)
Lock(p) == AcquireSleep(p) \/ LockSleep(p)
GoOn(p) == ReadBlock(p) \/ IderwLoop(p) \/ ReleaseSleep(p) \/ Brelse(p)

Next ==
    \/ \E p \in Proc : Bget(p) \/ Change(p) \/ Lock(p) \/ GoOn(p) \/ KillWakes(p)
    \/ Ideintr

Spec == Init /\ [][Next]_vars

\* The disk answers, a process goes on that can, does not write the block it
\* holds for ever, and gets a lock that is let go again and again.
FairSpec ==
    /\ Spec
    /\ WF_vars(Ideintr)
    /\ \A p \in Proc : WF_vars(GoOn(p)) /\ SF_vars(AcquireSleep(p) \/ ReleaseSleep(p))
=============================================================================
