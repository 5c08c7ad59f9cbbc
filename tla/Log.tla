-------------------------------- MODULE Log --------------------------------
(***************************************************************************)
(* The write-ahead log of the file system (log.c, the same in all four     *)
(* projects) with the buffers of bio.c it relies on, the processes that    *)
(* make file system calls, and crashes.                                    *)
(*                                                                         *)
(* A critical section of log.lock is one action.  So is a bread() that is  *)
(* followed at once by the bwrite() of one block: what happens while the   *)
(* disk is busy is no concern of the log, for the buffer is locked.  A     *)
(* block is one sector, which the disk writes whole or not at all.         *)
(*                                                                         *)
(* A definition marked "Slip" is no part of the specification: it is a     *)
(* plausible mistake in the definition below it, kept to show that the     *)
(* properties would see it.                                                *)
(***************************************************************************)
EXTENDS Integers, Sequences, SequencesExt, FiniteSets

CONSTANTS
    Proc,
    Block,         \* home blocks, those a system call writes
    Val, Blank,    \* contents of a block, and what mkfs leaves in it
    LOGSIZE, MAXOPBLOCKS,
    NLOG,          \* log.size: sb.nlog, which mkfs makes LOGSIZE
    OpWrites       \* blocks that one system call writes

ASSUME LogAssumption ==
    /\ LOGSIZE \in Nat /\ NLOG \in Nat
    /\ MAXOPBLOCKS \in Nat \ {0} /\ MAXOPBLOCKS <= LOGSIZE
    /\ OpWrites \in 0 .. MAXOPBLOCKS
    /\ Blank \in Val

NoProc == "none"
NotCached == "not cached"

ASSUME NoneAssumption == NoProc \notin Proc /\ NotCached \notin Val

VARIABLES
    disk,        \* the home blocks
    dlog,        \* the log blocks, at log.start + i
    dhead,       \* the blocks listed in the header, at log.start
    cache,       \* data of the buffer of a home block
    dirty,       \* its B_DIRTY
    locked,      \* the holder of its sleeplock, outside commit()
    lh,          \* log.lh
    outstanding, committing,
    phase, tail, \* where commit() or recover_from_log() is
    recovering,
    pc, left,    \* of a process, and the blocks its system call may add to the log
    panicked

onDisk == <<disk, dlog, dhead>>
buffers == <<cache, dirty, locked>>
log == <<lh, outstanding, committing>>
proc == <<pc, left>>
vars == <<onDisk, buffers, log, phase, tail, recovering, proc, panicked>>

-----------------------------------------------------------------------------
(* Buffers. *)

Data(b) == IF cache[b] = NotCached THEN disk[b] ELSE cache[b]
Locks(p) == {b \in Block : locked[b] = p}
Free(b) == locked[b] = NoProc

\* bget() may give any buffer away that is neither in use nor dirty.
Evict(b) ==
    /\ Free(b) /\ ~dirty[b] /\ cache[b] # NotCached
    /\ cache' = [cache EXCEPT ![b] = NotCached]
    /\ UNCHANGED <<onDisk, dirty, locked, log, phase, tail, recovering, proc, panicked>>

\* A process that reads a block outside a system call of the log, as fileread.
ReadBlock(p, b) ==
    /\ pc[p] = "idle" /\ ~recovering /\ Free(b)
    /\ locked' = [locked EXCEPT ![b] = p]
    /\ cache' = [cache EXCEPT ![b] = Data(b)]
    /\ pc' = [pc EXCEPT ![p] = "reading"]
    /\ UNCHANGED <<onDisk, dirty, log, phase, tail, recovering, left, panicked>>

Unlocked(p) == [b \in Block |-> IF locked[b] = p THEN NoProc ELSE locked[b]]

ReadDone(p) ==
    /\ pc[p] = "reading"
    /\ locked' = Unlocked(p)
    /\ pc' = [pc EXCEPT ![p] = "idle"]
    /\ UNCHANGED <<onDisk, cache, dirty, log, phase, tail, recovering, left, panicked>>

-----------------------------------------------------------------------------
(* begin_op, log_write and end_op. *)

\* wakeup(&log)
Woken == [q \in Proc |-> IF pc[q] = "asleep" THEN "woken" ELSE pc[q]]

HasRoom == Len(lh) + (outstanding + 1) * MAXOPBLOCKS <= LOGSIZE

BeginOp(p) ==
    /\ pc[p] \in {"idle", "woken"} /\ ~recovering
    /\ ~committing /\ HasRoom
    /\ outstanding' = outstanding + 1
    /\ pc' = [pc EXCEPT ![p] = "in"]
    /\ left' = [left EXCEPT ![p] = OpWrites]
    /\ UNCHANGED <<onDisk, buffers, lh, committing, phase, tail, recovering, panicked>>

BeginSleep(p) ==
    /\ pc[p] \in {"idle", "woken"} /\ ~recovering
    /\ committing \/ ~HasRoom
    /\ pc' = [pc EXCEPT ![p] = "asleep"]
    /\ UNCHANGED <<onDisk, buffers, log, phase, tail, recovering, left, panicked>>

\* bread(), the change of the data, and the checks of log_write(), which it
\* makes before it takes log.lock.  A call may write a block of the log again:
\* itrunc() frees its blocks in one block of the bitmap, one by one.
Modify(p, b, v) ==
    /\ pc[p] = "in" /\ Free(b)
    /\ left[p] > 0 \/ b \in ToSet(lh)
    /\ locked' = [locked EXCEPT ![b] = p]
    /\ cache' = [cache EXCEPT ![b] = v]
    /\ pc' = [pc EXCEPT ![p] = "logging"]
    /\ panicked' = (Len(lh) >= LOGSIZE \/ Len(lh) >= NLOG - 1 \/ outstanding < 1)
    /\ UNCHANGED <<onDisk, dirty, log, phase, tail, recovering, left>>

\* Slip: no absorption.
LogWriteUnabsorbed(p) ==
    \E b \in Locks(p) :
      /\ pc[p] = "logging"
      /\ lh' = Append(lh, b)
      /\ dirty' = [dirty EXCEPT ![b] = TRUE]
      /\ locked' = [locked EXCEPT ![b] = NoProc]
      /\ pc' = [pc EXCEPT ![p] = "in"]
      /\ left' = [left EXCEPT ![p] = IF b \in ToSet(lh) THEN @ ELSE @ - 1]
      /\ UNCHANGED <<onDisk, cache, outstanding, committing, phase, tail, recovering,
                     panicked>>

\* Slip: B_DIRTY is not set.
LogWriteUnpinned(p) ==
    \E b \in Locks(p) :
      /\ pc[p] = "logging"
      /\ lh' = IF b \in ToSet(lh) THEN lh ELSE Append(lh, b)
      /\ locked' = [locked EXCEPT ![b] = NoProc]
      /\ pc' = [pc EXCEPT ![p] = "in"]
      /\ left' = [left EXCEPT ![p] = IF b \in ToSet(lh) THEN @ ELSE @ - 1]
      /\ UNCHANGED <<onDisk, cache, dirty, outstanding, committing, phase, tail,
                     recovering, panicked>>

\* The rest of log_write(), with log absorption, and brelse().
LogWrite(p) ==
    \E b \in Locks(p) :
      /\ pc[p] = "logging"
      /\ lh' = IF b \in ToSet(lh) THEN lh ELSE Append(lh, b)
      /\ dirty' = [dirty EXCEPT ![b] = TRUE]
      /\ locked' = [locked EXCEPT ![b] = NoProc]
      /\ pc' = [pc EXCEPT ![p] = "in"]
      /\ left' = [left EXCEPT ![p] = IF b \in ToSet(lh) THEN @ ELSE @ - 1]
      /\ UNCHANGED <<onDisk, cache, outstanding, committing, phase, tail, recovering,
                     panicked>>

\* The last system call to end commits.
EndOp(p) ==
    /\ pc[p] = "in"
    /\ outstanding' = outstanding - 1
    /\ panicked' = committing
    /\ IF outstanding' = 0
       THEN /\ committing' = TRUE
            /\ phase' = IF lh = <<>> THEN "done" ELSE "log"
            /\ tail' = 1
            /\ pc' = [pc EXCEPT ![p] = "commit"]
       ELSE /\ pc' = [Woken EXCEPT ![p] = "idle"]
            /\ UNCHANGED <<committing, phase, tail>>
    /\ UNCHANGED <<onDisk, buffers, lh, recovering, left>>

\* Slip: nobody is woken up.
EndCommitSilent(p) ==
    /\ pc[p] = "commit" /\ phase = "done"
    /\ committing' = FALSE
    /\ phase' = "none"
    /\ pc' = [pc EXCEPT ![p] = "idle"]
    /\ UNCHANGED <<onDisk, buffers, lh, outstanding, tail, recovering, left, panicked>>

\* end_op() after commit()
EndCommit(p) ==
    /\ pc[p] = "commit" /\ phase = "done"
    /\ committing' = FALSE
    /\ phase' = "none"
    /\ pc' = [Woken EXCEPT ![p] = "idle"]
    /\ UNCHANGED <<onDisk, buffers, lh, outstanding, tail, recovering, left, panicked>>

-----------------------------------------------------------------------------
(* commit() and recover_from_log(). *)

\* One round of a loop over log.lh, which goes on to "next" after the last.
Round(next) ==
    IF tail < Len(lh) THEN tail' = tail + 1 /\ UNCHANGED phase
    ELSE tail' = 1 /\ phase' = next

\* Slip: the header grows with every block.
WriteLogHeaded ==
    /\ phase = "log" /\ Free(lh[tail])
    /\ cache' = [cache EXCEPT ![lh[tail]] = Data(lh[tail])]
    /\ dlog' = [dlog EXCEPT ![tail] = Data(lh[tail])]
    /\ dhead' = SubSeq(lh, 1, tail)
    /\ Round("head")
    /\ UNCHANGED <<disk, dirty, locked, log, recovering, proc, panicked>>

\* write_log(): a block from the cache to the log.
WriteLog ==
    /\ phase = "log" /\ Free(lh[tail])
    /\ cache' = [cache EXCEPT ![lh[tail]] = Data(lh[tail])]
    /\ dlog' = [dlog EXCEPT ![tail] = Data(lh[tail])]
    /\ Round("head")
    /\ UNCHANGED <<disk, dhead, dirty, locked, log, recovering, proc, panicked>>

\* Slip: the blocks are not installed.
WriteHeadOnly ==
    /\ phase = "head"
    /\ dhead' = lh
    /\ phase' = "erase"
    /\ UNCHANGED <<disk, dlog, buffers, log, tail, recovering, proc, panicked>>

\* write_head(): the commit.
WriteHead ==
    /\ phase = "head"
    /\ dhead' = lh
    /\ phase' = "install"
    /\ UNCHANGED <<disk, dlog, buffers, log, tail, recovering, proc, panicked>>

\* install_trans(): a block from the log to its home.
Install ==
    /\ phase = "install" /\ Free(lh[tail])
    /\ cache' = [cache EXCEPT ![lh[tail]] = dlog[tail]]
    /\ disk' = [disk EXCEPT ![lh[tail]] = dlog[tail]]
    /\ dirty' = [dirty EXCEPT ![lh[tail]] = FALSE]
    /\ Round("erase")
    /\ UNCHANGED <<dlog, dhead, locked, log, recovering, proc, panicked>>

\* log.lh.n = 0, and write_head(); the end of recovery too.
Erase ==
    /\ phase = "erase"
    /\ lh' = <<>>
    /\ dhead' = <<>>
    /\ phase' = IF recovering THEN "none" ELSE "done"
    /\ recovering' = FALSE
    /\ UNCHANGED <<disk, dlog, buffers, outstanding, committing, tail, proc, panicked>>

\* read_head()
ReadHead ==
    /\ phase = "read head"
    /\ lh' = dhead
    /\ phase' = IF dhead = <<>> THEN "erase" ELSE "install"
    /\ UNCHANGED <<onDisk, buffers, outstanding, committing, tail, recovering, proc,
                   panicked>>

\* The machine stops and starts again.
Boot ==
    /\ cache' = [b \in Block |-> NotCached]
    /\ dirty' = [b \in Block |-> FALSE]
    /\ locked' = [b \in Block |-> NoProc]
    /\ lh' = <<>> /\ outstanding' = 0 /\ committing' = FALSE
    /\ phase' = "read head" /\ tail' = 1 /\ recovering' = TRUE
    /\ pc' = [p \in Proc |-> "idle"]
    /\ left' = [p \in Proc |-> 0]
Crash == Boot /\ UNCHANGED <<onDisk, panicked>>

-----------------------------------------------------------------------------
Init ==
    /\ disk = [b \in Block |-> Blank]
    /\ dlog = [i \in 1 .. LOGSIZE |-> Blank]
    /\ dhead = <<>>
    /\ cache = [b \in Block |-> NotCached]
    /\ dirty = [b \in Block |-> FALSE]
    /\ locked = [b \in Block |-> NoProc]
    /\ lh = <<>> /\ outstanding = 0 /\ committing = FALSE
    /\ phase = "read head" /\ tail = 1 /\ recovering = TRUE
    /\ pc = [p \in Proc |-> "idle"]
    /\ left = [p \in Proc |-> 0]
    /\ panicked = FALSE

ProcStep(p) ==
    \/ BeginOp(p) \/ BeginSleep(p) \/ LogWrite(p) \/ EndOp(p) \/ EndCommit(p)
    \/ ReadDone(p)
    \/ \E b \in Block : ReadBlock(p, b) \/ \E v \in Val : Modify(p, b, v)

CommitStep == WriteLog \/ WriteHead \/ Install \/ Erase \/ ReadHead

Next == /\ ~panicked
        /\ \/ \E p \in Proc : ProcStep(p)
           \/ CommitStep
           \/ \E b \in Block : Evict(b)
           \/ Crash

Spec == Init /\ [][Next]_vars

\* A system call that is on its way goes on, and comes to an end however often it
\* writes; a reader lets its block go, and commit() gets a block that is let go
\* again and again.
FairSpec ==
    /\ Spec
    /\ \A p \in Proc : WF_vars(LogWrite(p)) /\ SF_vars(EndOp(p)) /\ WF_vars(EndCommit(p))
                       /\ WF_vars(ReadDone(p))
    /\ SF_vars(CommitStep)
=============================================================================
