----------------------------- MODULE Log_proofs -----------------------------
(***************************************************************************)
(* The write-ahead log of Log, proved for any number of processes, blocks  *)
(* and values: LogInv is inductive, and with it Log implements AtomicDisk. *)
(***************************************************************************)
EXTENDS LogProps, FiniteSetTheorems, SequenceTheorems, TLAPS

-----------------------------------------------------------------------------
(* The inductive invariant. *)

PcLabel == {"idle", "asleep", "woken", "reading", "in", "logging", "commit"}
Phase == {"read head", "none", "log", "head", "install", "erase", "done"}

TypeOK ==
    /\ disk \in [Block -> Val]
    /\ dlog \in [1 .. LOGSIZE -> Val]
    /\ dhead \in Seq(Block) /\ lh \in Seq(Block)
    /\ cache \in [Block -> Val \cup {NotCached}]
    /\ dirty \in [Block -> BOOLEAN]
    /\ locked \in [Block -> Proc \cup {NoProc}]
    /\ outstanding \in Nat /\ committing \in BOOLEAN
    /\ phase \in Phase /\ tail \in Nat /\ recovering \in BOOLEAN
    /\ pc \in [Proc -> PcLabel] /\ left \in [Proc -> 0 .. OpWrites]
    /\ panicked \in BOOLEAN

Open == {p \in Proc : pc[p] \in {"in", "logging"}}

\* What the system calls under way may still add to the log.
Slack == MAXOPBLOCKS - OpWrites
Reserved == {t \in Open \X (1 .. MAXOPBLOCKS) : t[2] <= left[t[1]] + Slack}

\* The log has the block that a call is about to log, or has reserved room for it.
InLog(b) == \E k \in 1 .. Len(lh) : lh[k] = b
RoomForWrites ==
    \A p \in Proc, b \in Block :
      pc[p] = "logging" /\ locked[b] = p => left[p] > 0 \/ InLog(b)

\* The log has room for all of it.
RoomInv ==
    /\ IsFiniteSet(Open) /\ outstanding = Cardinality(Open)
    /\ Len(lh) + Cardinality(Reserved) <= LOGSIZE
    /\ RoomForWrites

\* Who is where while the log commits or recovers.
ControlInv ==
    /\ recovering => /\ phase \in {"read head", "install", "erase"}
                     /\ ~committing
                     /\ \A p \in Proc : pc[p] = "idle"
    /\ ~recovering => /\ phase # "read head"
                      /\ committing <=> phase # "none"
    /\ committing => Open = {}
    /\ \A p \in Proc : pc[p] = "commit" => committing
    /\ \A p, q \in Proc : pc[p] = "commit" /\ pc[q] = "commit" => p = q
    /\ phase = "none" /\ Open = {} => lh = <<>>
    /\ phase \in {"log", "install"} => tail \in 1 .. Len(lh)
    /\ phase \in {"read head", "head"} => tail = 1
    /\ phase = "head" => lh # <<>>
    /\ phase = "done" => lh = <<>>

\* Who uses a buffer.
LockInv ==
    /\ \A b \in Block : locked[b] # NoProc => pc[locked[b]] \in {"reading", "logging"}
    /\ \A b, c \in Block : locked[b] = locked[c] /\ locked[b] # NoProc => b = c

NoTwice(s) == \A j, k \in 1 .. Len(s) : s[j] = s[k] => j = k

\* A block that a call is changing.
Modified(b) == locked[b] # NoProc /\ pc[locked[b]] = "logging"

\* The blocks listed, and the committed ones.
HeadInv ==
    /\ NoTwice(lh) /\ NoTwice(dhead) /\ Len(dhead) <= LOGSIZE
    /\ phase \in {"none", "log", "head", "done"} => dhead = <<>>
    /\ phase \in {"install", "erase"} => dhead = lh

\* A buffer holds what its block holds, unless the log has the block.
BufferOK(b) ==
    /\ dirty[b] => cache[b] # NotCached /\ InLog(b) /\ ~recovering
    /\ cache[b] # NotCached /\ ~dirty[b] /\ ~Modified(b) => cache[b] = disk[b]
    /\ Modified(b) => cache[b] # NotCached
BufferInv == \A b \in Block : BufferOK(b)

\* How far the copies are, to the log and from the log to their home.
CopyOK(k) ==
    /\ phase \in {"none", "log", "head"} => dirty[lh[k]]
    /\ (phase = "head" \/ (phase = "log" /\ k < tail)) => dlog[k] = cache[lh[k]]
    /\ (phase = "erase" \/ (phase = "install" /\ k < tail)) =>
         ~dirty[lh[k]] /\ disk[lh[k]] = dlog[k]
    /\ phase = "install" /\ k >= tail =>
         recovering \/ (dirty[lh[k]] /\ cache[lh[k]] = dlog[k])
CopyInv == \A k \in 1 .. Len(lh) : CopyOK(k)

DataInv == HeadInv /\ BufferInv /\ CopyInv

LogInv == TypeOK /\ RoomInv /\ ControlInv /\ LockInv /\ DataInv

-----------------------------------------------------------------------------
(* Numbers and sequences. *)

LEMMA Constants ==
    /\ LOGSIZE \in Nat /\ NLOG \in Nat /\ MAXOPBLOCKS \in Nat /\ OpWrites \in Nat
    /\ OpWrites <= MAXOPBLOCKS /\ Slack \in Nat /\ Slack = MAXOPBLOCKS - OpWrites
BY LogAssumption DEF Slack

\* A header that lists something has a first block.
LEMMA HasFirst ==
    ASSUME NEW s \in Seq(Block)
    PROVE  Len(s) \in Nat /\ (s # <<>> <=> 1 \in 1 .. Len(s))
BY EmptySeq

\* The log lists a block.
LEMMA Listed ==
    ASSUME TypeOK, NEW b \in Block
    PROVE  b \in ToSet(lh) <=> InLog(b)
BY DEF TypeOK, ToSet, InLog

\* The reservations can be counted, one call has at most MAXOPBLOCKS of them.
LEMMA ReservedFinite ==
    ASSUME RoomInv
    PROVE  IsFiniteSet(Reserved) /\ Cardinality(Reserved) \in Nat
<1>1. IsFiniteSet(1 .. MAXOPBLOCKS) /\ IsFiniteSet(Open)
  BY Constants, FS_Interval DEF RoomInv
<1>2. IsFiniteSet(Open \X (1 .. MAXOPBLOCKS))
  BY <1>1, FS_Product
<1>3. IsFiniteSet(Reserved)
  BY <1>2, FS_Subset DEF Reserved
<1> QED BY <1>3, FS_CardinalityType

\* Who is in a system call is counted.
LEMMA OpenCounted ==
    ASSUME RoomInv, NEW p \in Proc, pc[p] \in {"in", "logging"}
    PROVE  outstanding >= 1
<1>1. p \in Open
  BY DEF Open
<1>2. IsFiniteSet(Open) /\ Cardinality(Open) \in Nat /\ outstanding = Cardinality(Open)
  BY FS_CardinalityType DEF RoomInv
<1>3. Cardinality(Open) # 0
  BY <1>1, <1>2, FS_EmptySet
<1> QED BY <1>2, <1>3

\* While a system call is under way there is neither a commit nor a recovery.
LEMMA OpenQuiet ==
    ASSUME ControlInv, phase \in Phase, NEW p \in Proc, pc[p] \in {"in", "logging"}
    PROVE  ~committing /\ ~recovering /\ phase = "none" /\ p \in Open
BY DEF ControlInv, Open, Phase

\* A block of the log has a place on the disk.
LEMMA TailInLog ==
    ASSUME TypeOK, RoomInv, ControlInv, phase \in {"log", "install"}
    PROVE  /\ tail \in 1 .. Len(lh) /\ tail \in 1 .. LOGSIZE /\ tail \in Nat
           /\ lh[tail] \in Block /\ dlog[tail] \in Val
           /\ Len(lh) \in Nat /\ Len(lh) <= LOGSIZE
<1>1. tail \in 1 .. Len(lh) /\ Len(lh) \in Nat /\ LOGSIZE \in Nat
  <2>1. Len(lh) \in Nat
    BY DEF TypeOK
  <2>2. tail \in 1 .. Len(lh)
    BY DEF ControlInv
  <2> QED BY <2>1, <2>2, Constants
<1>2. Len(lh) <= LOGSIZE
  BY <1>1, ReservedFinite DEF RoomInv
<1> QED BY <1>1, <1>2 DEF TypeOK

\* The data of a block is there, in its buffer or on the disk.
LEMMA DataTyped == TypeOK => \A b \in Block : Data(b) \in Val
BY DEF TypeOK, Data

-----------------------------------------------------------------------------
(* Every step keeps it. *)

LEMMA TypeNext ==
    ASSUME LogInv, Next
    PROVE  TypeOK'
<1> USE DEF LogInv
<1>1. ASSUME NEW p \in Proc, BeginOp(p) PROVE TypeOK'
  <2>1. left' \in [Proc -> 0 .. OpWrites]
    BY <1>1, Constants DEF TypeOK, BeginOp
  <2>2. pc' \in [Proc -> PcLabel]
    BY <1>1 DEF TypeOK, BeginOp, PcLabel
  <2> QED BY <1>1, <2>1, <2>2 DEF TypeOK, BeginOp, buffers, onDisk
<1>2. ASSUME NEW p \in Proc, BeginSleep(p) PROVE TypeOK'
  BY <1>2 DEF TypeOK, PcLabel, Phase, BeginSleep, onDisk, buffers, log, HasRoom
<1>3. ASSUME NEW p \in Proc, LogWrite(p) PROVE TypeOK'
  <2>1. PICK b \in Block : locked[b] = p /\ LogWrite(p)!(b)
    BY <1>3 DEF LogWrite, Locks
  <2>2. lh' \in Seq(Block)
    BY <2>1 DEF TypeOK
  <2>3. left' \in [Proc -> 0 .. OpWrites]
    <3>1. CASE b \in ToSet(lh)
      <4>1. left' = [left EXCEPT ![p] = left[p]]
        BY <2>1, <3>1
      <4> QED BY <4>1 DEF TypeOK
    <3>2. CASE b \notin ToSet(lh)
      <4>1. left' = [left EXCEPT ![p] = left[p] - 1]
        BY <2>1, <3>2
      <4>2. left[p] \in 0 .. OpWrites /\ left[p] > 0
        BY <2>1, <3>2, Listed DEF TypeOK, RoomInv, RoomForWrites
      <4>3. left[p] - 1 \in 0 .. OpWrites
        BY <4>2, Constants
      <4> QED BY <4>1, <4>3 DEF TypeOK
    <3> QED BY <3>1, <3>2
  <2>4. pc' \in [Proc -> PcLabel]
    BY <2>1 DEF TypeOK, PcLabel
  <2>5. dirty' \in [Block -> BOOLEAN] /\ locked' \in [Block -> Proc \cup {NoProc}]
    BY <2>1 DEF TypeOK
  <2> QED BY <2>1, <2>2, <2>3, <2>4, <2>5 DEF TypeOK, onDisk
<1>4. ASSUME NEW p \in Proc, EndOp(p) PROVE TypeOK'
  <2>1. outstanding' = outstanding - 1 /\ outstanding - 1 \in Nat
    <3>1. outstanding >= 1
      BY <1>4, OpenCounted DEF EndOp
    <3> QED BY <1>4, <3>1 DEF TypeOK, EndOp
  <2>2. pc' \in [Proc -> PcLabel] /\ phase' \in Phase
    BY <1>4 DEF TypeOK, EndOp, Woken, PcLabel, Phase
  <2>3. tail' \in Nat /\ committing' \in BOOLEAN /\ panicked' \in BOOLEAN
    <3>1. CASE outstanding' = 0
      <4>1. tail' = 1 /\ committing' = TRUE /\ panicked' = committing
        BY <1>4, <3>1 DEF EndOp
      <4> QED BY <4>1 DEF TypeOK
    <3>2. CASE outstanding' # 0
      BY <1>4, <3>2 DEF TypeOK, EndOp
    <3> QED BY <3>1, <3>2
  <2> QED BY <1>4, <2>1, <2>2, <2>3 DEF TypeOK, EndOp, onDisk, buffers
<1>5. ASSUME NEW p \in Proc, EndCommit(p) PROVE TypeOK'
  BY <1>5 DEF TypeOK, PcLabel, Phase, EndCommit, onDisk, buffers, Woken
<1>6. ASSUME NEW p \in Proc, ReadDone(p) PROVE TypeOK'
  BY <1>6 DEF TypeOK, PcLabel, Phase, ReadDone, onDisk, log, Unlocked
<1>7. ASSUME NEW p \in Proc, NEW b \in Block, ReadBlock(p, b) PROVE TypeOK'
  BY <1>7 DEF TypeOK, PcLabel, Phase, ReadBlock, onDisk, log, Data, Free
<1>8. ASSUME NEW p \in Proc, NEW b \in Block, NEW v \in Val, Modify(p, b, v) PROVE TypeOK'
  BY <1>8 DEF TypeOK, PcLabel, Phase, Modify, onDisk, log, Free
<1>9. CASE WriteLog
  <2>1. lh[tail] \in Block /\ Data(lh[tail]) \in Val
    BY <1>9, TailInLog, DataTyped DEF WriteLog
  <2>2. cache' \in [Block -> Val \cup {NotCached}] /\ dlog' \in [1 .. LOGSIZE -> Val]
    BY <1>9, <2>1 DEF TypeOK, WriteLog
  <2>3. tail' \in Nat /\ phase' \in Phase
    <3>1. CASE tail < Len(lh)
      BY <1>9, <3>1 DEF TypeOK, WriteLog, Round
    <3>2. CASE ~(tail < Len(lh))
      BY <1>9, <3>2 DEF TypeOK, WriteLog, Round, Phase
    <3> QED BY <3>1, <3>2
  <2> QED BY <1>9, <2>1, <2>2, <2>3 DEF TypeOK, WriteLog, log, proc
<1>10. CASE WriteHead
  BY <1>10 DEF TypeOK, PcLabel, Phase, WriteHead, buffers, log, proc
<1>11. CASE Install
  <2>1. lh[tail] \in Block /\ dlog[tail] \in Val
    BY <1>11, TailInLog DEF Install
  <2>2. cache' \in [Block -> Val \cup {NotCached}] /\ disk' \in [Block -> Val]
        /\ dirty' \in [Block -> BOOLEAN]
    BY <1>11, <2>1 DEF TypeOK, Install
  <2>3. tail' \in Nat /\ phase' \in Phase
    <3>1. CASE tail < Len(lh)
      BY <1>11, <3>1 DEF TypeOK, Install, Round
    <3>2. CASE ~(tail < Len(lh))
      BY <1>11, <3>2 DEF TypeOK, Install, Round, Phase
    <3> QED BY <3>1, <3>2
  <2> QED BY <1>11, <2>1, <2>2, <2>3 DEF TypeOK, Install, log, proc
<1>12. CASE Erase
  <2>1. phase' \in Phase
    BY <1>12 DEF Erase, Phase
  <2>2. <<>> \in Seq(Block)
    OBVIOUS
  <2> QED BY <1>12, <2>1, <2>2 DEF TypeOK, Erase, buffers, proc
<1>13. CASE ReadHead
  BY <1>13 DEF TypeOK, PcLabel, Phase, ReadHead, onDisk, buffers, proc
<1>14. ASSUME NEW b \in Block, Evict(b) PROVE TypeOK'
  BY <1>14 DEF TypeOK, PcLabel, Phase, Evict, onDisk, log, proc, Free
<1>15. CASE Crash
  <2>1. left' \in [Proc -> 0 .. OpWrites]
    <3>1. 0 \in 0 .. OpWrites
      BY Constants
    <3> QED BY <1>15, <3>1 DEF Crash, Boot
  <2>2. cache' \in [Block -> Val \cup {NotCached}] /\ dirty' \in [Block -> BOOLEAN]
        /\ locked' \in [Block -> Proc \cup {NoProc}]
    BY <1>15 DEF Crash, Boot
  <2>3. lh' \in Seq(Block) /\ outstanding' \in Nat /\ tail' \in Nat
    <3>1. <<>> \in Seq(Block)
      OBVIOUS
    <3> QED BY <1>15, <3>1 DEF Crash, Boot
  <2> QED BY <1>15, <2>1, <2>2, <2>3 DEF TypeOK, Crash, Boot, onDisk, PcLabel, Phase
<1> QED
  BY <1>1, <1>2, <1>3, <1>4, <1>5, <1>6, <1>7, <1>8, <1>9, <1>10, <1>11, <1>12, <1>13, <1>14, <1>15
  DEF Next, ProcStep, CommitStep

LEMMA LockNext ==
    ASSUME LogInv, Next
    PROVE  LockInv'
<1> USE DEF LogInv
<1>1. ASSUME NEW p \in Proc, BeginOp(p) PROVE LockInv'
  BY <1>1, NoneAssumption DEF TypeOK, LockInv, BeginOp, onDisk, buffers, HasRoom
<1>2. ASSUME NEW p \in Proc, BeginSleep(p) PROVE LockInv'
  BY <1>2, NoneAssumption DEF TypeOK, LockInv, BeginSleep, onDisk, buffers, log, HasRoom
<1>3. ASSUME NEW p \in Proc, LogWrite(p) PROVE LockInv'
  BY <1>3, NoneAssumption DEF TypeOK, LockInv, LogWrite, onDisk, Locks
<1>4. ASSUME NEW p \in Proc, EndOp(p) PROVE LockInv'
  BY <1>4, NoneAssumption DEF TypeOK, LockInv, EndOp, onDisk, buffers, log, Woken
<1>5. ASSUME NEW p \in Proc, EndCommit(p) PROVE LockInv'
  BY <1>5, NoneAssumption DEF TypeOK, LockInv, EndCommit, onDisk, buffers, Woken
<1>6. ASSUME NEW p \in Proc, ReadDone(p) PROVE LockInv'
  BY <1>6, NoneAssumption DEF TypeOK, LockInv, ReadDone, onDisk, log, Unlocked
<1>7. ASSUME NEW p \in Proc, NEW b \in Block, ReadBlock(p, b) PROVE LockInv'
  BY <1>7, NoneAssumption DEF TypeOK, LockInv, ReadBlock, onDisk, log, Data, Free
<1>8. ASSUME NEW p \in Proc, NEW b \in Block, NEW v \in Val, Modify(p, b, v) PROVE LockInv'
  BY <1>8, NoneAssumption DEF TypeOK, LockInv, Modify, onDisk, log, Free
<1>9. CASE WriteLog
  BY <1>9, NoneAssumption DEF TypeOK, LockInv, WriteLog, log, proc, Data, Free, Round
<1>10. CASE WriteHead
  BY <1>10, NoneAssumption DEF TypeOK, LockInv, WriteHead, buffers, log, proc
<1>11. CASE Install
  BY <1>11, NoneAssumption DEF TypeOK, LockInv, Install, log, proc, Free, Round
<1>12. CASE Erase
  BY <1>12, NoneAssumption DEF TypeOK, LockInv, Erase, buffers, proc
<1>13. CASE ReadHead
  BY <1>13, NoneAssumption DEF TypeOK, LockInv, ReadHead, onDisk, buffers, proc
<1>14. ASSUME NEW b \in Block, Evict(b) PROVE LockInv'
  BY <1>14, NoneAssumption DEF TypeOK, LockInv, Evict, onDisk, log, proc, Free
<1>15. CASE Crash
  BY <1>15, NoneAssumption DEF TypeOK, LockInv, Crash, onDisk, Boot
<1> QED
  BY <1>1, <1>2, <1>3, <1>4, <1>5, <1>6, <1>7, <1>8, <1>9, <1>10, <1>11, <1>12, <1>13, <1>14, <1>15
  DEF Next, ProcStep, CommitStep

LEMMA ControlNext ==
    ASSUME LogInv, Next
    PROVE  ControlInv'
<1> USE DEF LogInv
<1>1. ASSUME NEW p \in Proc, BeginOp(p) PROVE ControlInv'
  BY <1>1 DEF TypeOK, ControlInv, Open, BeginOp, onDisk, buffers, HasRoom
<1>2. ASSUME NEW p \in Proc, BeginSleep(p) PROVE ControlInv'
  BY <1>2 DEF TypeOK, ControlInv, Open, BeginSleep, onDisk, buffers, log, HasRoom
<1>3. ASSUME NEW p \in Proc, LogWrite(p) PROVE ControlInv'
  <2>1. /\ pc[p] = "logging" /\ pc' = [pc EXCEPT ![p] = "in"]
        /\ UNCHANGED <<outstanding, committing, phase, tail, recovering>>
    BY <1>3 DEF LogWrite
  <2>2. ~committing /\ ~recovering /\ phase = "none"
    BY <2>1, OpenQuiet DEF TypeOK
  <2>3. p \in Open'
    BY <2>1 DEF TypeOK, Open
  <2>4. Open' = Open
    BY <2>1 DEF TypeOK, Open
  <2> QED BY <2>1, <2>2, <2>3, <2>4 DEF TypeOK, ControlInv
<1>4. ASSUME NEW p \in Proc, EndOp(p) PROVE ControlInv'
  <2>1. pc[p] = "in" /\ UNCHANGED <<lh, recovering>>
    BY <1>4 DEF EndOp
  <2>2. ~committing /\ ~recovering /\ phase = "none" /\ p \in Open
    BY <2>1, OpenQuiet DEF TypeOK
  <2>3. Open' = Open \ {p}
    BY <1>4 DEF TypeOK, Open, EndOp, Woken
  <2>4. /\ IsFiniteSet(Open) /\ Cardinality(Open') = outstanding - 1
        /\ outstanding' = outstanding - 1
    BY <1>4, <2>2, <2>3, FS_RemoveElement DEF RoomInv, EndOp
  <2>5. IsFiniteSet(Open') /\ (outstanding' = 0 <=> Open' = {})
    BY <2>3, <2>4, FS_Subset, FS_EmptySet
  <2>6. CASE outstanding' = 0
    <3>1. /\ committing' /\ phase' = (IF lh = <<>> THEN "done" ELSE "log") /\ tail' = 1
          /\ pc' = [pc EXCEPT ![p] = "commit"]
      BY <1>4, <2>6 DEF EndOp
    <3>2. lh # <<>> => 1 \in 1 .. Len(lh)
      BY HasFirst DEF TypeOK
    <3>3. \A q \in Proc : pc[q] # "commit"
      BY <2>2 DEF ControlInv
    <3> QED BY <2>1, <2>2, <2>5, <2>6, <3>1, <3>2, <3>3 DEF TypeOK, ControlInv
  <2>7. CASE outstanding' # 0
    <3>1. UNCHANGED <<committing, phase, tail>> /\ pc' = [Woken EXCEPT ![p] = "idle"]
      BY <1>4, <2>7 DEF EndOp
    <3> QED BY <2>1, <2>2, <2>5, <2>7, <3>1 DEF TypeOK, ControlInv, Woken
  <2> QED BY <2>6, <2>7
<1>5. ASSUME NEW p \in Proc, EndCommit(p) PROVE ControlInv'
  BY <1>5 DEF TypeOK, ControlInv, Open, EndCommit, onDisk, buffers, Woken
<1>6. ASSUME NEW p \in Proc, ReadDone(p) PROVE ControlInv'
  BY <1>6 DEF TypeOK, ControlInv, Open, ReadDone, onDisk, log, Unlocked
<1>7. ASSUME NEW p \in Proc, NEW b \in Block, ReadBlock(p, b) PROVE ControlInv'
  BY <1>7 DEF TypeOK, ControlInv, Open, ReadBlock, onDisk, log, Data, Free
<1>8. ASSUME NEW p \in Proc, NEW b \in Block, NEW v \in Val, Modify(p, b, v) PROVE ControlInv'
  BY <1>8 DEF TypeOK, ControlInv, Open, Modify, onDisk, log, Free
<1>9. CASE WriteLog
  <2>1. tail \in 1 .. Len(lh) /\ Len(lh) \in Nat /\ phase = "log"
    BY <1>9, TailInLog DEF WriteLog
  <2>2. /\ UNCHANGED <<pc, lh, committing, recovering>>
        /\ \/ tail < Len(lh) /\ tail' = tail + 1 /\ phase' = "log"
           \/ tail' = 1 /\ phase' = "head"
    BY <1>9, <2>1 DEF WriteLog, Round, log, proc
  <2>3. Open' = Open
    BY <2>2 DEF Open
  <2>4. lh # <<>>
    BY <2>1, HasFirst DEF TypeOK
  <2>5. CASE tail < Len(lh) /\ tail' = tail + 1 /\ phase' = "log"
    <3>1. tail' \in 1 .. Len(lh')
      BY <2>1, <2>2, <2>5
    <3> QED BY <2>1, <2>2, <2>3, <2>5, <3>1 DEF ControlInv
  <2>6. CASE tail' = 1 /\ phase' = "head"
    BY <2>1, <2>2, <2>3, <2>4, <2>6 DEF ControlInv
  <2> QED BY <2>2, <2>5, <2>6
<1>10. CASE WriteHead
  BY <1>10 DEF TypeOK, ControlInv, Open, WriteHead, buffers, log, proc
<1>11. CASE Install
  <2>1. tail \in 1 .. Len(lh) /\ Len(lh) \in Nat /\ phase = "install"
    BY <1>11, TailInLog DEF Install
  <2>2. /\ UNCHANGED <<pc, lh, committing, recovering>>
        /\ \/ tail < Len(lh) /\ tail' = tail + 1 /\ phase' = "install"
           \/ tail' = 1 /\ phase' = "erase"
    BY <1>11, <2>1 DEF Install, Round, log, proc
  <2>3. Open' = Open
    BY <2>2 DEF Open
  <2>5. CASE tail < Len(lh) /\ tail' = tail + 1 /\ phase' = "install"
    <3>1. tail' \in 1 .. Len(lh')
      BY <2>1, <2>2, <2>5
    <3> QED BY <2>1, <2>2, <2>3, <2>5, <3>1 DEF ControlInv
  <2>6. CASE tail' = 1 /\ phase' = "erase"
    BY <2>1, <2>2, <2>3, <2>6 DEF ControlInv
  <2> QED BY <2>2, <2>5, <2>6
<1>12. CASE Erase
  BY <1>12 DEF TypeOK, ControlInv, Open, Erase, buffers, proc
<1>13. CASE ReadHead
  <2>1. /\ UNCHANGED <<pc, committing, recovering, tail>> /\ lh' = dhead
        /\ phase = "read head" /\ phase' = (IF dhead = <<>> THEN "erase" ELSE "install")
    BY <1>13 DEF ReadHead, proc
  <2>2. dhead # <<>> => 1 \in 1 .. Len(dhead)
    BY HasFirst DEF TypeOK
  <2>3. recovering /\ tail = 1
    BY <2>1 DEF ControlInv
  <2> QED BY <2>1, <2>2, <2>3 DEF ControlInv
<1>14. ASSUME NEW b \in Block, Evict(b) PROVE ControlInv'
  BY <1>14 DEF TypeOK, ControlInv, Open, Evict, onDisk, log, proc, Free
<1>15. CASE Crash
  BY <1>15 DEF TypeOK, ControlInv, Open, Crash, onDisk, Boot
<1> QED
  BY <1>1, <1>2, <1>3, <1>4, <1>5, <1>6, <1>7, <1>8, <1>9, <1>10, <1>11, <1>12, <1>13, <1>14, <1>15
  DEF Next, ProcStep, CommitStep

\* What the open calls have reserved only shrinks.
LEMMA RoomShrinks ==
    ASSUME RoomInv, TypeOK, TypeOK', Reserved' \subseteq Reserved, Len(lh') <= Len(lh)
    PROVE  Len(lh') + Cardinality(Reserved') <= LOGSIZE
<1>1. Cardinality(Reserved') <= Cardinality(Reserved) /\ Cardinality(Reserved') \in Nat
  BY ReservedFinite, FS_Subset, FS_CardinalityType
<1>2. Len(lh) \in Nat /\ Len(lh') \in Nat /\ Cardinality(Reserved) \in Nat /\ LOGSIZE \in Nat
  BY ReservedFinite, Constants DEF TypeOK
<1> QED BY <1>1, <1>2 DEF RoomInv

LEMMA RoomKept ==
    ASSUME RoomInv, TypeOK, TypeOK', Open' = Open, Reserved' \subseteq Reserved,
           outstanding' = outstanding, Len(lh') <= Len(lh),
           RoomForWrites'
    PROVE  RoomInv'
BY RoomShrinks DEF RoomInv

LEMMA RoomNext ==
    ASSUME LogInv, Next
    PROVE  RoomInv'
<1> USE DEF LogInv
<1>1. ASSUME NEW p \in Proc, BeginOp(p) PROVE RoomInv'
  <2>1. /\ pc[p] \in {"idle", "woken"} /\ pc' = [pc EXCEPT ![p] = "in"] /\ lh' = lh
        /\ outstanding' = outstanding + 1 /\ left' = [left EXCEPT ![p] = OpWrites]
        /\ Len(lh) + (outstanding + 1) * MAXOPBLOCKS <= LOGSIZE
    BY <1>1 DEF BeginOp, HasRoom
  <2>2. Open' = Open \cup {p} /\ p \notin Open
    BY <2>1 DEF TypeOK, Open
  <2>3. IsFiniteSet(Open') /\ outstanding' = Cardinality(Open')
    BY <2>1, <2>2, FS_AddElement DEF RoomInv
  <2>4. IsFiniteSet(1 .. MAXOPBLOCKS) /\ Cardinality(1 .. MAXOPBLOCKS) = MAXOPBLOCKS
    BY LogAssumption, FS_Interval
  <2>5. /\ IsFiniteSet(Open' \X (1 .. MAXOPBLOCKS))
        /\ Cardinality(Open' \X (1 .. MAXOPBLOCKS)) = outstanding' * MAXOPBLOCKS
    BY <2>3, <2>4, FS_Product
  <2>6. Reserved' \subseteq Open' \X (1 .. MAXOPBLOCKS)
    BY DEF Reserved
  <2>7. Cardinality(Reserved') <= outstanding' * MAXOPBLOCKS /\ Cardinality(Reserved') \in Nat
    BY <2>5, <2>6, FS_Subset, FS_CardinalityType
  <2>8. outstanding' * MAXOPBLOCKS \in Nat /\ Len(lh) \in Nat /\ LOGSIZE \in Nat
    BY <2>1, Constants DEF TypeOK
  <2>9. Len(lh') + Cardinality(Reserved') <= LOGSIZE
    <3> DEFINE Room == outstanding' * MAXOPBLOCKS
    <3>1. Len(lh) + Room <= LOGSIZE
      BY <2>1
    <3> HIDE DEF Room
    <3> QED BY <2>1, <2>7, <2>8, <3>1 DEF Room
  <2>10. RoomForWrites'
    BY <1>1, <2>1, NoneAssumption DEF TypeOK, RoomInv, RoomForWrites, InLog, LockInv, BeginOp,
       buffers
  <2> QED BY <2>3, <2>9, <2>10 DEF RoomInv
<1>2. ASSUME NEW p \in Proc, BeginSleep(p) PROVE RoomInv'
  <2>1. Open' = Open /\ left' = left /\ outstanding' = outstanding
    BY <1>2 DEF TypeOK, Open, BeginSleep, onDisk, buffers, log, HasRoom
  <2>2. Reserved' = Reserved
    BY <2>1 DEF Reserved, Slack
  <2>3. Len(lh') <= Len(lh)
    BY <1>2 DEF TypeOK, BeginSleep, onDisk, buffers, log, HasRoom
  <2>4. RoomForWrites'
    BY <1>2, <2>1 DEF TypeOK, RoomInv, RoomForWrites, InLog, BeginSleep, onDisk, buffers, log,
       HasRoom
  <2> QED BY <2>1, <2>2, <2>3, <2>4, TypeNext, RoomKept
<1>3. ASSUME NEW p \in Proc, LogWrite(p) PROVE RoomInv'
  <2>1. PICK b \in Block : locked[b] = p /\ LogWrite(p)!(b)
    BY <1>3 DEF LogWrite, Locks
  <2>2. /\ pc[p] = "logging" /\ pc' = [pc EXCEPT ![p] = "in"] /\ outstanding' = outstanding
        /\ locked' = [locked EXCEPT ![b] = NoProc]
    BY <2>1
  <2>3. Open' = Open /\ p \in Open
    BY <2>2 DEF TypeOK, Open
  <2>4. \A c \in Block : InLog(c) => InLog(c)'
    BY <2>1 DEF TypeOK, InLog
  <2>5. \A q \in Proc \ {p} : left'[q] = left[q] /\ pc'[q] = pc[q]
    BY <2>1 DEF TypeOK
  <2>6. RoomForWrites'
    <3> SUFFICES ASSUME NEW q \in Proc, NEW c \in Block, pc'[q] = "logging", locked'[c] = q
                 PROVE  left'[q] > 0 \/ InLog(c)'
      BY DEF RoomForWrites
    <3>1. q # p /\ pc[q] = "logging" /\ left'[q] = left[q]
      BY <2>2, <2>5 DEF TypeOK
    <3>2. locked[c] = q
      BY <2>2, NoneAssumption DEF TypeOK
    <3> QED BY <2>4, <3>1, <3>2 DEF RoomInv, RoomForWrites
  <2>7. CASE b \in ToSet(lh)
    <3>1. lh' = lh /\ left' = left
      BY <2>1, <2>7 DEF TypeOK
    <3>2. Reserved' = Reserved
      BY <2>3, <3>1 DEF Reserved, Slack
    <3>3. Len(lh') <= Len(lh)
      BY <3>1 DEF TypeOK
    <3> QED BY <2>2, <2>3, <2>6, <3>2, <3>3, TypeNext, RoomKept
  <2>8. CASE b \notin ToSet(lh)
    <3> DEFINE token == <<p, left[p] + Slack>>
    <3>1. lh' = Append(lh, b) /\ left' = [left EXCEPT ![p] = left[p] - 1]
      BY <2>1, <2>8
    <3>2. left[p] > 0 /\ left[p] \in 0 .. OpWrites
      BY <2>1, <2>2, <2>8, Listed DEF TypeOK, RoomInv, RoomForWrites
    <3>3. token \in Reserved
      <4>1. left[p] + Slack \in 1 .. MAXOPBLOCKS
        BY <3>2, Constants
      <4> QED BY <2>3, <4>1 DEF Reserved
    <3>4. Reserved' \subseteq Reserved \ {token}
      <4> SUFFICES ASSUME NEW t \in Reserved' PROVE t \in Reserved \ {token}
        OBVIOUS
      <4>1. /\ t \in Open \X (1 .. MAXOPBLOCKS) /\ t[2] <= left'[t[1]] + Slack
            /\ t[1] \in Proc /\ t[2] \in 1 .. MAXOPBLOCKS
        BY <2>3 DEF Reserved, Slack, Open
      <4>2. CASE t[1] = p
        <5>1. left'[p] = left[p] - 1
          BY <3>1 DEF TypeOK
        <5>2. t[2] <= left[p] + Slack /\ t[2] # left[p] + Slack
          BY <3>2, <4>1, <4>2, <5>1, Constants
        <5> QED BY <4>1, <4>2, <5>2 DEF Reserved
      <4>3. CASE t[1] # p
        BY <2>5, <4>1, <4>3 DEF Reserved
      <4> QED BY <4>2, <4>3
    <3>5. Cardinality(Reserved') <= Cardinality(Reserved) - 1 /\ Cardinality(Reserved') \in Nat
      <4>1. /\ IsFiniteSet(Reserved \ {token})
            /\ Cardinality(Reserved \ {token}) = Cardinality(Reserved) - 1
        BY <3>3, ReservedFinite, FS_RemoveElement
      <4> HIDE DEF token
      <4> QED BY <3>4, <4>1, FS_Subset, FS_CardinalityType
    <3>6. Len(lh') = Len(lh) + 1 /\ Len(lh) \in Nat
      BY <3>1 DEF TypeOK
    <3>7. Len(lh') + Cardinality(Reserved') <= LOGSIZE
      BY <3>5, <3>6, ReservedFinite, Constants DEF RoomInv
    <3> QED BY <2>2, <2>3, <2>6, <3>7 DEF RoomInv
  <2> QED BY <2>7, <2>8
<1>4. ASSUME NEW p \in Proc, EndOp(p) PROVE RoomInv'
  <2>1. /\ pc[p] = "in" /\ outstanding' = outstanding - 1 /\ UNCHANGED <<lh, left>>
        /\ pc'[p] \in {"commit", "idle"}
        /\ \A q \in Proc \ {p} : pc'[q] = (IF pc[q] = "asleep" THEN "woken" ELSE pc[q])
                                  \/ pc'[q] = pc[q]
    BY <1>4 DEF TypeOK, EndOp, Woken
  <2>2. Open' = Open \ {p} /\ p \in Open
    BY <2>1 DEF TypeOK, Open
  <2>3. IsFiniteSet(Open') /\ outstanding' = Cardinality(Open')
    BY <2>1, <2>2, FS_RemoveElement DEF RoomInv
  <2>4. Reserved' \subseteq Reserved
    BY <2>1, <2>2 DEF Reserved, Slack
  <2>5. Len(lh') <= Len(lh)
    BY <2>1 DEF TypeOK
  <2>6. RoomForWrites'
    BY <1>4, <2>1 DEF TypeOK, RoomInv, RoomForWrites, InLog, EndOp, buffers
  <2> QED BY <2>3, <2>4, <2>5, <2>6, TypeNext, RoomShrinks DEF RoomInv
<1>5. ASSUME NEW p \in Proc, EndCommit(p) PROVE RoomInv'
  <2>1. Open' = Open /\ left' = left /\ outstanding' = outstanding
    BY <1>5 DEF TypeOK, Open, EndCommit, onDisk, buffers, Woken
  <2>2. Reserved' = Reserved
    BY <2>1 DEF Reserved, Slack
  <2>3. Len(lh') <= Len(lh)
    BY <1>5 DEF TypeOK, EndCommit, onDisk, buffers, Woken
  <2>4. RoomForWrites'
    BY <1>5, <2>1 DEF TypeOK, RoomInv, RoomForWrites, InLog, EndCommit, onDisk, buffers, Woken
  <2> QED BY <2>1, <2>2, <2>3, <2>4, TypeNext, RoomKept
<1>6. ASSUME NEW p \in Proc, ReadDone(p) PROVE RoomInv'
  <2>1. Open' = Open /\ left' = left /\ outstanding' = outstanding
    BY <1>6 DEF TypeOK, Open, ReadDone, onDisk, log, Unlocked
  <2>2. Reserved' = Reserved
    BY <2>1 DEF Reserved, Slack
  <2>3. Len(lh') <= Len(lh)
    BY <1>6 DEF TypeOK, ReadDone, onDisk, log, Unlocked
  <2>4. RoomForWrites'
    BY <1>6, <2>1, NoneAssumption DEF TypeOK, RoomInv, RoomForWrites, InLog, ReadDone, onDisk,
       log, Unlocked
  <2> QED BY <2>1, <2>2, <2>3, <2>4, TypeNext, RoomKept
<1>7. ASSUME NEW p \in Proc, NEW b \in Block, ReadBlock(p, b) PROVE RoomInv'
  <2>1. Open' = Open /\ left' = left /\ outstanding' = outstanding
    BY <1>7 DEF TypeOK, Open, ReadBlock, onDisk, log, Data, Free
  <2>2. Reserved' = Reserved
    BY <2>1 DEF Reserved, Slack
  <2>3. Len(lh') <= Len(lh)
    BY <1>7 DEF TypeOK, ReadBlock, onDisk, log, Data, Free
  <2>4. RoomForWrites'
    BY <1>7, <2>1 DEF TypeOK, RoomInv, RoomForWrites, InLog, ReadBlock, onDisk, log, Data, Free
  <2> QED BY <2>1, <2>2, <2>3, <2>4, TypeNext, RoomKept
<1>8. ASSUME NEW p \in Proc, NEW b \in Block, NEW v \in Val, Modify(p, b, v) PROVE RoomInv'
  <2>1. Open' = Open /\ left' = left /\ outstanding' = outstanding
    BY <1>8 DEF TypeOK, Open, Modify, onDisk, log, Free
  <2>2. Reserved' = Reserved
    BY <2>1 DEF Reserved, Slack
  <2>3. Len(lh') <= Len(lh)
    BY <1>8 DEF TypeOK, Modify, onDisk, log, Free
  <2>4. RoomForWrites'
    <3> SUFFICES ASSUME NEW q \in Proc, NEW c \in Block, pc'[q] = "logging", locked'[c] = q
                 PROVE  left'[q] > 0 \/ InLog(c)'
      BY DEF RoomForWrites
    <3>1. /\ locked' = [locked EXCEPT ![b] = p] /\ pc' = [pc EXCEPT ![p] = "logging"]
          /\ pc[p] = "in" /\ lh' = lh /\ left' = left /\ (left[p] > 0 \/ b \in ToSet(lh))
      BY <1>8 DEF Modify, log
    <3>2. \A d \in Block : InLog(d)' <=> InLog(d)
      BY <3>1 DEF InLog
    <3>3. CASE c = b
      BY <3>1, <3>2, <3>3, Listed DEF TypeOK
    <3>4. CASE c # b
      <4>1. locked[c] = q /\ q # p
        BY <3>1, <3>4, NoneAssumption DEF TypeOK, LockInv
      <4>2. pc[q] = "logging"
        BY <3>1, <4>1 DEF TypeOK
      <4> QED BY <3>1, <3>2, <4>1, <4>2 DEF RoomInv, RoomForWrites
    <3> QED BY <3>3, <3>4
  <2> QED BY <2>1, <2>2, <2>3, <2>4, TypeNext, RoomKept
<1>9. CASE WriteLog
  <2>1. Open' = Open /\ left' = left /\ outstanding' = outstanding
    BY <1>9 DEF TypeOK, Open, WriteLog, log, proc, Data, Free, Round
  <2>2. Reserved' = Reserved
    BY <2>1 DEF Reserved, Slack
  <2>3. Len(lh') <= Len(lh)
    BY <1>9 DEF TypeOK, WriteLog, log, proc, Data, Free, Round
  <2>4. RoomForWrites'
    BY <1>9, <2>1 DEF TypeOK, RoomInv, RoomForWrites, InLog, WriteLog, log, proc, Data, Free, Round
  <2> QED BY <2>1, <2>2, <2>3, <2>4, TypeNext, RoomKept
<1>10. CASE WriteHead
  <2>1. Open' = Open /\ left' = left /\ outstanding' = outstanding
    BY <1>10 DEF TypeOK, Open, WriteHead, buffers, log, proc
  <2>2. Reserved' = Reserved
    BY <2>1 DEF Reserved, Slack
  <2>3. Len(lh') <= Len(lh)
    BY <1>10 DEF TypeOK, WriteHead, buffers, log, proc
  <2>4. RoomForWrites'
    BY <1>10, <2>1 DEF TypeOK, RoomInv, RoomForWrites, InLog, WriteHead, buffers, log, proc
  <2> QED BY <2>1, <2>2, <2>3, <2>4, TypeNext, RoomKept
<1>11. CASE Install
  <2>1. Open' = Open /\ left' = left /\ outstanding' = outstanding
    BY <1>11 DEF TypeOK, Open, Install, log, proc, Free, Round
  <2>2. Reserved' = Reserved
    BY <2>1 DEF Reserved, Slack
  <2>3. Len(lh') <= Len(lh)
    BY <1>11 DEF TypeOK, Install, log, proc, Free, Round
  <2>4. RoomForWrites'
    BY <1>11, <2>1 DEF TypeOK, RoomInv, RoomForWrites, InLog, Install, log, proc, Free, Round
  <2> QED BY <2>1, <2>2, <2>3, <2>4, TypeNext, RoomKept
<1>12. CASE Erase
  <2>1. Open' = Open /\ left' = left /\ outstanding' = outstanding
    BY <1>12 DEF TypeOK, Open, Erase, buffers, proc
  <2>2. Reserved' = Reserved
    BY <2>1 DEF Reserved, Slack
  <2>3. Len(lh') <= Len(lh)
    BY <1>12 DEF TypeOK, Erase, buffers, proc
  <2>4. RoomForWrites'
    <3>1. phase = "erase" /\ pc' = pc
      BY <1>12 DEF Erase, proc
    <3>2. \A q \in Proc : pc[q] # "logging"
      BY <3>1, OpenQuiet DEF TypeOK
    <3> QED BY <3>1, <3>2 DEF RoomForWrites
  <2> QED BY <2>1, <2>2, <2>3, <2>4, TypeNext, RoomKept
<1>13. CASE ReadHead
  <2>1. /\ phase = "read head" /\ lh' = dhead /\ UNCHANGED <<pc, left, outstanding>>
    BY <1>13 DEF ReadHead, proc
  <2>2. Open = {} /\ Open' = {}
    BY <2>1 DEF ControlInv, Open
  <2>3. Reserved' = {}
    BY <2>2 DEF Reserved
  <2>4. Len(dhead) <= LOGSIZE /\ Len(dhead) \in Nat /\ Cardinality({}) = 0
    BY FS_EmptySet DEF DataInv, HeadInv, TypeOK
  <2>5. IsFiniteSet(Open') /\ outstanding' = Cardinality(Open')
    BY <2>1, <2>2 DEF RoomInv
  <2>6. RoomForWrites'
    BY <2>2 DEF RoomForWrites, Open
  <2>7. Len(lh') + Cardinality(Reserved') <= LOGSIZE
    <3>1. Len(lh') = Len(dhead) /\ Cardinality(Reserved') = 0
      BY <2>1, <2>3, <2>4
    <3> QED BY <2>4, <3>1, Constants
  <2> QED BY <2>5, <2>6, <2>7 DEF RoomInv
<1>14. ASSUME NEW b \in Block, Evict(b) PROVE RoomInv'
  <2>1. Open' = Open /\ left' = left /\ outstanding' = outstanding
    BY <1>14 DEF TypeOK, Open, Evict, onDisk, log, proc, Free
  <2>2. Reserved' = Reserved
    BY <2>1 DEF Reserved, Slack
  <2>3. Len(lh') <= Len(lh)
    BY <1>14 DEF TypeOK, Evict, onDisk, log, proc, Free
  <2>4. RoomForWrites'
    BY <1>14, <2>1 DEF TypeOK, RoomInv, RoomForWrites, InLog, Evict, onDisk, log, proc, Free
  <2> QED BY <2>1, <2>2, <2>3, <2>4, TypeNext, RoomKept
<1>15. CASE Crash
  <2>1. /\ lh' = <<>> /\ outstanding' = 0 /\ pc' = [q \in Proc |-> "idle"]
    BY <1>15 DEF Crash, Boot
  <2>2. Open' = {}
    BY <2>1 DEF Open
  <2>3. Reserved' = {}
    BY <2>2 DEF Reserved
  <2>4. IsFiniteSet({}) /\ Cardinality({}) = 0 /\ Len(<<>>) = 0
    BY FS_EmptySet
  <2>5. RoomForWrites'
    BY <2>1 DEF RoomForWrites
  <2>6. Len(lh') + Cardinality(Reserved') <= LOGSIZE
    BY <2>1, <2>3, <2>4, Constants
  <2> QED BY <2>1, <2>2, <2>4, <2>5, <2>6 DEF RoomInv
<1> QED
  BY <1>1, <1>2, <1>3, <1>4, <1>5, <1>6, <1>7, <1>8, <1>9, <1>10, <1>11, <1>12, <1>13, <1>14, <1>15
  DEF Next, ProcStep, CommitStep

\* A block is listed once, for the log absorbs the second write.
LEMMA AppendOnce ==
    ASSUME NEW s \in Seq(Block), NEW b \in Block, NoTwice(s), b \notin ToSet(s)
    PROVE  NoTwice(Append(s, b))
<1>1. \A k \in 1 .. Len(s) : s[k] # b
  BY DEF ToSet
<1> QED BY <1>1 DEF NoTwice

LEMMA HeadNext ==
    ASSUME LogInv, Next
    PROVE  HeadInv'
<1> USE DEF LogInv
<1>1. ASSUME NEW p \in Proc, BeginOp(p) PROVE HeadInv'
  BY <1>1 DEF TypeOK, DataInv, HeadInv, BeginOp, onDisk, buffers, HasRoom
<1>2. ASSUME NEW p \in Proc, BeginSleep(p) PROVE HeadInv'
  BY <1>2 DEF TypeOK, DataInv, HeadInv, BeginSleep, onDisk, buffers, log, HasRoom
<1>3. ASSUME NEW p \in Proc, LogWrite(p) PROVE HeadInv'
  <2>1. PICK b \in Block : locked[b] = p /\ LogWrite(p)!(b)
    BY <1>3 DEF LogWrite, Locks
  <2>2. /\ pc[p] = "logging" /\ UNCHANGED <<dhead, phase>>
        /\ lh' = IF b \in ToSet(lh) THEN lh ELSE Append(lh, b)
    BY <2>1 DEF onDisk
  <2>3. NoTwice(lh')
    BY <2>2, AppendOnce DEF TypeOK, DataInv, HeadInv
  <2>4. phase = "none"
    BY <2>2, OpenQuiet DEF TypeOK
  <2> QED BY <2>2, <2>3, <2>4 DEF DataInv, HeadInv
<1>4. ASSUME NEW p \in Proc, EndOp(p) PROVE HeadInv'
  <2>1. phase = "none" /\ phase' \in {"none", "log", "done"}
    BY <1>4, OpenQuiet DEF TypeOK, EndOp
  <2>2. UNCHANGED <<lh, dhead>>
    BY <1>4 DEF EndOp, onDisk
  <2> QED BY <2>1, <2>2 DEF DataInv, HeadInv
<1>5. ASSUME NEW p \in Proc, EndCommit(p) PROVE HeadInv'
  BY <1>5 DEF TypeOK, DataInv, HeadInv, EndCommit, onDisk, buffers, Woken
<1>6. ASSUME NEW p \in Proc, ReadDone(p) PROVE HeadInv'
  BY <1>6 DEF TypeOK, DataInv, HeadInv, ReadDone, onDisk, log, Unlocked
<1>7. ASSUME NEW p \in Proc, NEW b \in Block, ReadBlock(p, b) PROVE HeadInv'
  BY <1>7 DEF TypeOK, DataInv, HeadInv, ReadBlock, onDisk, log, Data, Free
<1>8. ASSUME NEW p \in Proc, NEW b \in Block, NEW v \in Val, Modify(p, b, v) PROVE HeadInv'
  BY <1>8 DEF TypeOK, DataInv, HeadInv, Modify, onDisk, log, Free
<1>9. CASE WriteLog
  <2>1. UNCHANGED <<lh, dhead>> /\ phase = "log" /\ phase' \in {"log", "head"}
    BY <1>9 DEF WriteLog, Round, log
  <2> QED BY <2>1 DEF DataInv, HeadInv
<1>10. CASE WriteHead
  <2>1. dhead' = lh /\ lh' = lh /\ phase' = "install"
    BY <1>10 DEF WriteHead, log
  <2>2. Len(lh) <= LOGSIZE
    BY ReservedFinite, Constants DEF TypeOK, RoomInv
  <2> QED BY <2>1, <2>2 DEF DataInv, HeadInv
<1>11. CASE Install
  <2>1. UNCHANGED <<lh, dhead>> /\ phase = "install" /\ phase' \in {"install", "erase"}
    BY <1>11 DEF Install, Round, log
  <2> QED BY <2>1 DEF DataInv, HeadInv
<1>12. CASE Erase
  <2>1. dhead' = <<>> /\ lh' = <<>> /\ Len(<<>>) = 0
    BY <1>12 DEF Erase
  <2>2. phase' \in {"none", "done"}
    BY <1>12 DEF Erase
  <2>3. NoTwice(<<>>)
    BY DEF NoTwice
  <2> QED BY <2>1, <2>2, <2>3, Constants DEF HeadInv
<1>13. CASE ReadHead
  BY <1>13 DEF TypeOK, DataInv, HeadInv, ReadHead, onDisk, buffers, proc
<1>14. ASSUME NEW b \in Block, Evict(b) PROVE HeadInv'
  BY <1>14 DEF TypeOK, DataInv, HeadInv, Evict, onDisk, log, proc, Free
<1>15. CASE Crash
  <2>1. UNCHANGED dhead /\ lh' = <<>> /\ phase' = "read head"
    BY <1>15 DEF Crash, Boot, onDisk
  <2>2. NoTwice(<<>>)
    BY DEF NoTwice
  <2> QED BY <2>1, <2>2 DEF DataInv, HeadInv
<1> QED
  BY <1>1, <1>2, <1>3, <1>4, <1>5, <1>6, <1>7, <1>8, <1>9, <1>10, <1>11, <1>12, <1>13, <1>14, <1>15
  DEF Next, ProcStep, CommitStep

\* A block is not modified, or its buffer used at all, by two.
LEMMA FreeQuiet ==
    ASSUME NEW b \in Block, Free(b)
    PROVE  ~Modified(b)
BY DEF Free, Modified

\* Processes come and go without touching a buffer.
LEMMA ModifiedKept ==
    ASSUME TypeOK, locked' = locked, NEW b \in Block,
           \A q \in Proc : pc'[q] = "logging" <=> pc[q] = "logging"
    PROVE  Modified(b)' <=> Modified(b)
BY DEF TypeOK, Modified

LEMMA InLogKept ==
    ASSUME NEW b \in Block, lh' = lh
    PROVE  InLog(b)' <=> InLog(b)
BY DEF InLog

LEMMA BufferKept ==
    ASSUME NEW b \in Block, BufferOK(b), recovering' = recovering,
           disk'[b] = disk[b], cache'[b] = cache[b], dirty'[b] = dirty[b],
           Modified(b)' <=> Modified(b), InLog(b) => InLog(b)'
    PROVE  BufferOK(b)'
BY DEF BufferOK

LEMMA BufferNext ==
    ASSUME LogInv, Next
    PROVE  BufferInv'
<1> USE DEF LogInv
<1>1. ASSUME NEW p \in Proc, BeginOp(p) PROVE BufferInv'
  <2>1. /\ UNCHANGED <<disk, cache, dirty, locked, lh, recovering>>
        /\ \A q \in Proc : pc'[q] = "logging" <=> pc[q] = "logging"
    BY <1>1 DEF TypeOK, BeginOp, onDisk, buffers, HasRoom
  <2>2. \A b \in Block : (Modified(b)' <=> Modified(b)) /\ (InLog(b)' <=> InLog(b))
    BY <2>1, ModifiedKept, InLogKept
  <2> QED BY <2>1, <2>2, BufferKept DEF DataInv, BufferInv
<1>2. ASSUME NEW p \in Proc, BeginSleep(p) PROVE BufferInv'
  <2>1. /\ UNCHANGED <<disk, cache, dirty, locked, lh, recovering>>
        /\ \A q \in Proc : pc'[q] = "logging" <=> pc[q] = "logging"
    BY <1>2 DEF TypeOK, BeginSleep, onDisk, buffers, log, HasRoom
  <2>2. \A b \in Block : (Modified(b)' <=> Modified(b)) /\ (InLog(b)' <=> InLog(b))
    BY <2>1, ModifiedKept, InLogKept
  <2> QED BY <2>1, <2>2, BufferKept DEF DataInv, BufferInv
<1>3. ASSUME NEW p \in Proc, LogWrite(p) PROVE BufferInv'
  <2>1. PICK b \in Block : locked[b] = p /\ LogWrite(p)!(b)
    BY <1>3 DEF LogWrite, Locks
  <2>2. /\ pc[p] = "logging" /\ pc' = [pc EXCEPT ![p] = "in"]
        /\ UNCHANGED <<disk, cache, recovering>>
        /\ lh' = (IF b \in ToSet(lh) THEN lh ELSE Append(lh, b))
        /\ dirty' = [dirty EXCEPT ![b] = TRUE] /\ locked' = [locked EXCEPT ![b] = NoProc]
    BY <2>1 DEF onDisk
  <2> SUFFICES ASSUME NEW c \in Block PROVE BufferOK(c)'
    BY DEF BufferInv
  <2>3. BufferOK(c)
    BY DEF DataInv, BufferInv
  <2>4. CASE c # b
    <3>1. InLog(c) => InLog(c)'
      BY <2>2 DEF TypeOK, InLog
    <3>2. locked[c] # p
      BY <2>1, <2>4, NoneAssumption DEF LockInv
    <3>3. Modified(c)' <=> Modified(c)
      BY <2>2, <2>4, <3>2 DEF TypeOK, Modified
    <3> QED BY <2>2, <2>3, <2>4, <3>1, <3>3, BufferKept DEF TypeOK
  <2>5. CASE c = b
    <3>1. Modified(b) /\ ~recovering
      BY <2>1, <2>2, NoneAssumption, OpenQuiet DEF TypeOK, Modified
    <3>2. cache[b] # NotCached
      BY <2>3, <2>5, <3>1 DEF BufferOK
    <3>3. InLog(b)'
      <4>1. CASE b \in ToSet(lh)
        BY <2>2, <4>1 DEF InLog, ToSet
      <4>2. CASE b \notin ToSet(lh)
        <5>1. lh' = Append(lh, b) /\ Len(lh') = Len(lh) + 1 /\ lh'[Len(lh) + 1] = b
              /\ Len(lh) \in Nat
          BY <2>2, <4>2 DEF TypeOK
        <5>2. Len(lh) + 1 \in 1 .. Len(lh')
          BY <5>1
        <5> QED BY <5>1, <5>2 DEF InLog
      <4> QED BY <4>1, <4>2
    <3>4. dirty'[b]
      BY <2>2 DEF TypeOK
    <3> QED BY <2>2, <2>5, <3>1, <3>2, <3>3, <3>4 DEF BufferOK
  <2> QED BY <2>4, <2>5
<1>4. ASSUME NEW p \in Proc, EndOp(p) PROVE BufferInv'
  <2>1. /\ UNCHANGED <<disk, cache, dirty, locked, lh, recovering>>
        /\ \A q \in Proc : pc'[q] = "logging" <=> pc[q] = "logging"
    BY <1>4 DEF TypeOK, EndOp, onDisk, buffers, log, Woken
  <2>2. \A b \in Block : (Modified(b)' <=> Modified(b)) /\ (InLog(b)' <=> InLog(b))
    BY <2>1, ModifiedKept, InLogKept
  <2> QED BY <2>1, <2>2, BufferKept DEF DataInv, BufferInv
<1>5. ASSUME NEW p \in Proc, EndCommit(p) PROVE BufferInv'
  <2>1. /\ UNCHANGED <<disk, cache, dirty, locked, lh, recovering>>
        /\ \A q \in Proc : pc'[q] = "logging" <=> pc[q] = "logging"
    BY <1>5 DEF TypeOK, EndCommit, onDisk, buffers, Woken
  <2>2. \A b \in Block : (Modified(b)' <=> Modified(b)) /\ (InLog(b)' <=> InLog(b))
    BY <2>1, ModifiedKept, InLogKept
  <2> QED BY <2>1, <2>2, BufferKept DEF DataInv, BufferInv
<1>6. ASSUME NEW p \in Proc, ReadDone(p) PROVE BufferInv'
  <2>1. /\ UNCHANGED <<disk, cache, dirty, lh, recovering>>
        /\ pc[p] = "reading" /\ pc' = [pc EXCEPT ![p] = "idle"]
        /\ locked' = [b \in Block |-> IF locked[b] = p THEN NoProc ELSE locked[b]]
    BY <1>6 DEF ReadDone, onDisk, log, Unlocked
  <2>2. \A b \in Block : Modified(b)' <=> Modified(b)
    BY <2>1 DEF TypeOK, Modified
  <2>3. \A b \in Block : InLog(b)' <=> InLog(b)
    BY <2>1, InLogKept
  <2> QED BY <2>1, <2>2, <2>3, BufferKept DEF DataInv, BufferInv
<1>7. ASSUME NEW p \in Proc, NEW b \in Block, ReadBlock(p, b) PROVE BufferInv'
  <2>1. /\ UNCHANGED <<disk, dirty, lh, recovering>> /\ Free(b)
        /\ pc[p] = "idle" /\ pc' = [pc EXCEPT ![p] = "reading"]
        /\ locked' = [locked EXCEPT ![b] = p] /\ cache' = [cache EXCEPT ![b] = Data(b)]
    BY <1>7 DEF ReadBlock, onDisk, log
  <2> SUFFICES ASSUME NEW c \in Block PROVE BufferOK(c)'
    BY DEF BufferInv
  <2>2. BufferOK(c) /\ (InLog(c)' <=> InLog(c))
    BY <2>1, InLogKept DEF DataInv, BufferInv
  <2>3. Modified(c)' <=> Modified(c)
    BY <2>1, NoneAssumption DEF TypeOK, Modified, Free
  <2>4. CASE c # b
    BY <2>1, <2>2, <2>3, <2>4, BufferKept DEF TypeOK
  <2>5. CASE c = b
    <3>1. cache'[b] = Data(b) /\ dirty'[b] = dirty[b] /\ ~Modified(b) /\ Data(b) # NotCached
      BY <2>1, FreeQuiet, DataTyped, NoneAssumption DEF TypeOK
    <3> QED BY <2>1, <2>2, <2>3, <2>5, <3>1 DEF BufferOK, Data
  <2> QED BY <2>4, <2>5
<1>8. ASSUME NEW p \in Proc, NEW b \in Block, NEW v \in Val, Modify(p, b, v) PROVE BufferInv'
  <2>1. /\ UNCHANGED <<disk, dirty, lh, recovering>> /\ Free(b)
        /\ pc[p] = "in" /\ pc' = [pc EXCEPT ![p] = "logging"]
        /\ locked' = [locked EXCEPT ![b] = p] /\ cache' = [cache EXCEPT ![b] = v]
    BY <1>8 DEF Modify, onDisk, log
  <2> SUFFICES ASSUME NEW c \in Block PROVE BufferOK(c)'
    BY DEF BufferInv
  <2>2. BufferOK(c) /\ (InLog(c)' <=> InLog(c))
    BY <2>1, InLogKept DEF DataInv, BufferInv
  <2>3. CASE c # b
    <3>1. locked[c] # p
      BY <2>1, NoneAssumption DEF LockInv
    <3>2. Modified(c)' <=> Modified(c)
      BY <2>1, <2>3, <3>1 DEF TypeOK, Modified
    <3> QED BY <2>1, <2>2, <2>3, <3>2, BufferKept DEF TypeOK
  <2>4. CASE c = b
    <3>1. cache'[b] = v /\ v # NotCached /\ dirty'[b] = dirty[b]
      BY <2>1, NoneAssumption DEF TypeOK
    <3>2. Modified(b)'
      BY <2>1, NoneAssumption DEF TypeOK, Modified
    <3> QED BY <2>1, <2>2, <2>4, <3>1, <3>2 DEF BufferOK
  <2> QED BY <2>3, <2>4
<1>9. CASE WriteLog
  <2>1. /\ UNCHANGED <<disk, dirty, locked, pc, lh, recovering>> /\ Free(lh[tail])
        /\ cache' = [cache EXCEPT ![lh[tail]] = Data(lh[tail])] /\ lh[tail] \in Block
    BY <1>9, TailInLog DEF WriteLog, log, proc
  <2> SUFFICES ASSUME NEW c \in Block PROVE BufferOK(c)'
    BY DEF BufferInv
  <2>2. BufferOK(c) /\ (InLog(c)' <=> InLog(c)) /\ (Modified(c)' <=> Modified(c))
    BY <2>1, InLogKept, ModifiedKept DEF DataInv, BufferInv
  <2>3. CASE c # lh[tail]
    BY <2>1, <2>2, <2>3, BufferKept DEF TypeOK
  <2>4. CASE c = lh[tail]
    <3>1. cache'[c] = Data(c) /\ dirty'[c] = dirty[c] /\ ~Modified(c) /\ Data(c) # NotCached
      BY <2>1, <2>4, FreeQuiet, DataTyped, NoneAssumption DEF TypeOK
    <3> QED BY <2>1, <2>2, <3>1 DEF BufferOK, Data
  <2> QED BY <2>3, <2>4
<1>10. CASE WriteHead
  <2>1. /\ UNCHANGED <<disk, cache, dirty, locked, lh, recovering>>
        /\ \A q \in Proc : pc'[q] = "logging" <=> pc[q] = "logging"
    BY <1>10 DEF TypeOK, WriteHead, buffers, log, proc
  <2>2. \A b \in Block : (Modified(b)' <=> Modified(b)) /\ (InLog(b)' <=> InLog(b))
    BY <2>1, ModifiedKept, InLogKept
  <2> QED BY <2>1, <2>2, BufferKept DEF DataInv, BufferInv
<1>11. CASE Install
  <2>1. /\ UNCHANGED <<locked, pc, lh, recovering>> /\ Free(lh[tail]) /\ lh[tail] \in Block
        /\ cache' = [cache EXCEPT ![lh[tail]] = dlog[tail]]
        /\ disk' = [disk EXCEPT ![lh[tail]] = dlog[tail]]
        /\ dirty' = [dirty EXCEPT ![lh[tail]] = FALSE]
    BY <1>11, TailInLog DEF Install, log, proc
  <2> SUFFICES ASSUME NEW c \in Block PROVE BufferOK(c)'
    BY DEF BufferInv
  <2>2. BufferOK(c) /\ (InLog(c)' <=> InLog(c)) /\ (Modified(c)' <=> Modified(c))
    BY <2>1, InLogKept, ModifiedKept DEF DataInv, BufferInv
  <2>3. CASE c # lh[tail]
    BY <2>1, <2>2, <2>3, BufferKept DEF TypeOK
  <2>4. CASE c = lh[tail]
    <3>1. cache'[c] = dlog[tail] /\ disk'[c] = dlog[tail] /\ ~dirty'[c] /\ ~Modified(c)
      BY <2>1, <2>4, FreeQuiet DEF TypeOK
    <3> QED BY <2>2, <3>1 DEF BufferOK
  <2> QED BY <2>3, <2>4
<1>12. CASE Erase
  <2>1. /\ UNCHANGED <<disk, cache, dirty, locked, pc>> /\ phase = "erase"
    BY <1>12 DEF Erase, buffers, proc
  <2>2. \A b \in Block : ~dirty[b]
    <3> SUFFICES ASSUME NEW b \in Block, dirty[b] PROVE FALSE
      OBVIOUS
    <3>1. PICK k \in 1 .. Len(lh) : lh[k] = b
      BY DEF DataInv, BufferInv, BufferOK, InLog
    <3>2. CopyOK(k)
      BY DEF DataInv, CopyInv
    <3> QED BY <2>1, <3>1, <3>2 DEF CopyOK
  <2>3. \A b \in Block : Modified(b)' <=> Modified(b)
    BY <2>1, ModifiedKept
  <2> QED BY <2>1, <2>2, <2>3 DEF DataInv, BufferInv, BufferOK
<1>13. CASE ReadHead
  <2>1. /\ UNCHANGED <<disk, cache, dirty, locked, pc>> /\ phase = "read head"
    BY <1>13 DEF ReadHead, buffers, onDisk, proc
  <2>2. \A b \in Block : ~dirty[b]
    BY <2>1 DEF DataInv, BufferInv, BufferOK, ControlInv
  <2>3. \A b \in Block : Modified(b)' <=> Modified(b)
    BY <2>1, ModifiedKept
  <2> QED BY <2>1, <2>2, <2>3 DEF DataInv, BufferInv, BufferOK
<1>14. ASSUME NEW b \in Block, Evict(b) PROVE BufferInv'
  <2>1. /\ UNCHANGED <<disk, dirty, locked, pc, lh, recovering>> /\ Free(b) /\ ~dirty[b]
        /\ cache' = [cache EXCEPT ![b] = NotCached]
    BY <1>14 DEF Evict, onDisk, log, proc
  <2> SUFFICES ASSUME NEW c \in Block PROVE BufferOK(c)'
    BY DEF BufferInv
  <2>2. BufferOK(c) /\ (InLog(c)' <=> InLog(c)) /\ (Modified(c)' <=> Modified(c))
    BY <2>1, InLogKept, ModifiedKept DEF DataInv, BufferInv
  <2>3. CASE c # b
    BY <2>1, <2>2, <2>3, BufferKept DEF TypeOK
  <2>4. CASE c = b
    <3>1. cache'[c] = NotCached /\ ~dirty'[c] /\ ~Modified(c)
      BY <2>1, <2>4, FreeQuiet DEF TypeOK
    <3> QED BY <2>2, <3>1 DEF BufferOK
  <2> QED BY <2>3, <2>4
<1>15. CASE Crash
  <2>1. \A b \in Block : cache'[b] = NotCached /\ ~dirty'[b] /\ locked'[b] = NoProc
    BY <1>15 DEF Crash, Boot
  <2> QED BY <2>1 DEF BufferInv, BufferOK, Modified
<1> QED
  BY <1>1, <1>2, <1>3, <1>4, <1>5, <1>6, <1>7, <1>8, <1>9, <1>10, <1>11, <1>12, <1>13, <1>14, <1>15
  DEF Next, ProcStep, CommitStep


\* A block that the log has, and that is dirty, is in the cache.
LEMMA ListedBlock ==
    ASSUME TypeOK, DataInv, NEW k \in 1 .. Len(lh)
    PROVE  lh[k] \in Block /\ CopyOK(k) /\ (dirty[lh[k]] => cache[lh[k]] # NotCached)
<1>1. lh[k] \in Block
  BY DEF TypeOK
<1> QED BY <1>1 DEF DataInv, BufferInv, BufferOK, CopyInv

LEMMA CopyNext ==
    ASSUME LogInv, Next
    PROVE  CopyInv'
<1> USE DEF LogInv
<1>1. ASSUME NEW p \in Proc, BeginOp(p) PROVE CopyInv'
  BY <1>1, NoneAssumption DEF TypeOK, DataInv, CopyInv, CopyOK, BeginOp, onDisk, buffers,
     HasRoom
<1>2. ASSUME NEW p \in Proc, BeginSleep(p) PROVE CopyInv'
  BY <1>2, NoneAssumption DEF TypeOK, DataInv, CopyInv, CopyOK, BeginSleep, onDisk,
     buffers, log, HasRoom
<1>3. ASSUME NEW p \in Proc, LogWrite(p) PROVE CopyInv'
  <2>1. PICK b \in Block : locked[b] = p /\ LogWrite(p)!(b)
    BY <1>3 DEF LogWrite, Locks
  <2>2. /\ lh' = (IF b \in ToSet(lh) THEN lh ELSE Append(lh, b))
        /\ phase' = "none" /\ phase = "none" /\ dirty' = [dirty EXCEPT ![b] = TRUE]
    BY <2>1, OpenQuiet DEF TypeOK
  <2> SUFFICES ASSUME NEW k \in 1 .. Len(lh') PROVE dirty'[lh'[k]]
    BY <2>2 DEF CopyInv, CopyOK
  <2>3. CASE k \in 1 .. Len(lh)
    <3>1. lh'[k] = lh[k]
      BY <2>2, <2>3 DEF TypeOK
    <3>2. lh[k] \in Block /\ dirty[lh[k]]
      BY <2>2, <2>3, ListedBlock DEF DataInv, CopyOK
    <3> QED BY <2>2, <3>1, <3>2 DEF TypeOK
  <2>4. CASE k \notin 1 .. Len(lh)
    <3>1. lh'[k] = b
      BY <2>2, <2>4 DEF TypeOK
    <3> QED BY <2>2, <3>1 DEF TypeOK
  <2> QED BY <2>3, <2>4
<1>4. ASSUME NEW p \in Proc, EndOp(p) PROVE CopyInv'
  <2>1. /\ UNCHANGED <<lh, dirty>> /\ phase = "none" /\ phase' \in {"none", "log", "done"}
        /\ phase' = "log" => tail' = 1
    BY <1>4, OpenQuiet DEF TypeOK, EndOp, buffers
  <2> SUFFICES ASSUME NEW k \in 1 .. Len(lh) PROVE CopyOK(k)'
    BY <2>1 DEF CopyInv
  <2>2. lh[k] \in Block /\ CopyOK(k) /\ (dirty[lh[k]] => cache[lh[k]] # NotCached)
    BY ListedBlock DEF DataInv
  <2> QED BY <2>1, <2>2 DEF CopyOK
<1>5. ASSUME NEW p \in Proc, EndCommit(p) PROVE CopyInv'
  <2>1. lh' = <<>> /\ Len(<<>>) = 0
    BY <1>5 DEF EndCommit, ControlInv
  <2> QED BY <2>1 DEF CopyInv
<1>6. ASSUME NEW p \in Proc, ReadDone(p) PROVE CopyInv'
  BY <1>6, NoneAssumption DEF TypeOK, DataInv, CopyInv, CopyOK, ReadDone, onDisk, log,
     Unlocked
<1>7. ASSUME NEW p \in Proc, NEW b \in Block, ReadBlock(p, b) PROVE CopyInv'
  <2>1. /\ UNCHANGED <<disk, dlog, dirty, lh, phase, tail, recovering>> /\ ~recovering
        /\ cache' = [cache EXCEPT ![b] = Data(b)]
    BY <1>7 DEF ReadBlock, onDisk, log
  <2> SUFFICES ASSUME NEW k \in 1 .. Len(lh) PROVE CopyOK(k)'
    BY <2>1 DEF CopyInv
  <2>2. lh[k] \in Block /\ CopyOK(k) /\ (dirty[lh[k]] => cache[lh[k]] # NotCached)
    BY ListedBlock DEF DataInv
  <2>3. dirty[lh[k]] => cache'[lh[k]] = cache[lh[k]]
    BY <2>1, <2>2 DEF TypeOK, Data
  <2> QED BY <2>1, <2>2, <2>3 DEF CopyOK
<1>8. ASSUME NEW p \in Proc, NEW b \in Block, NEW v \in Val, Modify(p, b, v) PROVE CopyInv'
  <2>1. /\ UNCHANGED <<lh, dirty, phase>> /\ phase = "none"
    BY <1>8, OpenQuiet DEF TypeOK, Modify, log
  <2> SUFFICES ASSUME NEW k \in 1 .. Len(lh) PROVE CopyOK(k)'
    BY <2>1 DEF CopyInv
  <2>2. lh[k] \in Block /\ CopyOK(k) /\ (dirty[lh[k]] => cache[lh[k]] # NotCached)
    BY ListedBlock DEF DataInv
  <2> QED BY <2>1, <2>2 DEF CopyOK
<1>9. CASE WriteLog
  <2>1. /\ UNCHANGED <<dirty, lh>> /\ phase = "log" /\ lh[tail] \in Block
        /\ cache' = [cache EXCEPT ![lh[tail]] = Data(lh[tail])]
        /\ dlog' = [dlog EXCEPT ![tail] = Data(lh[tail])] /\ tail \in 1 .. LOGSIZE
    BY <1>9, TailInLog DEF WriteLog, log
  <2> SUFFICES ASSUME NEW k \in 1 .. Len(lh) PROVE CopyOK(k)'
    BY <2>1 DEF CopyInv
  <2>2. lh[k] \in Block /\ CopyOK(k) /\ (dirty[lh[k]] => cache[lh[k]] # NotCached)
    BY ListedBlock DEF DataInv
  <2>3. dirty[lh[k]] /\ cache'[lh[k]] = cache[lh[k]] /\ dirty'[lh[k]]
    BY <2>1, <2>2 DEF TypeOK, Data, CopyOK
  <2>4. k <= tail => dlog'[k] = cache'[lh[k]]
    <3>1. CASE k = tail
      BY <2>1, <2>2, <2>3, <3>1 DEF TypeOK, Data
    <3>2. CASE k < tail
      <4>1. dlog'[k] = dlog[k] /\ dlog[k] = cache[lh[k]]
        BY <2>1, <2>2, <3>2 DEF TypeOK, CopyOK
      <4> QED BY <2>3, <4>1
    <3> QED BY <2>1, <3>1, <3>2, Constants
  <2>5. \/ phase' = "log" /\ tail' = tail + 1
        \/ phase' = "head" /\ tail >= Len(lh)
    BY <1>9, <2>1, TailInLog DEF WriteLog, Round
  <2>6. k \in Nat /\ tail \in Nat /\ Len(lh) \in Nat /\ k <= Len(lh)
    BY <2>1, TailInLog
  <2> QED BY <2>3, <2>4, <2>5, <2>6, <2>1 DEF CopyOK
<1>10. CASE WriteHead
  <2>1. /\ UNCHANGED <<dirty, cache, dlog, lh, tail>> /\ phase = "head" /\ phase' = "install"
        /\ tail = 1
    BY <1>10 DEF WriteHead, buffers, log, ControlInv
  <2> SUFFICES ASSUME NEW k \in 1 .. Len(lh) PROVE CopyOK(k)'
    BY <2>1 DEF CopyInv
  <2>2. lh[k] \in Block /\ CopyOK(k) /\ (dirty[lh[k]] => cache[lh[k]] # NotCached)
    BY ListedBlock DEF DataInv
  <2> QED BY <2>1, <2>2 DEF CopyOK
<1>11. CASE Install
  <2>1. /\ UNCHANGED <<dlog, lh, recovering>> /\ phase = "install" /\ lh[tail] \in Block
        /\ cache' = [cache EXCEPT ![lh[tail]] = dlog[tail]]
        /\ disk' = [disk EXCEPT ![lh[tail]] = dlog[tail]]
        /\ dirty' = [dirty EXCEPT ![lh[tail]] = FALSE] /\ tail \in 1 .. Len(lh)
    BY <1>11, TailInLog DEF Install, log
  <2> SUFFICES ASSUME NEW k \in 1 .. Len(lh) PROVE CopyOK(k)'
    BY <2>1 DEF CopyInv
  <2>2. lh[k] \in Block /\ CopyOK(k) /\ (dirty[lh[k]] => cache[lh[k]] # NotCached)
    BY ListedBlock DEF DataInv
  <2>3. k # tail => /\ lh[k] # lh[tail] /\ cache'[lh[k]] = cache[lh[k]]
                    /\ disk'[lh[k]] = disk[lh[k]] /\ dirty'[lh[k]] = dirty[lh[k]]
    BY <2>1, <2>2 DEF TypeOK, DataInv, HeadInv, NoTwice
  <2>4. k = tail => ~dirty'[lh[k]] /\ disk'[lh[k]] = dlog[k]
    BY <2>1, <2>2 DEF TypeOK
  <2>5. \/ phase' = "install" /\ tail' = tail + 1
        \/ phase' = "erase" /\ tail >= Len(lh)
    BY <1>11, <2>1, TailInLog DEF Install, Round
  <2>6. k \in Nat /\ tail \in Nat /\ Len(lh) \in Nat /\ k <= Len(lh)
    BY <2>1, TailInLog
  <2>7. lh' = lh /\ dlog' = dlog /\ recovering' = recovering /\ phase = "install"
    BY <2>1
  <2>8. CASE k <= tail
    <3>1. ~dirty'[lh[k]] /\ disk'[lh[k]] = dlog[k]
      BY <2>2, <2>3, <2>4, <2>6, <2>7, <2>8 DEF CopyOK
    <3>2. ~(phase' = "install" /\ k >= tail')
      BY <2>5, <2>6, <2>8
    <3> QED BY <2>5, <2>7, <3>1, <3>2 DEF CopyOK
  <2>9. CASE k > tail
    <3>1. phase' = "install" /\ k >= tail' /\ ~(k < tail')
      BY <2>5, <2>6, <2>9
    <3>2. recovering \/ (dirty'[lh[k]] /\ cache'[lh[k]] = dlog[k])
      BY <2>2, <2>3, <2>6, <2>7, <2>9 DEF CopyOK
    <3> QED BY <2>7, <3>1, <3>2 DEF CopyOK
  <2> QED BY <2>6, <2>8, <2>9
<1>12. CASE Erase
  BY <1>12, NoneAssumption DEF TypeOK, DataInv, CopyInv, CopyOK, Erase, buffers, proc
<1>13. CASE ReadHead
  <2>1. /\ lh' = dhead /\ phase' = (IF dhead = <<>> THEN "erase" ELSE "install")
        /\ recovering' /\ tail' = 1 /\ Len(<<>>) = 0
    BY <1>13 DEF ReadHead, ControlInv
  <2>2. CASE dhead = <<>>
    BY <2>1, <2>2 DEF CopyInv
  <2>3. CASE dhead # <<>>
    BY <2>1, <2>3 DEF CopyInv, CopyOK
  <2> QED BY <2>2, <2>3
<1>14. ASSUME NEW b \in Block, Evict(b) PROVE CopyInv'
  <2>1. /\ UNCHANGED <<disk, dlog, dirty, lh, phase, tail, recovering>> /\ ~dirty[b]
        /\ cache' = [cache EXCEPT ![b] = NotCached]
    BY <1>14 DEF Evict, onDisk, log
  <2> SUFFICES ASSUME NEW k \in 1 .. Len(lh) PROVE CopyOK(k)'
    BY <2>1 DEF CopyInv
  <2>2. lh[k] \in Block /\ CopyOK(k) /\ (dirty[lh[k]] => cache[lh[k]] # NotCached)
    BY ListedBlock DEF DataInv
  <2>3. dirty[lh[k]] => cache'[lh[k]] = cache[lh[k]]
    BY <2>1, <2>2 DEF TypeOK
  <2> QED BY <2>1, <2>2, <2>3 DEF CopyOK
<1>15. CASE Crash
  BY <1>15, NoneAssumption DEF TypeOK, DataInv, CopyInv, CopyOK, Crash, onDisk, Boot
<1> QED
  BY <1>1, <1>2, <1>3, <1>4, <1>5, <1>6, <1>7, <1>8, <1>9, <1>10, <1>11, <1>12, <1>13, <1>14, <1>15
  DEF Next, ProcStep, CommitStep


-----------------------------------------------------------------------------
(* The invariant. *)

LEMMA LogInit ==
    ASSUME Init
    PROVE  LogInv
<1>1. 0 \in 0 .. OpWrites /\ <<>> \in Seq(Block) /\ Len(<<>>) = 0
  BY Constants
<1>2. TypeOK
  BY <1>1, LogAssumption, NoneAssumption DEF Init, TypeOK, Phase, PcLabel
<1>3. Open = {} /\ Reserved = {}
  BY DEF Init, Open, Reserved
<1>4. IsFiniteSet({}) /\ Cardinality({}) = 0
  BY FS_EmptySet
<1>5. RoomInv
  <2>1. Len(lh) = 0 /\ Cardinality(Reserved) = 0 /\ outstanding = 0
    BY <1>1, <1>3, <1>4 DEF Init
  <2>2. Len(lh) + Cardinality(Reserved) <= LOGSIZE
    BY <2>1, Constants
  <2> QED BY <1>3, <1>4, <2>1, <2>2 DEF Init, RoomInv, RoomForWrites
<1>6. ControlInv
  BY <1>3 DEF Init, ControlInv
<1>7. LockInv
  BY DEF Init, LockInv
<1>8. HeadInv /\ CopyInv
  <2>1. lh = <<>> /\ dhead = <<>> /\ phase = "read head"
    BY DEF Init
  <2>2. NoTwice(<<>>)
    BY DEF NoTwice
  <2>3. Len(<<>>) <= LOGSIZE /\ 1 .. Len(<<>>) = {}
    BY <1>1, Constants
  <2>4. HeadInv
    BY <2>1, <2>2, <2>3 DEF HeadInv
  <2>5. CopyInv
    BY <2>1, <2>3 DEF CopyInv
  <2> QED BY <2>4, <2>5
<1>9. BufferInv
  BY DEF Init, BufferInv, BufferOK, Modified
<1> QED BY <1>2, <1>5, <1>6, <1>7, <1>8, <1>9 DEF LogInv, DataInv

LEMMA LogStutter ==
    ASSUME LogInv, UNCHANGED vars
    PROVE  LogInv'
<1>1. /\ UNCHANGED <<disk, dlog, dhead, cache, dirty, locked, lh, outstanding, committing>>
      /\ UNCHANGED <<phase, tail, recovering, pc, left, panicked>>
  BY DEF vars, onDisk, buffers, log, proc
<1>2. TypeOK' /\ LockInv'
  BY <1>1 DEF LogInv, TypeOK, LockInv
<1>3. Open' = Open /\ Reserved' = Reserved
  BY <1>1 DEF Open, Reserved, Slack
<1>4. RoomInv' /\ ControlInv'
  BY <1>1, <1>3 DEF LogInv, RoomInv, RoomForWrites, InLog, ControlInv
<1>5. HeadInv' /\ CopyInv'
  BY <1>1 DEF LogInv, DataInv, HeadInv, CopyInv, CopyOK, NoTwice
<1>6. BufferInv'
  BY <1>1 DEF LogInv, DataInv, BufferInv, BufferOK, Modified, InLog
<1> QED BY <1>2, <1>4, <1>5, <1>6 DEF LogInv, DataInv

\* What the log keeps true of its buffers, its header and its system calls, at
\* every step of every call, of commit(), of a crash and of the recovery.
THEOREM LogInvariant == Spec => []LogInv
<1>1. Init => LogInv
  BY LogInit
<1>2. LogInv /\ [Next]_vars => LogInv'
  <2> SUFFICES ASSUME LogInv, [Next]_vars PROVE LogInv'
    OBVIOUS
  <2>1. CASE Next
    BY <2>1, TypeNext, LockNext, ControlNext, RoomNext, HeadNext, BufferNext, CopyNext
    DEF LogInv, DataInv
  <2>2. CASE UNCHANGED vars
    BY <2>2, LogStutter
  <2> QED BY <2>1, <2>2
<1> QED BY <1>1, <1>2, PTL DEF Spec

\* Type correctness: the header names blocks, tail is a position of the log.
THEOREM TypeCorrect == Spec => []TypeOK
<1>1. LogInv => TypeOK
  BY DEF LogInv
<1> QED BY <1>1, LogInvariant, PTL

\* log_write() pins what it logs: no block of the log leaves the cache before
\* install_trans() wrote it home.
THEOREM Pinned == Spec => []LoggedBlocksPinned
<1>1. LogInv => LoggedBlocksPinned
  <2> SUFFICES ASSUME LogInv, NEW i \in 1 .. Len(lh), phase \in {"none", "log", "head"}
               PROVE  dirty[lh[i]] /\ cache[lh[i]] # NotCached
    BY DEF LoggedBlocksPinned
  <2> QED BY ListedBlock DEF LogInv, CopyOK
<1> QED BY <1>1, LogInvariant, PTL

-----------------------------------------------------------------------------
(* What a crash would leave, and what the programs see. *)

\* The home of a block that the header lists is in the log, once.
LEMMA RecoveredListed ==
    ASSUME TypeOK, NoTwice(dhead), NEW k \in 1 .. Len(dhead)
    PROVE  Recovered[dhead[k]] = dlog[k]
<1>1. DOMAIN dhead = 1 .. Len(dhead) /\ dhead[k] \in Block
  BY DEF TypeOK
<1>2. dhead[k] \in ToSet(dhead)
  BY <1>1 DEF ToSet
<1> DEFINE Here == {i \in DOMAIN dhead : dhead[i] = dhead[k]}
<1>3. \E i \in DOMAIN dhead : dhead[i] = dhead[k]
  BY <1>1
<1>4. (CHOOSE i \in DOMAIN dhead : dhead[i] = dhead[k]) = k
  <2> DEFINE c == CHOOSE i \in DOMAIN dhead : dhead[i] = dhead[k]
  <2>1. c \in DOMAIN dhead /\ dhead[c] = dhead[k]
    BY <1>3
  <2> HIDE DEF c
  <2>2. c = k
    BY <1>1, <2>1 DEF NoTwice
  <2> QED BY <2>2 DEF c
<1> QED BY <1>1, <1>2, <1>4 DEF Recovered

LEMMA RecoveredOther ==
    ASSUME TypeOK, NEW b \in Block, \A k \in 1 .. Len(dhead) : dhead[k] # b
    PROVE  Recovered[b] = disk[b]
<1>1. b \notin ToSet(dhead)
  BY DEF TypeOK, ToSet
<1> QED BY <1>1 DEF Recovered

\* With an empty header a crash leaves the home blocks.
LEMMA RecoveredHome ==
    ASSUME TypeOK, dhead = <<>>
    PROVE  Recovered = disk
<1>1. \A b \in Block : Recovered[b] = disk[b]
  BY RecoveredOther
<1> QED BY <1>1 DEF Recovered, TypeOK

\* Equal when every block is.
LEMMA SameBlocks ==
    ASSUME \A b \in Block : Recovered'[b] = Recovered[b]
    PROVE  Recovered' = Recovered
BY DEF Recovered

LEMMA DiskKept ==
    ASSUME UNCHANGED onDisk
    PROVE  Recovered' = Recovered
BY DEF onDisk, Recovered

LEMMA SeenKept ==
    ASSUME recovering' = recovering, Recovered' = Recovered,
           recovering \/ \A b \in Block : Data(b)' = Data(b)
    PROVE  Seen' = Seen
BY DEF Seen

\* A block that no call is changing and no transaction has is what its home is.
LEMMA DataHome ==
    ASSUME BufferInv, NEW b \in Block, ~dirty[b], ~Modified(b)
    PROVE  Data(b) = disk[b]
BY DEF BufferInv, BufferOK, Data

\* Nothing is dirty, and nothing is being changed.
LEMMA AllHome ==
    ASSUME BufferInv, TypeOK, Open = {}, lh = <<>>
    PROVE  \A b \in Block : Data(b) = disk[b]
<1> SUFFICES ASSUME NEW b \in Block PROVE Data(b) = disk[b]
  OBVIOUS
<1>1. ~InLog(b)
  BY DEF InLog
<1>2. ~dirty[b]
  BY <1>1 DEF BufferInv, BufferOK
<1>3. ~Modified(b)
  BY NoneAssumption DEF TypeOK, Modified, Open
<1> QED BY <1>2, <1>3, DataHome

\* When the last system call has returned, all of its writes survive a crash:
\* end_op() commits before it returns.
THEOREM Durable == Spec => []QuiescentDurable
<1>1. LogInv => QuiescentDurable
  <2> SUFFICES ASSUME LogInv, outstanding = 0, ~committing PROVE Seen = Recovered
    BY DEF QuiescentDurable
  <2>1. CASE recovering
    <3>1. Seen = [b \in Block |-> Recovered[b]]
      BY <2>1 DEF Seen
    <3> QED BY <3>1 DEF Recovered
  <2>2. CASE ~recovering
    <3>1. phase = "none"
      BY <2>2 DEF LogInv, ControlInv, TypeOK
    <3>2. Open = {}
      BY FS_EmptySet DEF LogInv, RoomInv
    <3>3. lh = <<>> /\ dhead = <<>>
      BY <3>1, <3>2 DEF LogInv, ControlInv, DataInv, HeadInv
    <3>4. Recovered = disk
      BY <3>3, RecoveredHome DEF LogInv
    <3>5. \A b \in Block : Data(b) = disk[b]
      BY <3>2, <3>3, AllHome DEF LogInv, DataInv
    <3>6. Seen = [b \in Block |-> disk[b]]
      BY <2>2, <3>5 DEF Seen
    <3> QED BY <3>4, <3>6 DEF LogInv, TypeOK
  <2> QED BY <2>1, <2>2
<1> QED BY <1>1, LogInvariant, PTL

-----------------------------------------------------------------------------
(* The log implements AtomicDisk, step by step. *)

Stays == Seen' = Seen /\ Recovered' = Recovered /\ Open' = Open

LEMMA StaysPut ==
    ASSUME Stays
    PROVE  UNCHANGED Atomic!vars
BY DEF Stays, Atomic!vars, Open


\* The same of the next state.
RecoveredShape ==
    /\ NoTwice(dhead) => \A k \in 1 .. Len(dhead) : Recovered[dhead[k]] = dlog[k]
    /\ \A b \in Block : (\A k \in 1 .. Len(dhead) : dhead[k] # b) => Recovered[b] = disk[b]
    /\ dhead = <<>> => Recovered = disk

LEMMA Recovers == TypeOK => RecoveredShape
BY RecoveredListed, RecoveredOther, RecoveredHome DEF RecoveredShape

LEMMA RecoversNext == TypeOK' => RecoveredShape'
BY Recovers, PTL

LEMMA RecoveredListedNext ==
    ASSUME TypeOK', NoTwice(dhead)', NEW k \in 1 .. Len(dhead')
    PROVE  Recovered'[dhead'[k]] = dlog'[k]
BY RecoversNext DEF RecoveredShape

LEMMA RecoveredOtherNext ==
    ASSUME TypeOK', NEW b \in Block, \A k \in 1 .. Len(dhead') : dhead'[k] # b
    PROVE  Recovered'[b] = disk'[b]
BY RecoversNext DEF RecoveredShape

LEMMA RecoveredHomeNext ==
    ASSUME TypeOK', dhead' = <<>>
    PROVE  Recovered' = disk'
BY RecoversNext DEF RecoveredShape

LEMMA AtomicStep ==
    ASSUME LogInv, Next
    PROVE  [Atomic!Next]_Atomic!vars
<1> USE DEF LogInv
<1>1. ASSUME NEW p \in Proc, BeginOp(p) PROVE [Atomic!Next]_Atomic!vars
  <2>1. UNCHANGED <<disk, dlog, dhead, cache, recovering>>
    BY <1>1 DEF BeginOp, onDisk, buffers
  <2>2. \A b \in Block : Data(b)' = Data(b)
    BY <2>1 DEF Data
  <2>3. Seen' = Seen /\ Recovered' = Recovered
    BY <2>1, <2>2, DiskKept, SeenKept DEF onDisk
  <2>4. Open' = Open \cup {p}
    BY <1>1 DEF TypeOK, Open, BeginOp, onDisk, buffers, HasRoom
  <2>5. Atomic!Begin(p)
    BY <2>3, <2>4 DEF Atomic!Begin, Open
  <2> QED BY <2>5 DEF Atomic!Next
<1>2. ASSUME NEW p \in Proc, BeginSleep(p) PROVE [Atomic!Next]_Atomic!vars
  <2>1. UNCHANGED <<disk, dlog, dhead, cache, recovering>> /\ Open' = Open
    BY <1>2 DEF TypeOK, Open, BeginSleep, onDisk, buffers, log, HasRoom
  <2>2. \A b \in Block : Data(b)' = Data(b)
    BY <2>1 DEF Data
  <2>3. Recovered' = Recovered
    BY <2>1, DiskKept DEF onDisk
  <2> QED BY <2>1, <2>2, <2>3, SeenKept, StaysPut DEF Stays
<1>3. ASSUME NEW p \in Proc, LogWrite(p) PROVE [Atomic!Next]_Atomic!vars
  <2>1. UNCHANGED <<disk, dlog, dhead, cache, recovering>> /\ Open' = Open
    BY <1>3 DEF TypeOK, Open, LogWrite, onDisk, Locks
  <2>2. \A b \in Block : Data(b)' = Data(b)
    BY <2>1 DEF Data
  <2>3. Recovered' = Recovered
    BY <2>1, DiskKept DEF onDisk
  <2> QED BY <2>1, <2>2, <2>3, SeenKept, StaysPut DEF Stays
<1>4. ASSUME NEW p \in Proc, EndOp(p) PROVE [Atomic!Next]_Atomic!vars
  <2>1. UNCHANGED <<disk, dlog, dhead, cache, recovering>>
    BY <1>4 DEF EndOp, onDisk, buffers
  <2>2. \A b \in Block : Data(b)' = Data(b)
    BY <2>1 DEF Data
  <2>3. Seen' = Seen /\ Recovered' = Recovered
    BY <2>1, <2>2, DiskKept, SeenKept DEF onDisk
  <2>4. Open' = Open \ {p}
    BY <1>4 DEF TypeOK, Open, EndOp, onDisk, buffers, log, Woken
  <2>5. Atomic!End(p)
    BY <2>3, <2>4 DEF Atomic!End, Open
  <2> QED BY <2>5 DEF Atomic!Next
<1>5. ASSUME NEW p \in Proc, EndCommit(p) PROVE [Atomic!Next]_Atomic!vars
  <2>1. UNCHANGED <<disk, dlog, dhead, cache, recovering>> /\ Open' = Open
    BY <1>5 DEF TypeOK, Open, EndCommit, onDisk, buffers, Woken
  <2>2. \A b \in Block : Data(b)' = Data(b)
    BY <2>1 DEF Data
  <2>3. Recovered' = Recovered
    BY <2>1, DiskKept DEF onDisk
  <2> QED BY <2>1, <2>2, <2>3, SeenKept, StaysPut DEF Stays
<1>6. ASSUME NEW p \in Proc, ReadDone(p) PROVE [Atomic!Next]_Atomic!vars
  <2>1. UNCHANGED <<disk, dlog, dhead, cache, recovering>> /\ Open' = Open
    BY <1>6 DEF TypeOK, Open, ReadDone, onDisk, log, Unlocked
  <2>2. \A b \in Block : Data(b)' = Data(b)
    BY <2>1 DEF Data
  <2>3. Recovered' = Recovered
    BY <2>1, DiskKept DEF onDisk
  <2> QED BY <2>1, <2>2, <2>3, SeenKept, StaysPut DEF Stays
<1>7. ASSUME NEW p \in Proc, NEW b \in Block, ReadBlock(p, b) PROVE [Atomic!Next]_Atomic!vars
  <2>1. /\ UNCHANGED <<disk, dlog, dhead, recovering>>
        /\ cache' = [cache EXCEPT ![b] = Data(b)]
    BY <1>7 DEF ReadBlock, onDisk
  <2>2. Open' = Open
    BY <1>7 DEF ReadBlock, TypeOK, Open
  <2>3. \A c \in Block : Data(c)' = Data(c)
    BY <2>1, DataTyped, NoneAssumption DEF TypeOK, Data
  <2>4. Recovered' = Recovered
    BY <2>1, DiskKept DEF onDisk
  <2> QED BY <2>1, <2>2, <2>3, <2>4, SeenKept, StaysPut DEF Stays
<1>8. ASSUME NEW p \in Proc, NEW b \in Block, NEW v \in Val, Modify(p, b, v)
      PROVE  [Atomic!Next]_Atomic!vars
  <2>1. /\ UNCHANGED <<disk, dlog, dhead, recovering>> /\ pc[p] = "in"
        /\ pc' = [pc EXCEPT ![p] = "logging"] /\ cache' = [cache EXCEPT ![b] = v]
    BY <1>8 DEF Modify, onDisk
  <2>2. ~recovering /\ p \in Open
    BY <2>1, OpenQuiet DEF TypeOK
  <2>3. Open' = Open
    BY <2>1 DEF TypeOK, Open
  <2>4. Recovered' = Recovered
    BY <2>1, DiskKept DEF onDisk
  <2>5. \A c \in Block : Data(c)' = IF c = b THEN v ELSE Data(c)
    BY <2>1, NoneAssumption DEF TypeOK, Data
  <2>6. Seen' = [Seen EXCEPT ![b] = v]
    BY <2>1, <2>2, <2>5 DEF Seen
  <2>7. Atomic!Write(p, b, v)
    BY <2>2, <2>3, <2>4, <2>6 DEF Atomic!Write, Open
  <2> QED BY <2>7 DEF Atomic!Next
<1>9. CASE WriteLog
  <2>1. /\ UNCHANGED <<disk, dhead, recovering, pc>> /\ phase = "log" /\ lh[tail] \in Block
        /\ cache' = [cache EXCEPT ![lh[tail]] = Data(lh[tail])]
    BY <1>9, TailInLog DEF WriteLog, proc
  <2>2. Open' = Open /\ dhead = <<>>
    BY <2>1 DEF Open, DataInv, HeadInv
  <2>3. \A c \in Block : Data(c)' = Data(c)
    BY <2>1, DataTyped, NoneAssumption DEF TypeOK, Data
  <2>4. Recovered = disk /\ Recovered' = disk'
    BY <2>1, <2>2, TypeNext, RecoveredHome, RecoveredHomeNext
  <2> QED BY <2>1, <2>2, <2>3, <2>4, SeenKept, StaysPut DEF Stays
<1>10. CASE WriteHead
  <2>1. /\ UNCHANGED <<disk, dlog, cache, recovering, pc>> /\ phase = "head"
        /\ dhead' = lh
    BY <1>10 DEF WriteHead, buffers, proc
  <2>2. ~recovering /\ Open = {} /\ Open' = {} /\ dhead = <<>>
    BY <2>1 DEF ControlInv, Open, DataInv, HeadInv
  <2>3. Recovered = disk
    BY <2>2, RecoveredHome
  <2>4. TypeOK' /\ NoTwice(dhead')
    BY <2>1, TypeNext DEF DataInv, HeadInv
  <2>5. \A b \in Block : Recovered'[b] = Data(b)
    <3> SUFFICES ASSUME NEW b \in Block PROVE Recovered'[b] = Data(b)
      OBVIOUS
    <3>1. CASE InLog(b)
      <4>1. PICK k \in 1 .. Len(lh) : lh[k] = b
        BY <3>1 DEF InLog
      <4>2. dirty[b] /\ dlog[k] = cache[b] /\ cache[b] # NotCached
        BY <2>1, <4>1, ListedBlock DEF CopyOK
      <4>3. Recovered'[b] = dlog[k]
        BY <2>1, <2>4, <4>1, RecoveredListedNext
      <4> QED BY <4>2, <4>3 DEF Data
    <3>2. CASE ~InLog(b)
      <4>1. ~dirty[b] /\ ~Modified(b)
        BY <2>2, <3>2, NoneAssumption DEF DataInv, BufferInv, BufferOK, Modified, Open, TypeOK
      <4>2. Data(b) = disk[b]
        BY <4>1, DataHome DEF DataInv
      <4>3. Recovered'[b] = disk'[b]
        BY <2>1, <2>4, <3>2, RecoveredOtherNext DEF InLog
      <4> QED BY <2>1, <4>2, <4>3
    <3> QED BY <3>1, <3>2
  <2>6. Recovered' = Seen /\ Seen' = Seen
    <3>1. Seen = [b \in Block |-> Data(b)] /\ Seen' = [b \in Block |-> Data(b)]
      BY <2>1, <2>2 DEF Seen, Data
    <3> QED BY <2>5, <3>1 DEF Recovered
  <2>7. Atomic!Commit
    BY <2>2, <2>6 DEF Atomic!Commit, Open
  <2> QED BY <2>7 DEF Atomic!Next
<1>11. CASE Install
  <2>1. /\ UNCHANGED <<dlog, dhead, recovering, pc>> /\ phase = "install"
        /\ lh[tail] \in Block /\ tail \in 1 .. Len(lh) /\ dlog[tail] \in Val
        /\ cache' = [cache EXCEPT ![lh[tail]] = dlog[tail]]
        /\ disk' = [disk EXCEPT ![lh[tail]] = dlog[tail]]
    BY <1>11, TailInLog DEF Install, proc
  <2>2. Open' = Open /\ dhead = lh /\ NoTwice(dhead) /\ TypeOK'
    BY <2>1, TypeNext DEF Open, DataInv, HeadInv
  <2>3. \A b \in Block : Recovered'[b] = Recovered[b]
    <3> SUFFICES ASSUME NEW b \in Block PROVE Recovered'[b] = Recovered[b]
      OBVIOUS
    <3>1. CASE InLog(b)
      <4>1. PICK k \in 1 .. Len(dhead) : dhead[k] = b
        BY <2>2, <3>1 DEF InLog
      <4>2. Recovered[b] = dlog[k] /\ Recovered'[b] = dlog'[k]
        BY <2>1, <2>2, <4>1, RecoveredListed, RecoveredListedNext
      <4> QED BY <2>1, <4>2
    <3>2. CASE ~InLog(b)
      <4>1. b # lh[tail]
        BY <2>1, <3>2 DEF InLog
      <4>2. Recovered[b] = disk[b] /\ Recovered'[b] = disk'[b]
        BY <2>1, <2>2, <3>2, RecoveredOther, RecoveredOtherNext DEF InLog
      <4> QED BY <2>1, <4>1, <4>2 DEF TypeOK
    <3> QED BY <3>1, <3>2
  <2>4. recovering \/ \A b \in Block : Data(b)' = Data(b)
    <3> SUFFICES ASSUME ~recovering, NEW b \in Block PROVE Data(b)' = Data(b)
      OBVIOUS
    <3>1. CASE b = lh[tail]
      <4>1. cache[b] = dlog[tail]
        BY <2>1, <3>1, ListedBlock DEF CopyOK
      <4>2. cache'[b] = dlog[tail]
        BY <2>1, <3>1 DEF TypeOK
      <4> QED BY <2>1, <4>1, <4>2, NoneAssumption DEF Data
    <3>2. CASE b # lh[tail]
      BY <2>1, <3>2 DEF TypeOK, Data
    <3> QED BY <3>1, <3>2
  <2> QED BY <2>1, <2>2, <2>3, <2>4, SameBlocks, SeenKept, StaysPut DEF Stays
<1>12. CASE Erase
  <2>1. /\ UNCHANGED <<disk, cache, pc>> /\ phase = "erase" /\ dhead' = <<>> /\ ~recovering'
    BY <1>12 DEF Erase, buffers, proc
  <2>2. dhead = lh /\ NoTwice(dhead) /\ Open = {} /\ Open' = Open
    BY <2>1 DEF DataInv, HeadInv, ControlInv, Open
  <2>3. \A b \in Block : Recovered[b] = disk[b] /\ Data(b) = disk[b]
    <3> SUFFICES ASSUME NEW b \in Block PROVE Recovered[b] = disk[b] /\ Data(b) = disk[b]
      OBVIOUS
    <3>1. ~Modified(b)
      BY <2>2, NoneAssumption DEF TypeOK, Modified, Open
    <3>2. CASE InLog(b)
      <4>1. PICK k \in 1 .. Len(dhead) : dhead[k] = b
        BY <2>2, <3>2 DEF InLog
      <4>2. ~dirty[b] /\ disk[b] = dlog[k]
        BY <2>1, <2>2, <4>1, ListedBlock DEF CopyOK
      <4> QED BY <2>2, <3>1, <4>1, <4>2, RecoveredListed, DataHome DEF DataInv
    <3>3. CASE ~InLog(b)
      <4>1. ~dirty[b]
        BY <3>3 DEF DataInv, BufferInv, BufferOK
      <4>2. Recovered[b] = disk[b]
        BY <2>2, <3>3, RecoveredOther DEF InLog
      <4> QED BY <3>1, <4>1, <4>2, DataHome DEF DataInv
    <3> QED BY <3>2, <3>3
  <2>4. Recovered' = disk'
    BY <2>1, TypeNext, RecoveredHomeNext
  <2>5. Recovered' = Recovered
    BY <2>1, <2>3, <2>4, SameBlocks
  <2>6. Seen = [b \in Block |-> disk[b]]
    BY <2>3 DEF Seen
  <2>7. Seen' = [b \in Block |-> disk[b]]
    BY <2>1, <2>3 DEF Seen, Data
  <2> QED BY <2>2, <2>5, <2>6, <2>7, StaysPut DEF Stays
<1>13. CASE ReadHead
  <2>1. UNCHANGED <<disk, dlog, dhead, cache, recovering, pc>>
    BY <1>13 DEF ReadHead, onDisk, buffers, proc
  <2>2. Recovered' = Recovered /\ Open' = Open
    BY <2>1, DiskKept DEF onDisk, Open
  <2>3. \A b \in Block : Data(b)' = Data(b)
    BY <2>1 DEF Data
  <2> QED BY <2>1, <2>2, <2>3, SeenKept, StaysPut DEF Stays
<1>14. ASSUME NEW b \in Block, Evict(b) PROVE [Atomic!Next]_Atomic!vars
  <2>1. /\ UNCHANGED <<disk, dlog, dhead, recovering, pc>> /\ ~dirty[b] /\ Free(b)
        /\ cache' = [cache EXCEPT ![b] = NotCached]
    BY <1>14 DEF Evict, onDisk, proc
  <2>2. Open' = Open
    BY <2>1 DEF Open
  <2>3. Data(b) = disk[b]
    BY <2>1, FreeQuiet, DataHome DEF DataInv
  <2>4. \A c \in Block : Data(c)' = Data(c)
    BY <2>1, <2>3 DEF TypeOK, Data
  <2>5. Recovered' = Recovered
    BY <2>1, DiskKept DEF onDisk
  <2> QED BY <2>1, <2>2, <2>4, <2>5, SeenKept, StaysPut DEF Stays
<1>15. CASE Crash
  <2>1. UNCHANGED onDisk /\ recovering' /\ pc' = [p \in Proc |-> "idle"]
    BY <1>15 DEF Crash, Boot
  <2>2. Recovered' = Recovered
    BY <2>1, DiskKept
  <2>3. Seen' = Recovered
    <3>1. Seen' = [b \in Block |-> Recovered[b]]
      BY <2>1, <2>2 DEF Seen
    <3> QED BY <3>1 DEF Recovered
  <2>4. Open' = {}
    BY <2>1 DEF Open
  <2>5. Atomic!Crash
    BY <2>2, <2>3, <2>4 DEF Atomic!Crash, Open
  <2> QED BY <2>5 DEF Atomic!Next
<1> QED
  BY <1>1, <1>2, <1>3, <1>4, <1>5, <1>6, <1>7, <1>8, <1>9, <1>10, <1>11, <1>12, <1>13, <1>14, <1>15
  DEF Next, ProcStep, CommitStep

LEMMA AtomicInit ==
    ASSUME Init
    PROVE  Atomic!Init
<1>1. TypeOK /\ dhead = <<>> /\ recovering
  BY LogInit DEF LogInv, Init
<1>2. Recovered = disk
  BY <1>1, RecoveredHome
<1>3. Seen = disk
  BY <1>1, <1>2 DEF Seen, TypeOK
<1> QED BY <1>2, <1>3 DEF Atomic!Init, Init

\* Every system call survives a crash whole or not at all: at each step the log
\* does what AtomicDisk may do, or nothing that programs or a crash could show.
THEOREM Atomicity == Spec => ImplementsAtomicDisk
<1>1. Init => Atomic!Init
  BY AtomicInit
<1>2. LogInv /\ [Next]_vars => [Atomic!Next]_Atomic!vars
  <2> SUFFICES ASSUME LogInv, [Next]_vars PROVE [Atomic!Next]_Atomic!vars
    OBVIOUS
  <2>1. CASE Next
    BY <2>1, AtomicStep
  <2>2. CASE UNCHANGED vars
    <3>1. UNCHANGED <<disk, dlog, dhead, cache, recovering, pc>>
      BY <2>2 DEF vars, onDisk, buffers, proc
    <3>2. Recovered' = Recovered /\ Open' = Open
      BY <3>1, DiskKept DEF onDisk, Open
    <3>3. \A b \in Block : Data(b)' = Data(b)
      BY <3>1 DEF Data
    <3> QED BY <3>1, <3>2, <3>3, SeenKept, StaysPut DEF Stays
  <2> QED BY <2>1, <2>2
<1> QED BY <1>1, <1>2, LogInvariant, PTL DEF Spec, ImplementsAtomicDisk, Atomic!Spec

-----------------------------------------------------------------------------
(* No panic. *)

\* log.size counts the header, so a log of LOGSIZE blocks takes one block less;
\* and log_write() wants one block free even when it absorbs the write.  A system
\* call must stay two blocks below MAXOPBLOCKS for it, as every one of the code
\* does: filewrite(), the largest, writes four blocks of a file, its indirect
\* block, its inode and the bitmap.
LogFits == NLOG = LOGSIZE /\ OpWrites + 1 < MAXOPBLOCKS

\* When a call is about to log a block, the others' reservations and its own
\* keep log_write() below its limits.
LEMMA RoomToWrite ==
    ASSUME LogInv, LogFits, NEW p \in Proc, NEW b \in Block, pc[p] = "in",
           left[p] > 0 \/ b \in ToSet(lh)
    PROVE  Len(lh) < LOGSIZE /\ Len(lh) < NLOG - 1
<1>1. p \in Open /\ left[p] \in 0 .. OpWrites
  BY DEF LogInv, TypeOK, Open
<1>2. Slack \in Nat /\ Slack <= MAXOPBLOCKS
  BY Constants
<1> DEFINE own == {p} \X (1 .. Slack)
<1>3. own \subseteq Reserved
  BY <1>1, <1>2, Constants DEF Reserved
<1>4. IsFiniteSet(own) /\ Cardinality(own) = Slack
  <2>1. IsFiniteSet({p}) /\ Cardinality({p}) = 1
    BY FS_Singleton
  <2>2. IsFiniteSet(1 .. Slack) /\ Cardinality(1 .. Slack) = Slack
    BY <1>2, FS_Interval
  <2>3. IsFiniteSet(own) /\ Cardinality(own) = Cardinality({p}) * Cardinality(1 .. Slack)
    BY <2>1, <2>2, FS_Product
  <2> QED BY <1>2, <2>1, <2>2, <2>3
<1>5. Slack <= Cardinality(Reserved) /\ Cardinality(Reserved) \in Nat
  <2> HIDE DEF own
  <2> QED BY <1>3, <1>4, ReservedFinite, FS_Subset DEF LogInv
<1>6. Len(lh) + Slack <= LOGSIZE /\ Len(lh) \in Nat
  BY <1>2, <1>5, Constants DEF LogInv, RoomInv, TypeOK
<1>7. LOGSIZE - Slack < NLOG - 1
  BY Constants DEF LogFits
<1>8. Slack > 0
  BY Constants DEF LogFits
<1> QED BY <1>2, <1>6, <1>7, <1>8, Constants

\* begin_op() lets a call in only when the log has room for all it may write, so
\* neither log_write() nor end_op() ever panics, whatever the calls overlap.
THEOREM NeverPanics == ASSUME LogFits PROVE Spec => []NoPanic
<1>1. Init => NoPanic
  BY DEF Init, NoPanic
<1>2. LogInv /\ NoPanic /\ [Next]_vars => NoPanic'
  <2> SUFFICES ASSUME LogInv, NoPanic, [Next]_vars PROVE panicked' = FALSE
    BY DEF NoPanic
  <2>1. ASSUME NEW p \in Proc, EndOp(p) PROVE panicked' = FALSE
    BY <2>1, OpenQuiet DEF EndOp, LogInv, TypeOK
  <2>2. ASSUME NEW p \in Proc, NEW b \in Block, NEW v \in Val, Modify(p, b, v)
        PROVE  panicked' = FALSE
    <3>1. pc[p] = "in" /\ (left[p] > 0 \/ b \in ToSet(lh))
      BY <2>2 DEF Modify
    <3>2. Len(lh) < LOGSIZE /\ Len(lh) < NLOG - 1
      BY <3>1, RoomToWrite
    <3>3. outstanding >= 1 /\ outstanding \in Nat /\ Len(lh) \in Nat
      BY <3>1, OpenCounted DEF LogInv, TypeOK
    <3>4. ~(Len(lh) >= LOGSIZE) /\ ~(Len(lh) >= NLOG - 1) /\ ~(outstanding < 1)
      BY <3>2, <3>3, Constants
    <3> QED BY <2>2, <3>4 DEF Modify
  <2>3. CASE UNCHANGED panicked
    BY <2>3 DEF NoPanic, LogInv, TypeOK
  <2>4. CASE Next
    <3>1. ASSUME NEW p \in Proc, ProcStep(p) PROVE panicked' = FALSE
      BY <3>1, <2>1, <2>2, <2>3
      DEF ProcStep, BeginOp, BeginSleep, LogWrite, EndCommit, ReadDone, ReadBlock
    <3>2. CASE CommitStep
      BY <3>2, <2>3 DEF CommitStep, WriteLog, WriteHead, Install, Erase, ReadHead
    <3>3. CASE (\E b \in Block : Evict(b)) \/ Crash
      BY <2>3, <3>3 DEF Evict, Crash
    <3> QED BY <2>4, <3>1, <3>2, <3>3 DEF Next
  <2> QED BY <2>3, <2>4 DEF vars
<1> QED BY <1>1, <1>2, LogInvariant, PTL DEF Spec
=============================================================================
