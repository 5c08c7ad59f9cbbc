------------------------- MODULE BufferCache_proofs -------------------------
(***************************************************************************)
(* The buffer cache of BufferCache, proved for any number of processes,    *)
(* blocks and buffers: CacheInv is inductive, CacheSound follows from it,  *)
(* and with it BufferCache implements BlockStore.  BuffersSuffice holds    *)
(* when there is a buffer for every process besides those that the log may *)
(* leave dirty.                                                            *)
(***************************************************************************)
EXTENDS BufferCacheProps, FiniteSetTheorems, SequenceTheorems, TLAPS

-----------------------------------------------------------------------------
(* The inductive invariant. *)

PcLabel == {"idle", "lock", "asleep on lock", "read", "asleep on disk", "woken", "held",
            "release"}

\* Where a process has the lock of its buffer, and where the disk has the buffer.
Locking == {"read", "asleep on disk", "woken", "held"}
AtDisk == {"asleep on disk", "woken"}

Buffer == [block : Block \cup {NoBlock}, valid : BOOLEAN, dirty : BOOLEAN, refcnt : Nat,
           data : Val \cup {NoVal}, holder : Proc \cup {NoProc}]

TypeOK ==
    /\ buf \in [Buf -> Buffer]
    /\ lru \in [Buf -> Buf]
    /\ idequeue \in Seq(Buf)
    /\ disk \in [Block -> Val]
    /\ pc \in [Proc -> PcLabel]
    /\ mine \in [Proc -> Buf \cup {NoBuf}]

Users(i) == {p \in Proc : mine[p] = i}

\* A buffer is counted, its lock is that of a user, and it holds its block.
BufOK(i) ==
    /\ IsFiniteSet(Users(i)) /\ buf[i].refcnt = Cardinality(Users(i))
    /\ buf[i].holder # NoProc => mine[buf[i].holder] = i /\ pc[buf[i].holder] \in Locking
    /\ buf[i].dirty => buf[i].valid
    /\ buf[i].valid => buf[i].block \in Block /\ buf[i].data \in Val
    /\ buf[i].valid /\ ~buf[i].dirty => buf[i].data = disk[buf[i].block]
BufInv == \A i \in Buf : BufOK(i)

\* A process in bread() or bwrite() has a buffer, that of a block.
ProcOK(p) ==
    /\ mine[p] = NoBuf <=> pc[p] = "idle"
    /\ mine[p] # NoBuf => buf[mine[p]].block \in Block
    /\ pc[p] \in Locking => buf[mine[p]].holder = p
    /\ pc[p] = "held" => buf[mine[p]].valid
    /\ pc[p] = "read" => ~buf[mine[p]].valid
ProcInv == \A p \in Proc : ProcOK(p)

\* No block has two buffers.
OneInv ==
    \A i, j \in Buf : buf[i].block = buf[j].block /\ buf[i].block # NoBlock => i = j

\* A request is that of a sleeper, who is woken only when the disk is done.
Requested(i) ==
    buf[i].holder # NoProc /\ pc[buf[i].holder] \in AtDisk /\ ~Done(i)
QueueInv ==
    /\ \A k \in 1 .. Len(idequeue) : Requested(idequeue[k])
    /\ \A j, k \in 1 .. Len(idequeue) : idequeue[j] = idequeue[k] => j = k

\* Every buffer is on the list.
ListInv == \A i \in Buf : \E k \in Buf : lru[k] = i

CacheInv == TypeOK /\ BufInv /\ ProcInv /\ OneInv /\ QueueInv /\ ListInv

-----------------------------------------------------------------------------
(* What a step leaves alone. *)

LEMMA BufFacts ==
    NoBuf \notin Buf /\ NoProc \notin Proc /\ NoBlock \notin Block /\ Buf \subseteq Nat
BY BufferAssumption DEF NoBuf, Buf

LEMMA BufKept ==
    ASSUME TypeOK, NEW j \in Buf, BufOK(j), buf'[j] = buf[j], Users(j)' = Users(j), disk' = disk,
           \A q \in Proc : mine[q] = j /\ pc[q] \in Locking => mine'[q] = j /\ pc'[q] \in Locking
    PROVE  BufOK(j)'
BY DEF TypeOK, Buffer, BufOK

LEMMA ProcKept ==
    ASSUME NEW q \in Proc, ProcOK(q), pc'[q] = pc[q], mine'[q] = mine[q],
           mine[q] # NoBuf => /\ buf'[mine[q]].block = buf[mine[q]].block
                              /\ buf'[mine[q]].valid = buf[mine[q]].valid
                              /\ pc[q] \in Locking => buf'[mine[q]].holder = buf[mine[q]].holder
    PROVE  ProcOK(q)'
BY DEF ProcOK, Locking

LEMMA OneKept ==
    ASSUME OneInv, \A j \in Buf : buf'[j].block = buf[j].block
    PROVE  OneInv'
BY DEF OneInv

LEMMA QueueKept ==
    ASSUME TypeOK, QueueInv, idequeue' = idequeue, \A j \in Buf : Requested(j) => Requested(j)'
    PROVE  QueueInv'
<1>1. \A k \in 1 .. Len(idequeue) : idequeue[k] \in Buf
  BY DEF TypeOK
<1> QED BY <1>1 DEF QueueInv

LEMMA ListKept ==
    ASSUME ListInv, lru' = lru
    PROVE  ListInv'
BY DEF ListInv

LEMMA UsersKept ==
    ASSUME mine' = mine
    PROVE  \A j \in Buf : Users(j)' = Users(j)
BY DEF Users

\* A process without a buffer is idle, the others have one.
LEMMA Mine ==
    ASSUME TypeOK, NEW p \in Proc, ProcOK(p), pc[p] # "idle"
    PROVE  mine[p] \in Buf /\ p \in Users(mine[p]) /\ buf[mine[p]] \in Buffer
BY DEF TypeOK, ProcOK, Users

-----------------------------------------------------------------------------
(* Every step keeps the invariant. *)

\* A step that moves one process on and changes no buffer.
LEMMA MoveOn ==
    ASSUME CacheInv, NEW p \in Proc, NEW l \in PcLabel, pc' = [pc EXCEPT ![p] = l],
           pc[p] # "idle", l # "idle", pc[p] \in Locking <=> l \in Locking,
           pc[p] \in AtDisk => (l \in AtDisk \/ Done(mine[p])),
           l = "held" => buf[mine[p]].valid, l = "read" => ~buf[mine[p]].valid,
           UNCHANGED <<buf, lru, idequeue, disk, mine>>
    PROVE  CacheInv'
<1> USE DEF CacheInv
<1>1. TypeOK'
  BY DEF TypeOK
<1>2. BufInv'
  BY UsersKept, BufKept DEF BufInv, TypeOK
<1>3. ProcInv'
  <2> SUFFICES ASSUME NEW q \in Proc PROVE ProcOK(q)'
    BY DEF ProcInv
  <2>1. CASE q # p
    BY <2>1, ProcKept DEF ProcInv, TypeOK
  <2>2. CASE q = p
    <3>1. ProcOK(p)
      BY DEF ProcInv
    <3> QED BY <2>2, <3>1 DEF ProcOK, TypeOK
  <2> QED BY <2>1, <2>2
<1>4. OneInv' /\ ListInv'
  BY OneKept, ListKept
<1>5. QueueInv'
  <2> SUFFICES ASSUME NEW j \in Buf, Requested(j) PROVE Requested(j)'
    BY QueueKept
  <2>1. CASE buf[j].holder = p
    <3>1. mine[p] = j
      BY <2>1, BufFacts DEF BufInv, BufOK
    <3> QED BY <2>1, <3>1 DEF Requested, Done, TypeOK
  <2>2. CASE buf[j].holder # p
    BY <2>2 DEF Requested, Done, TypeOK, Buffer
  <2> QED BY <2>1, <2>2
<1> QED BY <1>1, <1>2, <1>3, <1>4, <1>5

LEMMA LockSleepKeeps ==
    ASSUME CacheInv, NEW p \in Proc, LockSleep(p)
    PROVE  CacheInv'
BY MoveOn DEF LockSleep, At, Goto, PcLabel, Locking, AtDisk

LEMMA IderwLoopKeeps ==
    ASSUME CacheInv, NEW p \in Proc, IderwLoop(p)
    PROVE  CacheInv'
<1>1. CASE Done(mine[p])
  BY <1>1, MoveOn DEF IderwLoop, At, Goto, PcLabel, Locking, AtDisk, Done
<1>2. CASE ~Done(mine[p])
  BY <1>2, MoveOn DEF IderwLoop, At, Goto, PcLabel, Locking, AtDisk
<1> QED BY <1>1, <1>2

LEMMA KillWakesKeeps ==
    ASSUME CacheInv, NEW p \in Proc, KillWakes(p)
    PROVE  CacheInv'
BY MoveOn DEF KillWakes, At, Goto, PcLabel, Locking, AtDisk

LEMMA BgetHitKeeps ==
    ASSUME CacheInv, NEW p \in Proc, NEW b \in Block, BgetHit(p, b)
    PROVE  CacheInv'
<1> USE DEF CacheInv
<1>1. PICK i \in Buf : /\ buf[i].block = b
                       /\ buf' = [buf EXCEPT ![i].refcnt = @ + 1]
                       /\ mine' = [mine EXCEPT ![p] = i]
  BY DEF BgetHit, Cached
<1>2. /\ pc[p] = "idle" /\ pc' = [pc EXCEPT ![p] = "lock"]
      /\ UNCHANGED <<lru, idequeue, disk>>
  BY DEF BgetHit, At, Goto
<1>3. mine[p] = NoBuf
  BY <1>2 DEF ProcInv, ProcOK
<1>4. /\ \A j \in Buf \ {i} : buf'[j] = buf[j]
      /\ buf'[i] = [buf[i] EXCEPT !.refcnt = buf[i].refcnt + 1]
      /\ buf[i] \in Buffer /\ buf[i].refcnt \in Nat
  BY <1>1 DEF TypeOK, Buffer
<1>5. /\ Users(i)' = Users(i) \cup {p} /\ p \notin Users(i)
      /\ \A j \in Buf \ {i} : Users(j)' = Users(j)
  BY <1>1, <1>3, BufFacts DEF Users, TypeOK
<1>6. /\ \A q \in Proc \ {p} : pc'[q] = pc[q] /\ mine'[q] = mine[q]
      /\ pc'[p] = "lock" /\ mine'[p] = i
  BY <1>1, <1>2 DEF TypeOK
<1>7. TypeOK'
  <2>1. [buf[i] EXCEPT !.refcnt = buf[i].refcnt + 1] \in Buffer
    BY <1>4 DEF Buffer
  <2>2. buf' \in [Buf -> Buffer]
    BY <1>1, <1>4, <2>1 DEF TypeOK
  <2>3. pc' \in [Proc -> PcLabel]
    BY <1>2 DEF TypeOK, PcLabel
  <2> QED BY <1>1, <1>2, <2>2, <2>3 DEF TypeOK
<1>8. BufInv'
  <2> SUFFICES ASSUME NEW j \in Buf PROVE BufOK(j)'
    BY DEF BufInv
  <2>1. BufOK(j)
    BY DEF BufInv
  <2>2. \A q \in Proc : mine[q] = j => mine'[q] = j /\ pc'[q] = pc[q]
    BY <1>3, <1>6, BufFacts
  <2>3. CASE j # i
    BY <1>2, <1>4, <1>5, <2>1, <2>2, <2>3, BufKept
  <2>4. CASE j = i
    <3>1. IsFiniteSet(Users(i)') /\ buf'[i].refcnt = Cardinality(Users(i)')
      BY <1>4, <1>5, <2>1, <2>4, FS_AddElement DEF BufOK, Buffer
    <3> QED BY <1>2, <1>4, <2>1, <2>2, <2>4, <3>1 DEF BufOK, Buffer
  <2> QED BY <2>3, <2>4
<1>9. ProcInv'
  <2> SUFFICES ASSUME NEW q \in Proc PROVE ProcOK(q)'
    BY DEF ProcInv
  <2>1. CASE q = p
    <3>1. buf'[i].block = b /\ i # NoBuf
      BY <1>1, <1>4, BufFacts DEF Buffer
    <3> QED BY <1>6, <2>1, <3>1 DEF ProcOK, Locking
  <2>2. CASE q # p
    <3>1. mine[q] # NoBuf => mine[q] \in Buf
      BY DEF TypeOK
    <3> QED BY <1>4, <1>6, <2>2, <3>1, ProcKept DEF ProcInv, Buffer
  <2> QED BY <2>1, <2>2
<1>10. OneInv' /\ ListInv'
  BY <1>2, <1>4, OneKept, ListKept DEF Buffer
<1>11. QueueInv'
  <2> SUFFICES ASSUME NEW j \in Buf, Requested(j) PROVE Requested(j)'
    BY <1>2, QueueKept
  <2>1. buf[j].holder # p
    BY <1>2 DEF Requested, AtDisk
  <2>2. buf[j].holder \in Proc
    BY DEF Requested, TypeOK, Buffer
  <2> QED BY <1>4, <1>6, <2>1, <2>2 DEF Requested, Done, Buffer
<1> QED BY <1>7, <1>8, <1>9, <1>10, <1>11

LEMMA BgetRecycleKeeps ==
    ASSUME CacheInv, NEW p \in Proc, NEW b \in Block, BgetRecycle(p, b)
    PROVE  CacheInv'
<1> USE DEF CacheInv
<1>1. PICK i \in Buf :
         /\ i \in Unused
         /\ buf' = [buf EXCEPT ![i] = [Fresh EXCEPT !.block = b, !.refcnt = 1,
                                           !.holder = buf[i].holder]]
         /\ mine' = [mine EXCEPT ![p] = i]
  BY DEF BgetRecycle, Victim, LastIn, TypeOK
<1>2. i \in Buf /\ buf[i].refcnt = 0 /\ ~buf[i].dirty /\ buf[i] \in Buffer
  BY <1>1 DEF Unused, TypeOK
<1>3. Users(i) = {}
  BY <1>2, FS_EmptySet DEF BufInv, BufOK
<1>4. buf[i].holder = NoProc
  BY <1>2, <1>3 DEF BufInv, BufOK, Buffer, Users
<1>5. /\ pc[p] = "idle" /\ pc' = [pc EXCEPT ![p] = "lock"] /\ Cached(b) = {}
      /\ UNCHANGED <<lru, idequeue, disk>>
  BY DEF BgetRecycle, At, Goto
<1>6. mine[p] = NoBuf
  BY <1>5 DEF ProcInv, ProcOK
<1>7. /\ \A j \in Buf \ {i} : buf'[j] = buf[j]
      /\ buf'[i] = [block |-> b, valid |-> FALSE, dirty |-> FALSE, refcnt |-> 1,
                    data |-> NoVal, holder |-> NoProc]
      /\ mine' = [mine EXCEPT ![p] = i]
  BY <1>1, <1>2, <1>4 DEF TypeOK, Fresh
<1>8. /\ \A q \in Proc \ {p} : pc'[q] = pc[q] /\ mine'[q] = mine[q]
      /\ pc'[p] = "lock" /\ mine'[p] = i
  BY <1>5, <1>7 DEF TypeOK
<1>9. Users(i)' = {p} /\ \A j \in Buf \ {i} : Users(j)' = Users(j)
  <2>1. \A q \in Proc : mine'[q] = i <=> q = p
    BY <1>3, <1>8 DEF Users
  <2>2. ASSUME NEW j \in Buf \ {i}, NEW q \in Proc PROVE mine'[q] = j <=> mine[q] = j
    BY <1>6, <1>8, BufFacts
  <2>3. Users(i)' = {p}
    BY <2>1 DEF Users
  <2>4. ASSUME NEW j \in Buf \ {i} PROVE Users(j)' = Users(j)
    BY <2>2 DEF Users
  <2> QED BY <2>3, <2>4
<1>10. TypeOK'
  <2>1. buf' \in [Buf -> Buffer]
    <3>1. buf' = [buf EXCEPT ![i] = buf'[i]]
      BY <1>1, <1>7 DEF TypeOK
    <3>2. buf'[i] \in Buffer
      BY <1>7 DEF Buffer
    <3> QED BY <1>2, <3>1, <3>2 DEF TypeOK
  <2> QED BY <1>2, <1>5, <1>7, <2>1 DEF TypeOK, PcLabel
<1>11. BufInv'
  <2> SUFFICES ASSUME NEW j \in Buf PROVE BufOK(j)'
    BY DEF BufInv
  <2>1. BufOK(j)
    BY DEF BufInv
  <2>2. \A q \in Proc : mine[q] = j => mine'[q] = j /\ pc'[q] = pc[q]
    BY <1>6, <1>8, BufFacts
  <2>3. CASE j # i
    BY <1>5, <1>7, <1>9, <2>1, <2>2, <2>3, BufKept
  <2>4. CASE j = i
    <3>1. Users(j)' = {p} /\ IsFiniteSet({p}) /\ Cardinality({p}) = 1
      <4>1. Users(j)' = {p}
        BY <1>9, <2>4 DEF Users
      <4> QED BY <4>1, FS_Singleton
    <3>2. /\ buf'[j].refcnt = 1 /\ buf'[j].holder = NoProc
          /\ ~buf'[j].dirty /\ ~buf'[j].valid
      BY <1>7, <2>4
    <3> QED BY <2>4, <3>1, <3>2 DEF BufOK
  <2> QED BY <2>3, <2>4
<1>12. ProcInv'
  <2> SUFFICES ASSUME NEW q \in Proc PROVE ProcOK(q)'
    BY DEF ProcInv
  <2>1. CASE q = p
    <3>1. buf'[i].block = b /\ i # NoBuf
      BY <1>2, <1>7, BufFacts
    <3> QED BY <1>8, <2>1, <3>1 DEF ProcOK, Locking
  <2>2. CASE q # p
    <3>1. mine[q] # i /\ (mine[q] # NoBuf => mine[q] \in Buf)
      BY <1>3 DEF TypeOK, Users
    <3> QED BY <1>7, <1>8, <2>2, <3>1, ProcKept DEF ProcInv
  <2> QED BY <2>1, <2>2
<1>13. OneInv'
  BY <1>5, <1>7 DEF OneInv, Cached
<1>14. ListInv'
  BY <1>5, ListKept
<1>15. QueueInv'
  <2> SUFFICES ASSUME NEW j \in Buf, Requested(j) PROVE Requested(j)'
    BY <1>5, QueueKept
  <2>1. buf[j].holder # p /\ j # i
    BY <1>4, <1>5 DEF Requested, AtDisk
  <2>2. buf[j].holder \in Proc
    BY DEF Requested, TypeOK, Buffer
  <2> QED BY <1>7, <1>8, <2>1, <2>2 DEF Requested, Done
<1> QED BY <1>10, <1>11, <1>12, <1>13, <1>14, <1>15

\* The holder of the lock does something to its buffer, whose block and count stay.
LEMMA HolderActs ==
    ASSUME CacheInv, NEW p \in Proc, NEW i \in Buf, NEW x \in Buffer,
           mine[p] = i, mine' = mine, lru' = lru,
           buf' = [buf EXCEPT ![i] = x],
           x.block = buf[i].block, x.refcnt = buf[i].refcnt, x.dirty => x.valid,
           x.valid => x.block \in Block /\ x.data \in Val,
           disk' \in [Block -> Val],
           \A b \in Block : b # x.block => disk'[b] = disk[b],
           x.valid /\ ~x.dirty => x.data = disk'[x.block],
           \A q \in Proc : \/ pc'[q] = pc[q]
                           \/ q = p /\ pc'[q] \in PcLabel \ {"idle"}
                           \/ q # p /\ mine[q] = i /\ pc[q] \in {"asleep on lock", "lock"}
                                    /\ pc'[q] = "lock",
           pc' \in [Proc -> PcLabel], pc[p] # "idle",
           buf[i].holder \in {p, NoProc},
           IF pc'[p] \in Locking THEN x.holder = p ELSE x.holder = NoProc,
           pc'[p] = "held" => x.valid, pc'[p] = "read" => ~x.valid,
           QueueInv', idequeue' \in Seq(Buf)
    PROVE  CacheInv'
<1> USE DEF CacheInv
<1>1. buf'[i] = x /\ \A j \in Buf \ {i} : buf'[j] = buf[j]
  BY DEF TypeOK
<1>2. TypeOK'
  BY DEF TypeOK
<1>3. \A q \in Proc \ {p} : pc[q] \in Locking => mine[q] # i
  <2> SUFFICES ASSUME NEW q \in Proc \ {p}, pc[q] \in Locking, mine[q] = i PROVE FALSE
    OBVIOUS
  <2>1. ProcOK(q)
    BY DEF ProcInv
  <2>2. buf[i].holder = q
    BY <2>1 DEF ProcOK
  <2> QED BY <2>2, BufFacts
<1>4. \A q \in Proc \ {p} : /\ pc[q] \in Locking <=> pc'[q] \in Locking
                            /\ pc[q] = "idle" <=> pc'[q] = "idle"
                            /\ pc[q] \in Locking => pc'[q] = pc[q]
  BY DEF Locking
<1>5. BufInv'
  <2> SUFFICES ASSUME NEW j \in Buf PROVE BufOK(j)'
    BY DEF BufInv
  <2>1. BufOK(j) /\ Users(j)' = Users(j)
    BY UsersKept DEF BufInv
  <2>2. CASE j # i
    <3>1. buf'[j] = buf[j]
      BY <1>1, <2>2
    <3>2. buf[j].block \in Block => disk'[buf[j].block] = disk[buf[j].block]
      BY <2>2, BufFacts, ZenonT(60) DEF OneInv
    <3>3. buf[j].holder # NoProc =>
            mine'[buf[j].holder] = j /\ pc'[buf[j].holder] \in Locking
      <4>1. buf[j].holder # NoProc => buf[j].holder \in Proc \ {p}
        BY <2>1, <2>2 DEF BufOK, TypeOK, Buffer
      <4> QED BY <1>4, <2>1, <4>1 DEF BufOK
    <3> QED BY <2>1, <3>1, <3>2, <3>3, ZenonT(60) DEF BufOK
  <2>3. CASE j = i
    <3>1. IsFiniteSet(Users(j)') /\ x.refcnt = Cardinality(Users(j)')
      BY <2>1, <2>3 DEF BufOK
    <3>2. x.holder # NoProc => mine'[x.holder] = i /\ pc'[x.holder] \in Locking
      OBVIOUS
    <3> QED BY <1>1, <2>3, <3>1, <3>2, ZenonT(60) DEF BufOK
  <2> QED BY <2>2, <2>3
<1>6. ProcInv'
  <2> SUFFICES ASSUME NEW q \in Proc PROVE ProcOK(q)'
    BY DEF ProcInv
  <2>1. ProcOK(q)
    BY DEF ProcInv
  <2>2. CASE q = p
    <3>1. mine'[q] = i /\ buf'[mine'[q]] = x /\ i # NoBuf
      BY <1>1, <2>2, BufFacts
    <3>2. x.block \in Block /\ pc'[q] # "idle"
      BY <2>1, <2>2, <3>1 DEF ProcOK
    <3> QED BY <2>2, <3>1, <3>2 DEF ProcOK
  <2>3. CASE q # p /\ mine[q] # i
    <3>1. mine[q] # NoBuf => mine[q] \in Buf /\ buf'[mine[q]] = buf[mine[q]]
      BY <1>1, <2>3 DEF TypeOK
    <3>2. pc'[q] = pc[q]
      BY <2>3
    <3> QED BY <2>1, <2>3, <3>1, <3>2, ProcKept
  <2>4. CASE q # p /\ mine[q] = i
    <3>1. buf'[mine'[q]].block = buf[mine[q]].block /\ mine'[q] = mine[q]
      BY <1>1, <2>4
    <3>2. ~(pc'[q] \in Locking) /\ (pc[q] = "idle" <=> pc'[q] = "idle")
      BY <1>3, <1>4, <2>4
    <3> QED BY <2>1, <3>1, <3>2 DEF ProcOK, Locking
  <2> QED BY <2>2, <2>3, <2>4
<1>7. OneInv' /\ ListInv'
  BY <1>1, OneKept, ListKept
<1> QED BY <1>2, <1>5, <1>6, <1>7

LEMMA Queued ==
    ASSUME TypeOK
    PROVE  Len(idequeue) \in Nat /\ \A k \in 1 .. Len(idequeue) : idequeue[k] \in Buf
BY DEF TypeOK

LEMMA OneMore ==
    ASSUME NEW n \in Nat, NEW k \in 1 .. (n + 1)
    PROVE  k \in 1 .. n \/ k = n + 1
OBVIOUS

LEMMA Appended ==
    ASSUME NEW s \in Seq(Buf), NEW i \in Buf
    PROVE  /\ Len(s) \in Nat /\ Append(s, i) \in Seq(Buf)
           /\ Len(Append(s, i)) = Len(s) + 1
           /\ \A k \in 1 .. Len(s) : Append(s, i)[k] = s[k]
           /\ Append(s, i)[Len(s) + 1] = i
OBVIOUS

\* The requests that a step leaves, when it does not touch the queue.
LEMMA QueueStays ==
    ASSUME TypeOK, QueueInv, NEW p \in Proc, idequeue' = idequeue,
           \A j \in Buf : buf[j].holder = p => ~Requested(j),
           \A j \in Buf : buf[j].holder # p /\ buf[j].holder # NoProc =>
             /\ buf'[j].holder = buf[j].holder /\ buf'[j].valid = buf[j].valid
             /\ buf'[j].dirty = buf[j].dirty,
           \A q \in Proc \ {p} : pc[q] \in AtDisk => pc'[q] = pc[q]
    PROVE  QueueInv'
<1> SUFFICES ASSUME NEW j \in Buf, Requested(j) PROVE Requested(j)'
  BY QueueKept
<1>1. buf[j].holder \in Proc \ {p}
  BY DEF Requested, TypeOK, Buffer
<1> QED BY <1>1 DEF Requested, Done

\* A new request, of the holder of a lock who was not waiting for the disk.
LEMMA QueueGrows ==
    ASSUME TypeOK, QueueInv, NEW p \in Proc, NEW i \in Buf, ProcOK(p), mine[p] = i,
           pc[p] \in {"held", "read"}, idequeue' = Append(idequeue, i),
           pc' = [pc EXCEPT ![p] = "asleep on disk"],
           \A j \in Buf \ {i} : buf'[j] = buf[j],
           buf'[i].holder = p, ~(buf'[i].valid /\ ~buf'[i].dirty)
    PROVE  QueueInv'
<1>1. \A k \in 1 .. Len(idequeue) : idequeue[k] \in Buf
  BY Queued
<1>2. Requested(i)'
  BY BufferAssumption DEF Requested, Done, AtDisk, TypeOK
<1>3. buf[i].holder = p
  BY DEF ProcOK, Locking
<1>4. ~Requested(i)
  BY <1>3 DEF Requested, AtDisk
<1>5. ASSUME NEW j \in Buf, Requested(j) PROVE Requested(j)' /\ j # i
  <2>1. j # i /\ buf'[j] = buf[j]
    BY <1>4, <1>5
  <2>2. buf[j].holder \in Proc
    BY <1>5 DEF Requested, TypeOK, Buffer
  <2>3. buf[j].holder # p
    BY <1>5 DEF Requested, AtDisk
  <2>4. pc'[buf[j].holder] = pc[buf[j].holder]
    BY <2>2, <2>3 DEF TypeOK
  <2> QED BY <1>5, <2>1, <2>4 DEF Requested, Done
<1>6. /\ Len(idequeue) \in Nat /\ Len(idequeue') = Len(idequeue) + 1
      /\ \A k \in 1 .. Len(idequeue) : idequeue'[k] = idequeue[k]
      /\ idequeue'[Len(idequeue) + 1] = i
  BY Appended DEF TypeOK
<1>7. ASSUME NEW k \in 1 .. Len(idequeue')
      PROVE  k \in 1 .. Len(idequeue) \/ k = Len(idequeue) + 1
  <2>1. Len(idequeue) \in Nat /\ k \in 1 .. (Len(idequeue) + 1)
    BY <1>6
  <2> QED BY <2>1, OneMore
<1>8. ASSUME NEW k \in 1 .. Len(idequeue') PROVE Requested(idequeue[k])'
  <2>1. CASE k \in 1 .. Len(idequeue)
    <3>1. PICK j \in Buf : j = idequeue[k] /\ idequeue'[k] = j
      BY <1>1, <1>6, <2>1
    <3>2. Requested(j)
      BY <2>1, <3>1 DEF QueueInv
    <3>3. Requested(j)'
      BY <1>5, <3>2
    <3> QED BY <3>1, <3>3 DEF Requested, Done
  <2>2. CASE k = Len(idequeue) + 1
    BY <1>2, <1>6, <2>2 DEF Requested, Done
  <2> QED BY <1>7, <2>1, <2>2
<1>9. ASSUME NEW j \in 1 .. Len(idequeue'), NEW k \in 1 .. Len(idequeue'),
             idequeue'[j] = idequeue'[k]
      PROVE  j = k
  <2>1. \A m \in 1 .. Len(idequeue) : idequeue'[m] # i
    BY <1>1, <1>4, <1>6 DEF QueueInv
  <2>2. CASE j \in 1 .. Len(idequeue) /\ k \in 1 .. Len(idequeue)
    <3>1. idequeue[j] = idequeue[k]
      BY <1>6, <1>9, <2>2
    <3> QED BY <2>2, <3>1 DEF QueueInv
  <2>3. (j = Len(idequeue) + 1 \/ j \in 1 .. Len(idequeue))
        /\ (k = Len(idequeue) + 1 \/ k \in 1 .. Len(idequeue))
    BY <1>7
  <2>4. idequeue'[Len(idequeue) + 1] = i
    BY <1>6
  <2>5. CASE j = Len(idequeue) + 1
    BY <1>9, <2>1, <2>3, <2>4, <2>5
  <2>6. CASE k = Len(idequeue) + 1
    BY <1>9, <2>1, <2>3, <2>4, <2>6
  <2> QED BY <2>2, <2>3, <2>5, <2>6
<1> QED BY <1>8, <1>9 DEF QueueInv

LEMMA AcquireSleepKeeps ==
    ASSUME CacheInv, NEW p \in Proc, AcquireSleep(p)
    PROVE  CacheInv'
<1> USE DEF CacheInv
<1> DEFINE x == [buf[mine[p]] EXCEPT !.holder = p]
           l == IF buf[mine[p]].valid THEN "held" ELSE "read"
<1>1. /\ pc[p] = "lock" /\ buf[mine[p]].holder = NoProc
      /\ buf' = [buf EXCEPT ![mine[p]].holder = p] /\ pc' = [pc EXCEPT ![p] = l]
      /\ UNCHANGED <<lru, idequeue, disk, mine>>
  BY DEF AcquireSleep, At, Goto
<1>2. PICK i \in Buf : i = mine[p] /\ buf[i] \in Buffer
  BY <1>1, Mine DEF ProcInv
<1>3. /\ x \in Buffer /\ x.block = buf[i].block /\ x.refcnt = buf[i].refcnt
      /\ x.valid = buf[i].valid /\ x.dirty = buf[i].dirty /\ x.data = buf[i].data
      /\ x.holder = p
  BY <1>2 DEF Buffer
<1>4. buf' = [buf EXCEPT ![i] = x]
  BY <1>1, <1>2 DEF TypeOK
<1>5. BufOK(i)
  BY DEF BufInv
<1>6. /\ l \in {"held", "read"} /\ l \in PcLabel
      /\ l = "held" => buf[i].valid
      /\ l = "read" => ~buf[i].valid
  BY <1>2 DEF PcLabel, Buffer
<1> HIDE DEF x, l
<1>7. pc' \in [Proc -> PcLabel] /\ pc'[p] = l /\ \A q \in Proc \ {p} : pc'[q] = pc[q]
  BY <1>1, <1>6 DEF TypeOK
<1>8. QueueInv'
  <2>1. \A j \in Buf : buf[j].holder = p => ~Requested(j)
    BY <1>1 DEF Requested, AtDisk
  <2>2. \A j \in Buf \ {i} : buf'[j] = buf[j]
    BY <1>4 DEF TypeOK
  <2> QED BY <1>1, <1>2, <1>7, <2>1, <2>2, QueueStays
<1>9. pc[p] # "idle" /\ pc'[p] \in PcLabel \ {"idle"} /\ pc'[p] \in Locking
  BY <1>1, <1>6, <1>7 DEF Locking
<1>10. x.valid /\ ~x.dirty => x.data = disk'[x.block]
  BY <1>1, <1>3, <1>5 DEF BufOK
<1>11. x.valid => x.block \in Block /\ x.data \in Val
  BY <1>3, <1>5 DEF BufOK
<1>12. x.dirty => x.valid
  BY <1>3, <1>5 DEF BufOK
<1>13. (pc'[p] = "held" => x.valid) /\ (pc'[p] = "read" => ~x.valid)
  BY <1>3, <1>6, <1>7
<1>14. IF pc'[p] \in Locking THEN x.holder = p ELSE x.holder = NoProc
  BY <1>3, <1>9
<1>15. \A q \in Proc : \/ pc'[q] = pc[q]
                       \/ q = p /\ pc'[q] \in PcLabel \ {"idle"}
                       \/ q # p /\ mine[q] = i /\ pc[q] \in {"asleep on lock", "lock"}
                                /\ pc'[q] = "lock"
  BY <1>7, <1>9
<1>16. /\ mine[p] = i /\ mine' = mine /\ lru' = lru /\ buf[i].holder \in {p, NoProc}
       /\ \A b \in Block : b # x.block => disk'[b] = disk[b]
       /\ disk' \in [Block -> Val] /\ idequeue' \in Seq(Buf)
  BY <1>1, <1>2 DEF TypeOK
<1> QED
  BY <1>2, <1>3, <1>4, <1>7, <1>8, <1>9, <1>10, <1>11, <1>12, <1>13, <1>14, <1>15, <1>16,
     HolderActs, ZenonT(60)

LEMMA ReleaseSleepKeeps ==
    ASSUME CacheInv, NEW p \in Proc, ReleaseSleep(p)
    PROVE  CacheInv'
<1> USE DEF CacheInv
<1> DEFINE x == [buf[mine[p]] EXCEPT !.holder = NoProc]
<1>1. /\ pc[p] = "held" /\ buf' = [buf EXCEPT ![mine[p]].holder = NoProc]
      /\ pc' = [Woken(pc, mine[p], "asleep on lock", "lock") EXCEPT ![p] = "release"]
      /\ UNCHANGED <<lru, idequeue, disk, mine>>
  BY DEF ReleaseSleep, At
<1>2. PICK i \in Buf : i = mine[p] /\ buf[i] \in Buffer
  BY <1>1, Mine DEF ProcInv
<1>3. /\ x \in Buffer /\ x.block = buf[i].block /\ x.refcnt = buf[i].refcnt
      /\ x.valid = buf[i].valid /\ x.dirty = buf[i].dirty /\ x.data = buf[i].data
      /\ x.holder = NoProc
  BY <1>2 DEF Buffer
<1>4. buf' = [buf EXCEPT ![i] = x]
  BY <1>1, <1>2 DEF TypeOK
<1>5. BufOK(i)
  BY DEF BufInv
<1> HIDE DEF x
<1>6. pc' \in [Proc -> PcLabel] /\ pc'[p] = "release"
  BY <1>1 DEF TypeOK, Woken, PcLabel
<1>7. \A q \in Proc \ {p} : \/ pc'[q] = pc[q]
                            \/ mine[q] = i /\ pc[q] = "asleep on lock" /\ pc'[q] = "lock"
  BY <1>1, <1>2 DEF TypeOK, Woken
<1>8. QueueInv'
  <2>1. \A j \in Buf : buf[j].holder = p => ~Requested(j)
    BY <1>1 DEF Requested, AtDisk
  <2>2. \A j \in Buf \ {i} : buf'[j] = buf[j]
    BY <1>4 DEF TypeOK
  <2>3. buf[i].holder = p
    BY <1>1, <1>2 DEF ProcInv, ProcOK, Locking
  <2>4. \A q \in Proc \ {p} : pc[q] \in AtDisk => pc'[q] = pc[q]
    BY <1>7 DEF AtDisk
  <2> QED BY <1>1, <2>1, <2>2, <2>3, <2>4, QueueStays, ZenonT(60)
<1>9. /\ pc[p] # "idle" /\ pc'[p] \in PcLabel \ {"idle"} /\ pc'[p] \notin Locking
      /\ pc'[p] # "held" /\ pc'[p] # "read"
  BY <1>1, <1>6 DEF Locking, PcLabel
<1>10. x.valid /\ ~x.dirty => x.data = disk'[x.block]
  BY <1>1, <1>3, <1>5 DEF BufOK
<1>11. (x.valid => x.block \in Block /\ x.data \in Val) /\ (x.dirty => x.valid)
  BY <1>3, <1>5 DEF BufOK
<1>12. buf[i].holder \in {p, NoProc}
  BY <1>1, <1>2 DEF ProcInv, ProcOK, Locking
<1>13. IF pc'[p] \in Locking THEN x.holder = p ELSE x.holder = NoProc
  BY <1>3, <1>9
<1>14. \A q \in Proc : \/ pc'[q] = pc[q]
                       \/ q = p /\ pc'[q] \in PcLabel \ {"idle"}
                       \/ q # p /\ mine[q] = i /\ pc[q] \in {"asleep on lock", "lock"}
                                /\ pc'[q] = "lock"
  BY <1>7, <1>9
<1>15. /\ mine[p] = i /\ mine' = mine /\ lru' = lru
       /\ \A b \in Block : b # x.block => disk'[b] = disk[b]
       /\ disk' \in [Block -> Val] /\ idequeue' \in Seq(Buf)
  BY <1>1, <1>2 DEF TypeOK
<1> QED
  BY <1>2, <1>3, <1>4, <1>6, <1>8, <1>9, <1>10, <1>11, <1>12, <1>13, <1>14, <1>15,
     HolderActs, ZenonT(60)

LEMMA ReadBlockKeeps ==
    ASSUME CacheInv, NEW p \in Proc, ReadBlock(p)
    PROVE  CacheInv'
<1> USE DEF CacheInv
<1>1. /\ pc[p] = "read" /\ idequeue' = Append(idequeue, mine[p])
      /\ pc' = [pc EXCEPT ![p] = "asleep on disk"]
      /\ UNCHANGED <<buf, lru, disk, mine>>
  BY DEF ReadBlock, At, Goto, Iderw
<1>2. PICK i \in Buf : i = mine[p] /\ buf[i] \in Buffer
  BY <1>1, Mine DEF ProcInv
<1>3. buf[i].holder = p /\ ~buf[i].valid /\ BufOK(i) /\ ProcOK(p)
  BY <1>1, <1>2 DEF ProcInv, ProcOK, BufInv, Locking
<1>4. buf' = [buf EXCEPT ![i] = buf[i]]
  BY <1>1 DEF TypeOK
<1>5. QueueInv'
  BY <1>1, <1>2, <1>3, QueueGrows
<1>6. /\ pc' \in [Proc -> PcLabel] /\ pc'[p] = "asleep on disk"
      /\ \A q \in Proc \ {p} : pc'[q] = pc[q]
  BY <1>1 DEF TypeOK, PcLabel
<1>7. idequeue' \in Seq(Buf)
  BY <1>1, <1>2, Appended DEF TypeOK
<1>8. pc[p] # "idle" /\ pc'[p] \in PcLabel \ {"idle"} /\ pc'[p] \in Locking
  BY <1>1, <1>6 DEF PcLabel, Locking
<1>9. (buf[i].dirty => buf[i].valid) /\ disk' \in [Block -> Val]
  BY <1>1, <1>3 DEF BufOK, TypeOK
<1>10. IF pc'[p] \in Locking THEN buf[i].holder = p ELSE buf[i].holder = NoProc
  BY <1>3, <1>8
<1>11. \A q \in Proc : \/ pc'[q] = pc[q]
                       \/ q = p /\ pc'[q] \in PcLabel \ {"idle"}
                       \/ q # p /\ mine[q] = i /\ pc[q] \in {"asleep on lock", "lock"}
                                /\ pc'[q] = "lock"
  BY <1>6, <1>8
<1>12. /\ mine[p] = i /\ mine' = mine /\ lru' = lru /\ buf[i].holder \in {p, NoProc}
       /\ \A b \in Block : b # buf[i].block => disk'[b] = disk[b]
       /\ pc'[p] # "held" /\ ~buf[i].valid
  BY <1>1, <1>2, <1>3, <1>6
<1> QED
  BY <1>2, <1>4, <1>5, <1>6, <1>7, <1>8, <1>9, <1>10, <1>11, <1>12, HolderActs

LEMMA LogWriteKeeps ==
    ASSUME CacheInv, NEW p \in Proc, NEW v \in Val, LogWrite(p, v)
    PROVE  CacheInv'
<1> USE DEF CacheInv
<1> DEFINE x == [buf[mine[p]] EXCEPT !.data = v, !.dirty = TRUE]
<1>1. /\ pc[p] = "held" /\ buf[mine[p]].block \in Written /\ buf' = [buf EXCEPT ![mine[p]] = x]
      /\ UNCHANGED <<lru, idequeue, disk, pc, mine>>
  BY DEF LogWrite, At
<1>2. PICK i \in Buf : i = mine[p] /\ buf[i] \in Buffer
  BY <1>1, Mine DEF ProcInv
<1>3. buf[i].holder = p /\ buf[i].valid /\ BufOK(i) /\ buf[i].block \in Block
  BY <1>1, <1>2, BufferAssumption DEF ProcInv, ProcOK, BufInv, Locking
<1>4. /\ x \in Buffer /\ x.block = buf[i].block /\ x.refcnt = buf[i].refcnt
      /\ x.valid = buf[i].valid /\ x.dirty /\ x.data = v /\ x.holder = buf[i].holder
  BY <1>2 DEF Buffer
<1> HIDE DEF x
<1>5. QueueInv'
  <2>1. \A j \in Buf : buf[j].holder = p => ~Requested(j)
    BY <1>1 DEF Requested, AtDisk
  <2>2. \A j \in Buf \ {i} : buf'[j] = buf[j]
    BY <1>1, <1>2 DEF TypeOK
  <2> QED BY <1>1, <1>3, <2>1, <2>2, QueueStays
<1>6. pc[p] # "idle" /\ pc'[p] \in PcLabel \ {"idle"} /\ pc'[p] \in Locking /\ pc'[p] # "read"
  BY <1>1 DEF Locking, PcLabel
<1> QED BY <1>1, <1>2, <1>3, <1>4, <1>5, <1>6, HolderActs DEF TypeOK

LEMMA BwriteKeeps ==
    ASSUME CacheInv, NEW p \in Proc, NEW v \in Val, Bwrite(p, v)
    PROVE  CacheInv'
<1> USE DEF CacheInv
<1> DEFINE x == [buf[mine[p]] EXCEPT !.data = v, !.dirty = TRUE]
<1>1. /\ pc[p] = "held" /\ buf[mine[p]].block \in Written /\ buf' = [buf EXCEPT ![mine[p]] = x]
      /\ idequeue' = Append(idequeue, mine[p]) /\ pc' = [pc EXCEPT ![p] = "asleep on disk"]
      /\ UNCHANGED <<lru, disk, mine>>
  BY DEF Bwrite, At, Goto, Iderw
<1>2. PICK i \in Buf : i = mine[p] /\ buf[i] \in Buffer
  BY <1>1, Mine DEF ProcInv
<1>3. buf[i].holder = p /\ buf[i].valid /\ BufOK(i) /\ ProcOK(p) /\ buf[i].block \in Block
  BY <1>1, <1>2, BufferAssumption DEF ProcInv, ProcOK, BufInv, Locking
<1>4. /\ x \in Buffer /\ x.block = buf[i].block /\ x.refcnt = buf[i].refcnt
      /\ x.valid = buf[i].valid /\ x.dirty /\ x.data = v /\ x.holder = buf[i].holder
  BY <1>2 DEF Buffer
<1> HIDE DEF x
<1>5. buf'[i] = x /\ \A j \in Buf \ {i} : buf'[j] = buf[j]
  BY <1>1, <1>2 DEF TypeOK
<1>6. QueueInv'
  BY <1>1, <1>2, <1>3, <1>4, <1>5, QueueGrows, ZenonT(60)
<1>7. /\ pc' \in [Proc -> PcLabel] /\ pc'[p] = "asleep on disk"
      /\ \A q \in Proc \ {p} : pc'[q] = pc[q]
  BY <1>1 DEF TypeOK, PcLabel
<1>8. idequeue' \in Seq(Buf)
  BY <1>1, <1>2, Appended DEF TypeOK
<1>9. pc[p] # "idle" /\ pc'[p] \in PcLabel \ {"idle"} /\ pc'[p] \in Locking
  BY <1>1, <1>7 DEF PcLabel, Locking
<1> QED
  BY <1>1, <1>2, <1>3, <1>4, <1>6, <1>7, <1>8, <1>9, HolderActs, ZenonT(60) DEF TypeOK

\* The list stays one of all buffers when one of them is moved to its front.
LEMMA PromotedList ==
    ASSUME TypeOK, ListInv, NEW i \in Buf
    PROVE  Promoted(i) \in [Buf -> Buf] /\ \A j \in Buf : \E n \in Buf : Promoted(i)[n] = j
<1> DEFINE k == CHOOSE n \in Buf : lru[n] = i
<1>1. k \in Buf /\ lru[k] = i
  BY DEF ListInv
<1>2. Promoted(i) = [n \in Buf |-> IF n = 1 THEN i ELSE IF n <= k THEN lru[n - 1] ELSE lru[n]]
  BY DEF Promoted
<1> HIDE DEF k
<1>3. /\ 1 \in Buf
      /\ \A n \in Buf : n # 1 => n - 1 \in Buf
      /\ \A n \in Buf : n < k => n + 1 \in Buf /\ n + 1 # 1 /\ n + 1 <= k /\ (n + 1) - 1 = n
      /\ \A n \in Buf : n > k => n # 1 /\ ~(n <= k)
      /\ \A n \in Buf : n < k \/ n = k \/ n > k
  BY <1>1, BufferAssumption DEF Buf
<1>4. \A n \in Buf : lru[n] \in Buf
  BY DEF TypeOK
<1>5. Promoted(i) \in [Buf -> Buf]
  BY <1>2, <1>3, <1>4
<1>6. ASSUME NEW j \in Buf PROVE \E n \in Buf : Promoted(i)[n] = j
  <2>1. PICK n \in Buf : lru[n] = j
    BY DEF ListInv
  <2>2. CASE n < k
    BY <1>2, <1>3, <2>1, <2>2
  <2>3. CASE n = k
    BY <1>1, <1>2, <1>3, <2>1, <2>3
  <2>4. CASE n > k
    BY <1>2, <1>3, <2>1, <2>4
  <2> QED BY <1>3, <2>2, <2>3, <2>4
<1> QED BY <1>5, <1>6

LEMMA BrelseKeeps ==
    ASSUME CacheInv, NEW p \in Proc, Brelse(p)
    PROVE  CacheInv'
<1> USE DEF CacheInv
<1>1. /\ pc[p] = "release" /\ pc' = [pc EXCEPT ![p] = "idle"]
      /\ buf' = [buf EXCEPT ![mine[p]].refcnt = @ - 1]
      /\ mine' = [mine EXCEPT ![p] = NoBuf]
      /\ lru' = IF buf[mine[p]].refcnt = 1 THEN Promoted(mine[p]) ELSE lru
      /\ UNCHANGED <<idequeue, disk>>
  BY DEF Brelse, At, Goto
<1>2. PICK i \in Buf : i = mine[p] /\ p \in Users(i) /\ buf[i] \in Buffer
  BY <1>1, Mine DEF ProcInv
<1>3. /\ \A j \in Buf \ {i} : buf'[j] = buf[j]
      /\ buf'[i] = [buf[i] EXCEPT !.refcnt = buf[i].refcnt - 1]
      /\ buf' = [buf EXCEPT ![i] = buf'[i]]
      /\ buf[i].refcnt \in Nat
  BY <1>1, <1>2 DEF TypeOK, Buffer
<1>4. /\ buf'[i].block = buf[i].block /\ buf'[i].valid = buf[i].valid
      /\ buf'[i].dirty = buf[i].dirty /\ buf'[i].data = buf[i].data
      /\ buf'[i].holder = buf[i].holder /\ buf'[i].refcnt = buf[i].refcnt - 1
  BY <1>2, <1>3 DEF Buffer
<1>5. /\ \A q \in Proc \ {p} : pc'[q] = pc[q] /\ mine'[q] = mine[q]
      /\ pc'[p] = "idle" /\ mine'[p] = NoBuf
  BY <1>1 DEF TypeOK
<1>6. Users(i)' = Users(i) \ {p} /\ \A j \in Buf \ {i} : Users(j)' = Users(j)
  <2>1. \A q \in Proc : mine'[q] = i <=> q # p /\ mine[q] = i
    BY <1>2, <1>5, BufFacts
  <2>2. ASSUME NEW j \in Buf \ {i}, NEW q \in Proc PROVE mine'[q] = j <=> mine[q] = j
    BY <1>2, <1>5, BufFacts
  <2>3. Users(i)' = Users(i) \ {p}
    BY <2>1 DEF Users
  <2>4. ASSUME NEW j \in Buf \ {i} PROVE Users(j)' = Users(j)
    BY <2>2 DEF Users
  <2> QED BY <2>3, <2>4
<1>7. \A j \in Buf : buf[j].holder # p
  <2> SUFFICES ASSUME NEW j \in Buf, buf[j].holder = p PROVE FALSE
    OBVIOUS
  <2>1. BufOK(j)
    BY DEF BufInv
  <2>2. pc[p] \in Locking
    BY <2>1, BufFacts DEF BufOK
  <2> QED BY <1>1, <2>2 DEF Locking
<1>8. /\ IsFiniteSet(Users(i) \ {p}) /\ buf[i].refcnt - 1 = Cardinality(Users(i) \ {p})
      /\ buf[i].refcnt - 1 \in Nat
  <2>1. IsFiniteSet(Users(i)) /\ buf[i].refcnt = Cardinality(Users(i))
    BY DEF BufInv, BufOK
  <2>2. IsFiniteSet(Users(i) \ {p}) /\ Cardinality(Users(i) \ {p}) = Cardinality(Users(i)) - 1
    BY <1>2, <2>1, FS_RemoveElement
  <2> QED BY <2>1, <2>2, FS_CardinalityType
<1>9. lru' \in [Buf -> Buf] /\ ListInv'
  <2>1. CASE lru' = lru
    BY <2>1, ListKept DEF TypeOK
  <2>2. CASE lru' = Promoted(i)
    BY <2>2, PromotedList DEF ListInv
  <2> QED BY <1>1, <1>2, <2>1, <2>2
<1>10. TypeOK'
  <2>1. buf'[i] \in Buffer
    BY <1>2, <1>3, <1>8 DEF Buffer
  <2>2. buf' \in [Buf -> Buffer]
    BY <1>3, <2>1 DEF TypeOK
  <2> QED BY <1>1, <1>9, <2>2 DEF TypeOK, PcLabel
<1>11. BufInv'
  <2> SUFFICES ASSUME NEW j \in Buf PROVE BufOK(j)'
    BY DEF BufInv
  <2>1. BufOK(j)
    BY DEF BufInv
  <2>2. CASE j # i
    <3>1. \A q \in Proc : mine[q] = j => mine'[q] = j /\ pc'[q] = pc[q]
      BY <1>2, <1>5, <2>2
    <3> QED BY <1>1, <1>3, <1>6, <2>1, <2>2, <3>1, BufKept
  <2>3. CASE j = i
    <3>1. Users(j)' = Users(i) \ {p}
      BY <1>6, <2>3 DEF Users
    <3>2. IsFiniteSet(Users(j)') /\ buf'[j].refcnt = Cardinality(Users(j)')
      BY <1>4, <1>8, <2>3, <3>1
    <3>3. buf[j].holder # NoProc => buf[j].holder \in Proc \ {p}
      BY <1>7, <2>3 DEF TypeOK, Buffer
    <3>4. buf[j].holder # NoProc => mine'[buf[j].holder] = j /\ pc'[buf[j].holder] \in Locking
      BY <1>5, <2>1, <3>3 DEF BufOK
    <3> QED BY <1>1, <1>4, <2>1, <2>3, <3>2, <3>4 DEF BufOK
  <2> QED BY <2>2, <2>3
<1>12. ProcInv'
  <2> SUFFICES ASSUME NEW q \in Proc PROVE ProcOK(q)'
    BY DEF ProcInv
  <2>1. CASE q = p
    BY <1>5, <2>1 DEF ProcOK, Locking
  <2>2. CASE q # p
    <3>1. mine[q] # NoBuf => mine[q] \in Buf
      BY DEF TypeOK
    <3> QED BY <1>3, <1>4, <1>5, <2>2, <3>1, ProcKept DEF ProcInv
  <2> QED BY <2>1, <2>2
<1>13. OneInv'
  BY <1>3, <1>4, OneKept
<1>14. QueueInv'
  <2>1. \A j \in Buf : buf[j].holder = p => ~Requested(j)
    BY <1>7
  <2>2. \A j \in Buf : /\ buf'[j].holder = buf[j].holder /\ buf'[j].valid = buf[j].valid
                       /\ buf'[j].dirty = buf[j].dirty
    BY <1>3, <1>4
  <2> QED BY <1>1, <1>5, <2>1, <2>2, QueueStays
<1> QED BY <1>9, <1>10, <1>11, <1>12, <1>13, <1>14

LEMMA Shorter ==
    ASSUME NEW s \in Seq(Buf), s # <<>>
    PROVE  /\ Head(s) \in Buf /\ Head(s) = s[1] /\ 1 \in 1 .. Len(s)
           /\ Tail(s) \in Seq(Buf)
           /\ \A k \in 1 .. Len(Tail(s)) : /\ k + 1 \in 1 .. Len(s) /\ k + 1 # 1
                                           /\ Tail(s)[k] = s[k + 1]
           /\ \A j, k \in 1 .. Len(Tail(s)) : j + 1 = k + 1 => j = k
<1>1. Len(s) \in Nat /\ Len(s) # 0 /\ Len(Tail(s)) = Len(s) - 1
  OBVIOUS
<1>2. \A k \in 1 .. (Len(s) - 1) : k + 1 \in 1 .. Len(s) /\ k + 1 # 1
  BY <1>1
<1>3. \A k \in 1 .. Len(Tail(s)) : Tail(s)[k] = s[k + 1]
  OBVIOUS
<1> QED BY <1>1, <1>2, <1>3

LEMMA IdeintrKeeps ==
    ASSUME CacheInv, Ideintr
    PROVE  CacheInv'
<1> USE DEF CacheInv
<1>1. PICK i \in Buf : i = Head(idequeue) /\ i = idequeue[1]
  BY Shorter DEF Ideintr, TypeOK
<1> DEFINE x == [buf[i] EXCEPT !.valid = TRUE, !.dirty = FALSE,
                               !.data = IF buf[i].dirty THEN buf[i].data
                                                        ELSE disk[buf[i].block]]
<1>2. /\ idequeue # <<>> /\ idequeue' = Tail(idequeue)
      /\ disk' = IF buf[i].dirty THEN [disk EXCEPT ![buf[i].block] = buf[i].data] ELSE disk
      /\ buf' = [buf EXCEPT ![i] = x]
      /\ pc' = Woken(pc, i, "asleep on disk", "woken")
      /\ lru' = lru /\ mine' = mine
  <2>1. /\ idequeue # <<>> /\ idequeue' = Tail(idequeue)
        /\ disk' = IF buf[i].dirty THEN [disk EXCEPT ![buf[i].block] = buf[i].data] ELSE disk
        /\ pc' = Woken(pc, i, "asleep on disk", "woken")
        /\ lru' = lru /\ mine' = mine
    BY <1>1 DEF Ideintr
  <2>2. buf' = [buf EXCEPT ![i] = x]
    BY <1>1 DEF Ideintr
  <2> QED BY <2>1, <2>2
<1>3. Requested(i)
  <2>1. Requested(idequeue[1])
    BY <1>2, Shorter DEF QueueInv, TypeOK
  <2> QED BY <1>1, <2>1
<1>4. PICK p \in Proc : p = buf[i].holder
  BY <1>3 DEF Requested, TypeOK, Buffer
<1>5. BufOK(i) /\ ProcOK(p) /\ buf[i] \in Buffer
  BY DEF BufInv, ProcInv, TypeOK
<1>6. mine[p] = i /\ pc[p] \in AtDisk /\ buf[i].block \in Block
  BY <1>3, <1>4, <1>5, BufFacts DEF BufOK, ProcOK, Requested
<1>7. /\ x.block = buf[i].block /\ x.refcnt = buf[i].refcnt /\ x.valid /\ ~x.dirty
      /\ x.holder = p
      /\ buf[i].dirty => x.data = buf[i].data
      /\ ~buf[i].dirty => x.data = disk[buf[i].block]
  BY <1>4, <1>5 DEF Buffer
<1>8. x.data \in Val
  BY <1>5, <1>6, <1>7 DEF BufOK, TypeOK
<1>9. x \in Buffer
  BY <1>5, <1>8 DEF Buffer
<1> HIDE DEF x
<1>10. /\ disk' \in [Block -> Val] /\ x.data = disk'[x.block]
       /\ \A b \in Block : b # x.block => disk'[b] = disk[b]
  BY <1>2, <1>6, <1>7, <1>8 DEF TypeOK
<1>11. pc' \in [Proc -> PcLabel] /\ pc'[p] = "woken" /\ \A q \in Proc \ {p} : pc'[q] = pc[q]
  <2>1. pc'[p] = "woken"
    BY <1>2, <1>6 DEF Woken, AtDisk
  <2>2. ASSUME NEW q \in Proc \ {p} PROVE pc'[q] = pc[q]
    <3>1. ~(pc[q] = "asleep on disk" /\ mine[q] = i)
      BY <1>4 DEF ProcInv, ProcOK, Locking, TypeOK
    <3> QED BY <1>2, <3>1 DEF Woken
  <2>3. pc' \in [Proc -> PcLabel]
    BY <1>2 DEF Woken, TypeOK, PcLabel
  <2> QED BY <2>1, <2>2, <2>3
<1>12. QueueInv' /\ idequeue' \in Seq(Buf)
  <2>1. /\ idequeue' \in Seq(Buf)
        /\ \A k \in 1 .. Len(idequeue') : /\ k + 1 \in 1 .. Len(idequeue) /\ k + 1 # 1
                                          /\ idequeue'[k] = idequeue[k + 1]
        /\ \A j, k \in 1 .. Len(idequeue') : j + 1 = k + 1 => j = k
        /\ 1 \in 1 .. Len(idequeue)
    BY <1>2, Shorter DEF TypeOK
  <2>2. ASSUME NEW j \in Buf, j # i, Requested(j) PROVE Requested(j)'
    <3>1. buf[j].holder \in Proc
      BY <2>2 DEF Requested, TypeOK, Buffer
    <3>2. buf[j].holder # p
      BY <1>6, <2>2, <3>1, BufFacts DEF BufInv, BufOK
    <3>3. buf'[j] = buf[j]
      BY <1>2, <2>2 DEF TypeOK
    <3> QED BY <1>11, <2>2, <3>1, <3>2, <3>3 DEF Requested, Done
  <2>3. ASSUME NEW k \in 1 .. Len(idequeue') PROVE Requested(idequeue[k])'
    <3>1. PICK j \in Buf : j = idequeue'[k] /\ j = idequeue[k + 1]
      BY <2>1, Queued
    <3>2. Requested(j) /\ j # i
      BY <1>1, <2>1, <3>1 DEF QueueInv
    <3>3. Requested(j)'
      BY <2>2, <3>2
    <3> QED BY <3>1, <3>3 DEF Requested, Done
  <2>4. ASSUME NEW j \in 1 .. Len(idequeue'), NEW k \in 1 .. Len(idequeue'),
               idequeue'[j] = idequeue'[k]
        PROVE  j = k
    BY <2>1, <2>4 DEF QueueInv
  <2> QED BY <2>1, <2>3, <2>4 DEF QueueInv
<1>13. /\ pc[p] # "idle" /\ pc'[p] \in PcLabel \ {"idle"} /\ pc'[p] \in Locking
       /\ pc'[p] # "read" /\ pc'[p] # "held"
  BY <1>6, <1>11 DEF PcLabel, Locking, AtDisk
<1>14. IF pc'[p] \in Locking THEN x.holder = p ELSE x.holder = NoProc
  BY <1>7, <1>13
<1>15. \A q \in Proc : \/ pc'[q] = pc[q]
                       \/ q = p /\ pc'[q] \in PcLabel \ {"idle"}
                       \/ q # p /\ mine[q] = i /\ pc[q] \in {"asleep on lock", "lock"}
                                /\ pc'[q] = "lock"
  BY <1>11, <1>13
<1>16. /\ x.block \in Block /\ x.data \in Val /\ buf[i].holder \in {p, NoProc}
       /\ mine[p] = i /\ mine' = mine /\ lru' = lru /\ buf' = [buf EXCEPT ![i] = x]
       /\ x.block = buf[i].block /\ x.refcnt = buf[i].refcnt /\ x.valid /\ ~x.dirty
  BY <1>2, <1>4, <1>6, <1>7, <1>8
<1> QED
  <2>1. x.dirty => x.valid
    BY <1>16
  <2>2. x.valid => x.block \in Block /\ x.data \in Val
    BY <1>16
  <2>3. x.valid /\ ~x.dirty => x.data = disk'[x.block]
    BY <1>10
  <2>4. (pc'[p] = "held" => x.valid) /\ (pc'[p] = "read" => ~x.valid)
    BY <1>13
  <2>5. pc' \in [Proc -> PcLabel] /\ QueueInv' /\ idequeue' \in Seq(Buf)
    BY <1>11, <1>12
  <2>6. disk' \in [Block -> Val] /\ \A b \in Block : b # x.block => disk'[b] = disk[b]
    BY <1>10
  <2> QED
    BY <1>9, <1>13, <1>14, <1>15, <1>16, <2>1, <2>2, <2>3, <2>4, <2>5, <2>6, HolderActs, ZenonT(60)

-----------------------------------------------------------------------------
(* The theorems. *)

LEMMA InitCache ==
    ASSUME Init
    PROVE  CacheInv
<1>1. TypeOK
  <2>1. \A k \in Buf : NBUF + 1 - k \in Buf
    BY BufferAssumption DEF Buf
  <2>2. Fresh \in Buffer
    BY DEF Fresh, Buffer
  <2> QED BY <2>1, <2>2, BufferAssumption DEF Init, TypeOK, PcLabel
<1>2. BufInv
  <2> SUFFICES ASSUME NEW i \in Buf PROVE BufOK(i)
    BY DEF BufInv
  <2>1. Users(i) = {}
    BY BufFacts DEF Init, Users
  <2> QED BY <2>1, FS_EmptySet DEF Init, Fresh, BufOK
<1>3. ProcInv
  BY DEF Init, ProcInv, ProcOK, Locking
<1>4. OneInv /\ QueueInv
  BY DEF Init, OneInv, QueueInv, Fresh
<1>5. ListInv
  <2> SUFFICES ASSUME NEW i \in Buf PROVE \E k \in Buf : lru[k] = i
    BY DEF ListInv
  <2>1. NBUF + 1 - i \in Buf /\ NBUF + 1 - (NBUF + 1 - i) = i
    BY BufferAssumption DEF Buf
  <2> QED BY <2>1 DEF Init
<1> QED BY <1>1, <1>2, <1>3, <1>4, <1>5 DEF CacheInv

LEMMA StutterKeeps ==
    ASSUME CacheInv, UNCHANGED vars
    PROVE  CacheInv'
<1> USE DEF CacheInv, vars
<1>1. TypeOK'
  BY DEF TypeOK
<1>2. BufInv'
  BY UsersKept, BufKept DEF BufInv
<1>3. ProcInv'
  BY ProcKept DEF ProcInv
<1>4. OneInv' /\ ListInv'
  BY OneKept, ListKept
<1>5. QueueInv'
  BY QueueKept DEF Requested, Done
<1> QED BY <1>1, <1>2, <1>3, <1>4, <1>5

LEMMA NextCache ==
    ASSUME CacheInv, [Next]_vars
    PROVE  CacheInv'
<1>1. ASSUME NEW p \in Proc, Bget(p) PROVE CacheInv'
  BY <1>1, BgetHitKeeps, BgetRecycleKeeps DEF Bget
<1>2. ASSUME NEW p \in Proc, Change(p) PROVE CacheInv'
  BY <1>2, LogWriteKeeps, BwriteKeeps DEF Change
<1>3. ASSUME NEW p \in Proc, Lock(p) PROVE CacheInv'
  BY <1>3, AcquireSleepKeeps, LockSleepKeeps DEF Lock
<1>4. ASSUME NEW p \in Proc, GoOn(p) PROVE CacheInv'
  BY <1>4, ReadBlockKeeps, IderwLoopKeeps, ReleaseSleepKeeps, BrelseKeeps DEF GoOn
<1> QED
  BY <1>1, <1>2, <1>3, <1>4, KillWakesKeeps, IdeintrKeeps, StutterKeeps DEF Next

\* Whatever the users of the cache do, in whatever order the disk answers, each buffer is
\* counted, locked and on the list as it must be (bio.c, sleeplock.c, ide.c).
THEOREM CacheInvariant == Spec => []CacheInv
BY InitCache, NextCache, PTL DEF Spec

\* No block has two buffers or a buffer whose count, lock or clean contents are wrong
\* (CacheSound, which MCBufferCache checks), in bget(), bread(), bwrite() and brelse().
THEOREM Sound == Spec => []CacheSound
<1>1. ASSUME CacheInv PROVE CacheSound
  <2> USE <1>1 DEF CacheInv
  <2>1. ASSUME NEW b \in Block PROVE Cardinality(Cached(b)) <= 1
    <3>1. CASE Cached(b) = {}
      BY <3>1, FS_EmptySet
    <3>2. CASE Cached(b) # {}
      <4>1. PICK i \in Buf : buf[i].block = b
        BY <3>2 DEF Cached
      <4>2. Cached(b) = {i}
        BY <4>1, BufFacts DEF Cached, OneInv
      <4>3. Cardinality({i}) = 1
        BY FS_Singleton
      <4> QED BY <4>2, <4>3
    <3> QED BY <3>1, <3>2
  <2>2. ASSUME NEW i \in Buf
        PROVE  /\ buf[i].refcnt = Cardinality({p \in Proc : mine[p] = i})
               /\ buf[i].holder # NoProc => mine[buf[i].holder] = i
               /\ buf[i].valid /\ ~buf[i].dirty => buf[i].data = disk[buf[i].block]
    BY DEF BufInv, BufOK, Users
  <2>3. ASSUME NEW p \in Proc
        PROVE  /\ pc[p] \in {"held", "asleep on disk", "woken"} => Holds(p)
               /\ pc[p] = "held" => buf[mine[p]].valid
    BY DEF ProcInv, ProcOK, Holds, Locking
  <2> QED BY <2>1, <2>2, <2>3 DEF CacheSound
<1> QED BY <1>1, CacheInvariant, PTL

-----------------------------------------------------------------------------
(* The block store that the cache implements. *)

\* A block that has a valid buffer is what the buffer says, another what the disk has.
Viewed(b) ==
    /\ \A i \in Buf : buf[i].valid /\ buf[i].block = b =>
         Mem(b) = buf[i].data /\ Holder(b) = buf[i].holder
    /\ (\A i \in Buf : buf[i].valid => buf[i].block # b) =>
         Mem(b) = disk[b] /\ Holder(b) = NoProc

LEMMA View == CacheInv => \A b \in Block : Viewed(b)
<1> SUFFICES ASSUME CacheInv, NEW b \in Block PROVE Viewed(b)
  OBVIOUS
<1> USE DEF CacheInv
<1>1. ASSUME NEW i \in Buf, buf[i].valid, buf[i].block = b
      PROVE  Mem(b) = buf[i].data /\ Holder(b) = buf[i].holder
  <2>1. {j \in Cached(b) : buf[j].valid} = {i}
    BY <1>1, BufFacts DEF Cached, OneInv
  <2>2. Mem(b) = buf[i].data
    BY <2>1 DEF Mem
  <2>3. ASSUME NEW p \in Proc
        PROVE  Holds(p) /\ buf[mine[p]].block = b /\ buf[mine[p]].valid <=> buf[i].holder = p
    <3>1. ASSUME Holds(p), buf[mine[p]].block = b PROVE buf[i].holder = p
      <4>1. mine[p] \in Buf /\ buf[mine[p]].holder = p
        BY <3>1 DEF Holds, TypeOK
      <4>2. mine[p] = i
        BY <1>1, <3>1, <4>1, BufFacts DEF OneInv
      <4> QED BY <4>1, <4>2
    <3>2. ASSUME buf[i].holder = p PROVE Holds(p) /\ mine[p] = i
      BY <3>2, BufFacts DEF BufInv, BufOK, Holds
    <3> QED BY <1>1, <3>1, <3>2
  <2>4. Holder(b) = buf[i].holder
    <3> DEFINE h == {p \in Proc : Holds(p) /\ buf[mine[p]].block = b /\ buf[mine[p]].valid}
    <3>1. Holder(b) = IF h = {} THEN NoProc ELSE CHOOSE p \in h : TRUE
      BY DEF Holder
    <3>2. \A p : p \in h <=> p \in Proc /\ buf[i].holder = p
      BY <2>3
    <3>3. buf[i].holder \in Proc \cup {NoProc}
      BY DEF TypeOK, Buffer
    <3> HIDE DEF h
    <3>4. CASE buf[i].holder = NoProc
      <4>1. h = {}
        BY <3>2, <3>4, BufFacts
      <4> QED BY <3>1, <3>4, <4>1
    <3>5. CASE buf[i].holder \in Proc
      <4>1. h = {buf[i].holder}
        BY <3>2, <3>5
      <4> QED BY <3>1, <4>1
    <3> QED BY <3>3, <3>4, <3>5
  <2> QED BY <2>2, <2>4
<1>2. ASSUME \A i \in Buf : buf[i].valid => buf[i].block # b
      PROVE  Mem(b) = disk[b] /\ Holder(b) = NoProc
  <2>1. {j \in Cached(b) : buf[j].valid} = {}
    BY <1>2 DEF Cached
  <2>2. {p \in Proc : Holds(p) /\ buf[mine[p]].block = b /\ buf[mine[p]].valid} = {}
    BY <1>2 DEF Holds, TypeOK
  <2>3. Mem(b) = disk[b]
    BY <2>1 DEF Mem
  <2>4. Holder(b) = NoProc
    BY <2>2 DEF Holder
  <2> QED BY <2>3, <2>4
<1> QED BY <1>1, <1>2 DEF Viewed

LEMMA ViewNext == CacheInv' => (\A b \in Block : Viewed(b))'
BY View, PTL

\* A step that leaves the valid buffer of a block alone, and the block on the disk.
LEMMA Unseen ==
    ASSUME CacheInv, CacheInv', NEW b \in Block, disk'[b] = disk[b],
           \A i \in Buf : (buf'[i].valid /\ buf'[i].block = b) <=>
                          (buf[i].valid /\ buf[i].block = b),
           \A i \in Buf : buf[i].valid /\ buf[i].block = b =>
             buf'[i].data = buf[i].data /\ buf'[i].holder = buf[i].holder
    PROVE  Mem(b)' = Mem(b) /\ Holder(b)' = Holder(b)
<1>1. Viewed(b) /\ Viewed(b)'
  BY View, ViewNext
<1>2. CASE \E i \in Buf : buf[i].valid /\ buf[i].block = b
  BY <1>1, <1>2 DEF Viewed
<1>3. CASE \A i \in Buf : buf[i].valid => buf[i].block # b
  BY <1>1, <1>3 DEF Viewed
<1> QED BY <1>2, <1>3

LEMMA NothingSeen ==
    ASSUME \A b \in Block : Mem(b)' = Mem(b) /\ Holder(b)' = Holder(b), disk' = disk
    PROVE  UNCHANGED Store!vars
BY DEF Store!vars

LEMMA TakeSeen ==
    ASSUME NEW p \in Proc, NEW b \in Block, Holder(b) = NoProc, Holder(b)' = p,
           \A c \in Block : c # b => Holder(c)' = Holder(c),
           \A c \in Block : Mem(c)' = Mem(c), disk' = disk
    PROVE  Store!Next
<1>1. [c \in Block |-> Holder(c)]' = [[c \in Block |-> Holder(c)] EXCEPT ![b] = p]
  OBVIOUS
<1>2. [c \in Block |-> Mem(c)]' = [c \in Block |-> Mem(c)]
  OBVIOUS
<1> QED BY <1>1, <1>2 DEF Store!Next, Store!Take

LEMMA GiveSeen ==
    ASSUME NEW p \in Proc, NEW b \in Block, Holder(b) = p, Holder(b)' = NoProc,
           \A c \in Block : c # b => Holder(c)' = Holder(c),
           \A c \in Block : Mem(c)' = Mem(c), disk' = disk
    PROVE  Store!Next
<1>1. [c \in Block |-> Holder(c)]' = [[c \in Block |-> Holder(c)] EXCEPT ![b] = NoProc]
  OBVIOUS
<1>2. [c \in Block |-> Mem(c)]' = [c \in Block |-> Mem(c)]
  OBVIOUS
<1> QED BY <1>1, <1>2 DEF Store!Next, Store!Give

LEMMA ChangeSeen ==
    ASSUME NEW p \in Proc, NEW b \in Block, NEW v \in Val, Holder(b) = p, Mem(b)' = v,
           \A c \in Block : c # b => Mem(c)' = Mem(c),
           \A c \in Block : Holder(c)' = Holder(c), disk' = disk
    PROVE  Store!Next
<1>1. [c \in Block |-> Mem(c)]' = [[c \in Block |-> Mem(c)] EXCEPT ![b] = v]
  OBVIOUS
<1>2. [c \in Block |-> Holder(c)]' = [c \in Block |-> Holder(c)]
  OBVIOUS
<1> QED BY <1>1, <1>2 DEF Store!Next, Store!Change

LEMMA SaveSeen ==
    ASSUME NEW p \in Proc, NEW b \in Block, Holder(b) = p, disk' = [disk EXCEPT ![b] = Mem(b)],
           \A c \in Block : Mem(c)' = Mem(c) /\ Holder(c)' = Holder(c)
    PROVE  Store!Next
<1>1. [c \in Block |-> Mem(c)]' = [c \in Block |-> Mem(c)]
  OBVIOUS
<1>2. [c \in Block |-> Holder(c)]' = [c \in Block |-> Holder(c)]
  OBVIOUS
<1> QED BY <1>1, <1>2 DEF Store!Next, Store!Save

\* A step that changes one buffer, whose block stays.
LEMMA OneSeen ==
    ASSUME CacheInv, CacheInv', NEW i \in Buf, buf[i].block \in Block,
           \A j \in Buf \ {i} : buf'[j] = buf[j], buf'[i].block = buf[i].block,
           \A c \in Block : c # buf[i].block => disk'[c] = disk[c]
    PROVE  \A c \in Block : c # buf[i].block => Mem(c)' = Mem(c) /\ Holder(c)' = Holder(c)
<1> SUFFICES ASSUME NEW c \in Block, c # buf[i].block
             PROVE  Mem(c)' = Mem(c) /\ Holder(c)' = Holder(c)
  OBVIOUS
<1>1. disk'[c] = disk[c]
  OBVIOUS
<1>2. \A j \in Buf : (buf'[j].valid /\ buf'[j].block = c) <=> (buf[j].valid /\ buf[j].block = c)
  OBVIOUS
<1>3. \A j \in Buf : buf[j].valid /\ buf[j].block = c =>
        buf'[j].data = buf[j].data /\ buf'[j].holder = buf[j].holder
  OBVIOUS
<1> QED BY <1>1, <1>2, <1>3, Unseen

\* A valid buffer shows its block, before and after such a step.
LEMMA Shown ==
    ASSUME CacheInv, NEW i \in Buf, buf[i].valid
    PROVE  /\ buf[i].block \in Block
           /\ Mem(buf[i].block) = buf[i].data /\ Holder(buf[i].block) = buf[i].holder
<1>1. buf[i].block \in Block
  BY DEF CacheInv, BufInv, BufOK
<1>2. Viewed(buf[i].block)
  BY <1>1, View
<1> QED BY <1>1, <1>2 DEF Viewed

LEMMA ShownNext ==
    ASSUME CacheInv', NEW i \in Buf, NEW b \in Block, buf'[i].valid, buf'[i].block = b
    PROVE  Mem(b)' = buf'[i].data /\ Holder(b)' = buf'[i].holder
<1>1. Viewed(b)'
  BY ViewNext
<1> QED BY <1>1 DEF Viewed

\* A block whose buffer is not valid.
LEMMA Hidden ==
    ASSUME CacheInv, NEW i \in Buf, buf[i].block \in Block, ~buf[i].valid
    PROVE  Mem(buf[i].block) = disk[buf[i].block] /\ Holder(buf[i].block) = NoProc
<1>1. \A j \in Buf : buf[j].valid => buf[j].block # buf[i].block
  BY BufFacts DEF CacheInv, OneInv
<1>2. Viewed(buf[i].block)
  BY View
<1> QED BY <1>1, <1>2 DEF Viewed

\* Steps that nobody sees: those that leave the blocks, the valid data and their locks.
LEMMA SameSeen ==
    ASSUME CacheInv, CacheInv', disk' = disk,
           \A i \in Buf : /\ buf'[i].block = buf[i].block /\ buf'[i].valid = buf[i].valid
                          /\ buf'[i].data = buf[i].data
                          /\ buf[i].valid => buf'[i].holder = buf[i].holder
    PROVE  UNCHANGED Store!vars
<1> SUFFICES ASSUME NEW b \in Block PROVE Mem(b)' = Mem(b) /\ Holder(b)' = Holder(b)
  BY NothingSeen
<1>1. disk'[b] = disk[b]
  OBVIOUS
<1>2. ASSUME NEW i \in Buf
      PROVE  /\ buf'[i].valid /\ buf'[i].block = b <=> buf[i].valid /\ buf[i].block = b
             /\ buf[i].valid /\ buf[i].block = b =>
                  buf'[i].data = buf[i].data /\ buf'[i].holder = buf[i].holder
  <2>1. /\ buf'[i].block = buf[i].block /\ buf'[i].valid = buf[i].valid
        /\ buf'[i].data = buf[i].data
    OBVIOUS
  <2>2. buf[i].valid => buf'[i].holder = buf[i].holder
    OBVIOUS
  <2> QED BY <2>1, <2>2
<1> QED BY <1>1, <1>2, Unseen

LEMMA BgetHitSeen ==
    ASSUME CacheInv, CacheInv', NEW p \in Proc, NEW b \in Block, BgetHit(p, b)
    PROVE  UNCHANGED Store!vars
<1>1. PICK i \in Buf : buf' = [buf EXCEPT ![i].refcnt = @ + 1]
  BY DEF BgetHit, Cached
<1>2. \A j \in Buf : buf[j] \in Buffer
  BY DEF CacheInv, TypeOK
<1>3. \A j \in Buf : /\ buf'[j].block = buf[j].block /\ buf'[j].valid = buf[j].valid
                     /\ buf'[j].data = buf[j].data /\ buf'[j].holder = buf[j].holder
  BY <1>1, <1>2 DEF CacheInv, TypeOK, Buffer
<1> QED BY <1>3, SameSeen DEF BgetHit

LEMMA BgetRecycleSeen ==
    ASSUME CacheInv, CacheInv', NEW p \in Proc, NEW b \in Block, BgetRecycle(p, b)
    PROVE  UNCHANGED Store!vars
<1> USE DEF CacheInv
<1>1. PICK i \in Buf :
         /\ i \in Unused
         /\ buf' = [buf EXCEPT ![i] = [Fresh EXCEPT !.block = b, !.refcnt = 1,
                                           !.holder = buf[i].holder]]
  BY DEF BgetRecycle, Victim, LastIn, TypeOK
<1>2. disk' = disk
  BY DEF BgetRecycle
<1>3. BufOK(i) /\ buf[i].refcnt = 0 /\ ~buf[i].dirty /\ buf[i] \in Buffer
  BY <1>1 DEF Unused, TypeOK, BufInv
<1>4. buf[i].holder = NoProc
  <2>1. Users(i) = {}
    BY <1>3, FS_EmptySet DEF BufOK
  <2> QED BY <1>3, <2>1 DEF BufOK, Buffer, Users
<1>5. ~buf'[i].valid /\ \A j \in Buf \ {i} : buf'[j] = buf[j]
  BY <1>1 DEF TypeOK, Fresh
<1> SUFFICES ASSUME NEW c \in Block PROVE Mem(c)' = Mem(c) /\ Holder(c)' = Holder(c)
  BY <1>2, NothingSeen
<1>6. CASE buf[i].valid /\ buf[i].block = c
  <2>1. Mem(c) = disk[c] /\ Holder(c) = NoProc
    BY <1>3, <1>4, <1>6, Shown DEF BufOK
  <2>2. \A j \in Buf : buf'[j].valid => buf'[j].block # c
    BY <1>5, <1>6, BufFacts DEF OneInv
  <2>3. Viewed(c)'
    BY ViewNext
  <2>4. Mem(c)' = disk'[c] /\ Holder(c)' = NoProc
    BY <2>2, <2>3 DEF Viewed
  <2> QED BY <1>2, <2>1, <2>4
<1>7. CASE ~(buf[i].valid /\ buf[i].block = c)
  BY <1>2, <1>5, <1>7, Unseen
<1> QED BY <1>6, <1>7

LEMMA AcquireSleepSeen ==
    ASSUME CacheInv, CacheInv', NEW p \in Proc, AcquireSleep(p)
    PROVE  Store!Next \/ UNCHANGED Store!vars
<1>1. pc[p] = "lock" /\ disk' = disk /\ buf' = [buf EXCEPT ![mine[p]].holder = p]
  BY DEF AcquireSleep, At
<1>2. PICK i \in Buf : i = mine[p] /\ buf[i] \in Buffer
  BY <1>1, Mine DEF CacheInv, ProcInv
<1>3. /\ buf'[i].block = buf[i].block /\ buf'[i].valid = buf[i].valid
      /\ buf'[i].data = buf[i].data /\ buf'[i].holder = p
      /\ \A j \in Buf \ {i} : buf'[j] = buf[j]
  BY <1>1, <1>2 DEF CacheInv, TypeOK, Buffer
<1>4. buf[i].holder = NoProc
  BY <1>2 DEF AcquireSleep
<1>5. CASE buf[i].valid
  <2>1. PICK b \in Block : b = buf[i].block /\ Mem(b) = buf[i].data /\ Holder(b) = NoProc
    BY <1>4, <1>5, Shown
  <2>2. Mem(b)' = Mem(b) /\ Holder(b)' = p
    BY <1>3, <1>5, <2>1, ShownNext
  <2>3. \A c \in Block : c # b => Mem(c)' = Mem(c) /\ Holder(c)' = Holder(c)
    BY <1>1, <1>3, <2>1, OneSeen
  <2>4. \A c \in Block : Mem(c)' = Mem(c)
    BY <2>2, <2>3
  <2> QED BY <1>1, <2>1, <2>2, <2>3, <2>4, TakeSeen
<1>6. CASE ~buf[i].valid
  BY <1>1, <1>3, <1>6, SameSeen
<1> QED BY <1>5, <1>6

LEMMA ReleaseSleepSeen ==
    ASSUME CacheInv, CacheInv', NEW p \in Proc, ReleaseSleep(p)
    PROVE  Store!Next
<1>1. pc[p] = "held" /\ disk' = disk /\ buf' = [buf EXCEPT ![mine[p]].holder = NoProc]
  BY DEF ReleaseSleep, At
<1>2. PICK i \in Buf : i = mine[p] /\ buf[i] \in Buffer
  BY <1>1, Mine DEF CacheInv, ProcInv
<1>3. /\ buf'[i].block = buf[i].block /\ buf'[i].valid = buf[i].valid
      /\ buf'[i].data = buf[i].data /\ buf'[i].holder = NoProc
      /\ \A j \in Buf \ {i} : buf'[j] = buf[j]
  BY <1>1, <1>2 DEF CacheInv, TypeOK, Buffer
<1>4. buf[i].holder = p /\ buf[i].valid
  BY <1>1, <1>2 DEF CacheInv, ProcInv, ProcOK, Locking
<1>5. PICK b \in Block : b = buf[i].block /\ Mem(b) = buf[i].data /\ Holder(b) = p
  BY <1>4, Shown
<1>6. Mem(b)' = Mem(b) /\ Holder(b)' = NoProc
  BY <1>3, <1>4, <1>5, ShownNext
<1>7. \A c \in Block : c # b => Mem(c)' = Mem(c) /\ Holder(c)' = Holder(c)
  BY <1>1, <1>3, <1>5, OneSeen
<1>8. \A c \in Block : Mem(c)' = Mem(c)
  BY <1>6, <1>7
<1> QED BY <1>1, <1>5, <1>6, <1>7, <1>8, GiveSeen

LEMMA ChangeIsSeen ==
    ASSUME CacheInv, CacheInv', NEW p \in Proc, NEW v \in Val, LogWrite(p, v) \/ Bwrite(p, v)
    PROVE  Store!Next
<1>1. /\ pc[p] = "held" /\ disk' = disk
      /\ buf' = [buf EXCEPT ![mine[p]] = [@ EXCEPT !.data = v, !.dirty = TRUE]]
  BY DEF LogWrite, Bwrite, At
<1>2. PICK i \in Buf : i = mine[p] /\ buf[i] \in Buffer
  BY <1>1, Mine DEF CacheInv, ProcInv
<1>3. /\ buf'[i].block = buf[i].block /\ buf'[i].valid = buf[i].valid
      /\ buf'[i].data = v /\ buf'[i].holder = buf[i].holder
      /\ \A j \in Buf \ {i} : buf'[j] = buf[j]
  BY <1>1, <1>2 DEF CacheInv, TypeOK, Buffer
<1>4. buf[i].holder = p /\ buf[i].valid
  BY <1>1, <1>2 DEF CacheInv, ProcInv, ProcOK, Locking
<1>5. PICK b \in Block : b = buf[i].block /\ Holder(b) = p
  BY <1>4, Shown
<1>6. Mem(b)' = v /\ Holder(b)' = Holder(b)
  BY <1>3, <1>4, <1>5, ShownNext
<1>7. \A c \in Block : c # b => Mem(c)' = Mem(c) /\ Holder(c)' = Holder(c)
  BY <1>1, <1>3, <1>5, OneSeen
<1>8. \A c \in Block : Holder(c)' = Holder(c)
  BY <1>6, <1>7
<1> QED BY <1>1, <1>5, <1>6, <1>7, <1>8, ChangeSeen

LEMMA BrelseSeen ==
    ASSUME CacheInv, CacheInv', NEW p \in Proc, Brelse(p)
    PROVE  UNCHANGED Store!vars
<1>1. pc[p] = "release" /\ disk' = disk /\ buf' = [buf EXCEPT ![mine[p]].refcnt = @ - 1]
  BY DEF Brelse, At
<1>2. PICK i \in Buf : i = mine[p]
  BY <1>1, Mine DEF CacheInv, ProcInv
<1>3. \A j \in Buf : /\ buf'[j].block = buf[j].block /\ buf'[j].valid = buf[j].valid
                     /\ buf'[j].data = buf[j].data /\ buf'[j].holder = buf[j].holder
  BY <1>1, <1>2 DEF CacheInv, TypeOK, Buffer
<1> QED BY <1>1, <1>3, SameSeen

LEMMA IdeintrSeen ==
    ASSUME CacheInv, CacheInv', Ideintr
    PROVE  Store!Next
<1> USE DEF CacheInv
<1>1. PICK i \in Buf : i = Head(idequeue) /\ i = idequeue[1] /\ 1 \in 1 .. Len(idequeue)
  BY Shorter DEF Ideintr, TypeOK
<1> DEFINE x == [buf[i] EXCEPT !.valid = TRUE, !.dirty = FALSE,
                               !.data = IF buf[i].dirty THEN buf[i].data
                                                        ELSE disk[buf[i].block]]
<1>2. /\ disk' = IF buf[i].dirty THEN [disk EXCEPT ![buf[i].block] = buf[i].data] ELSE disk
      /\ buf' = [buf EXCEPT ![i] = x]
  BY <1>1 DEF Ideintr
<1>3. Requested(i)
  BY <1>1 DEF QueueInv
<1>4. PICK p \in Proc : p = buf[i].holder
  BY <1>3 DEF Requested, TypeOK, Buffer
<1>5. BufOK(i) /\ ProcOK(p) /\ buf[i] \in Buffer
  BY DEF BufInv, ProcInv, TypeOK
<1>6. mine[p] = i /\ buf[i].block \in Block
  BY <1>3, <1>4, <1>5, BufFacts DEF BufOK, ProcOK, Requested
<1>7. PICK b \in Block : b = buf[i].block
  BY <1>6
<1>8. /\ x.block = b /\ x.valid /\ x.holder = p
      /\ buf[i].dirty => x.data = buf[i].data
      /\ ~buf[i].dirty => x.data = disk[b]
  BY <1>4, <1>5, <1>7 DEF Buffer
<1> HIDE DEF x
<1>9. buf'[i] = x /\ \A j \in Buf \ {i} : buf'[j] = buf[j]
  BY <1>2 DEF TypeOK
<1>10. \A c \in Block : c # b => disk'[c] = disk[c]
  BY <1>2, <1>7 DEF TypeOK
<1>11. \A c \in Block : c # b => Mem(c)' = Mem(c) /\ Holder(c)' = Holder(c)
  BY <1>7, <1>8, <1>9, <1>10, OneSeen
<1>12. Mem(b)' = x.data /\ Holder(b)' = p
  BY <1>8, <1>9, ShownNext
<1>13. CASE buf[i].dirty
  <2>1. Mem(b) = buf[i].data /\ Holder(b) = p
    BY <1>4, <1>5, <1>7, <1>13, Shown DEF BufOK
  <2>2. disk' = [disk EXCEPT ![b] = Mem(b)]
    BY <1>2, <1>7, <1>13, <2>1
  <2>3. \A c \in Block : Mem(c)' = Mem(c) /\ Holder(c)' = Holder(c)
    BY <1>8, <1>11, <1>12, <1>13, <2>1
  <2> QED BY <2>1, <2>2, <2>3, SaveSeen
<1>14. CASE ~buf[i].dirty
  <2>1. ~buf[i].valid
    BY <1>3, <1>14 DEF Requested, Done
  <2>2. Mem(b) = disk[b] /\ Holder(b) = NoProc
    BY <1>7, <2>1, Hidden
  <2>3. \A c \in Block : Mem(c)' = Mem(c)
    BY <1>8, <1>11, <1>12, <1>14, <2>2
  <2>4. disk' = disk
    BY <1>2, <1>14
  <2> QED BY <1>11, <1>12, <2>2, <2>3, <2>4, TakeSeen
<1> QED BY <1>13, <1>14

\* A process that only moves on.
LEMMA MovesUnseen ==
    ASSUME buf' = buf, disk' = disk, mine' = mine
    PROVE  UNCHANGED Store!vars
BY DEF Store!vars, Mem, Holder, Cached, Holds

LEMMA InitSeen ==
    ASSUME Init
    PROVE  Store!Init
<1>1. CacheInv
  BY InitCache
<1>2. ASSUME NEW b \in Block PROVE Mem(b) = disk[b] /\ Holder(b) = NoProc
  <2>1. Viewed(b)
    BY <1>1, View
  <2> QED BY <2>1 DEF Viewed, Init, Fresh
<1>3. disk \in [Block -> Val]
  BY <1>1 DEF CacheInv, TypeOK
<1> QED BY <1>2, <1>3 DEF Store!Init

LEMMA NextSeen ==
    ASSUME CacheInv, CacheInv', [Next]_vars
    PROVE  [Store!Next]_(Store!vars)
<1>1. ASSUME NEW p \in Proc, Bget(p) PROVE UNCHANGED Store!vars
  BY <1>1, BgetHitSeen, BgetRecycleSeen DEF Bget
<1>2. ASSUME NEW p \in Proc, Change(p) PROVE Store!Next
  BY <1>2, ChangeIsSeen DEF Change
<1>3. ASSUME NEW p \in Proc, Lock(p) PROVE Store!Next \/ UNCHANGED Store!vars
  BY <1>3, AcquireSleepSeen, MovesUnseen DEF Lock, LockSleep
<1>4. ASSUME NEW p \in Proc, GoOn(p) PROVE Store!Next \/ UNCHANGED Store!vars
  BY <1>4, ReleaseSleepSeen, BrelseSeen, MovesUnseen DEF GoOn, ReadBlock, IderwLoop
<1>5. ASSUME NEW p \in Proc, KillWakes(p) PROVE UNCHANGED Store!vars
  BY <1>5, MovesUnseen DEF KillWakes
<1>6. CASE UNCHANGED vars
  BY <1>6, MovesUnseen DEF vars
<1> QED BY <1>1, <1>2, <1>3, <1>4, <1>5, <1>6, IdeintrSeen DEF Next

\* bread(), bwrite() and brelse() are a store of blocks, each used by one process at a time,
\* which sees what the one before it left (ImplementsBlockStore).
THEOREM BlocksStored == Spec => ImplementsBlockStore
<1>1. Init => Store!Init
  BY InitSeen
<1>2. CacheInv /\ CacheInv' /\ [Next]_vars => [Store!Next]_(Store!vars)
  BY NextSeen
<1> QED BY <1>1, <1>2, CacheInvariant, PTL DEF Spec, ImplementsBlockStore, Store!Spec

-----------------------------------------------------------------------------
(* A buffer is found.  The dirty buffers that wait for the log are those      *)
(* that nobody is writing at the moment.                                      *)

BeingWritten(i) == buf[i].holder # NoProc /\ pc[buf[i].holder] \in AtDisk
Waiting == {i \in Buf : buf[i].dirty /\ ~BeingWritten(i)}
DirtyInv == Cardinality(Waiting) <= MAXDIRTY

LEMMA BufFinite == IsFiniteSet(Buf) /\ Cardinality(Buf) = NBUF
<1>1. /\ IsFiniteSet(1 .. NBUF)
      /\ Cardinality(1 .. NBUF) = IF 1 > NBUF THEN 0 ELSE NBUF - 1 + 1
  BY BufferAssumption, FS_Interval
<1> QED BY <1>1, BufferAssumption DEF Buf

LEMMA Fewer ==
    ASSUME NEW S \in SUBSET Buf, NEW T \in SUBSET S, Cardinality(S) <= MAXDIRTY
    PROVE  Cardinality(T) <= MAXDIRTY
<1>1. IsFiniteSet(S)
  BY BufFinite, FS_Subset
<1>2. IsFiniteSet(T) /\ Cardinality(T) <= Cardinality(S)
  BY <1>1, FS_Subset
<1>3. Cardinality(S) \in Nat /\ Cardinality(T) \in Nat
  BY <1>1, <1>2, FS_CardinalityType
<1> QED BY <1>2, <1>3, BufferAssumption

\* A step after which no more buffers wait: one that is dirty was dirty before and has
\* the lock of who writes it, or is being written now.
LEMMA NoneAdded ==
    ASSUME CacheInv, DirtyInv,
           \A q \in Proc : pc[q] \in AtDisk => pc'[q] \in AtDisk \/ Done(mine[q]),
           \A j \in Buf : buf'[j].dirty =>
             \/ buf[j].dirty /\ (BeingWritten(j) => buf'[j].holder = buf[j].holder)
             \/ buf'[j].holder # NoProc /\ pc'[buf'[j].holder] \in AtDisk
    PROVE  DirtyInv'
<1>1. ASSUME NEW j \in Buf, buf'[j].dirty, ~BeingWritten(j)' PROVE buf[j].dirty /\ ~BeingWritten(j)
  <2>1. buf[j].dirty /\ (BeingWritten(j) => buf'[j].holder = buf[j].holder)
    BY <1>1 DEF BeingWritten
  <2>2. ASSUME BeingWritten(j) PROVE FALSE
    <3>1. PICK q \in Proc : q = buf[j].holder /\ q # NoProc /\ pc[q] \in AtDisk
      BY <2>2 DEF BeingWritten, CacheInv, TypeOK, Buffer
    <3>2. mine[q] = j
      BY <3>1 DEF CacheInv, BufInv, BufOK
    <3>3. pc'[q] \in AtDisk
      BY <2>1, <3>1, <3>2 DEF Done
    <3>4. buf'[j].holder = q
      BY <2>1, <2>2, <3>1
    <3> QED BY <1>1, <3>1, <3>3, <3>4 DEF BeingWritten
  <2> QED BY <2>1, <2>2
<1>2. Waiting' \in SUBSET Waiting
  BY <1>1 DEF Waiting
<1>3. Waiting \in SUBSET Buf
  BY DEF Waiting
<1> QED BY <1>2, <1>3, Fewer DEF DirtyInv

LEMMA WritesWait ==
    ASSUME CacheInv, DirtyInv, NEW p \in Proc, NEW v \in Val, LogWrite(p, v)
    PROVE  DirtyInv'
<1>1. pc[p] = "held" /\ Cardinality(Pinned \cup {mine[p]}) <= MAXDIRTY
      /\ buf' = [buf EXCEPT ![mine[p]] = [@ EXCEPT !.data = v, !.dirty = TRUE]]
  BY DEF LogWrite, At
<1>2. PICK i \in Buf : i = mine[p]
  BY <1>1, Mine DEF CacheInv, ProcInv
<1>3. \A j \in Buf \ {i} : buf'[j] = buf[j]
  BY <1>1, <1>2 DEF CacheInv, TypeOK
<1>4. Waiting' \in SUBSET (Pinned \cup {i})
  BY <1>3 DEF Waiting, Pinned
<1>5. Pinned \cup {i} \in SUBSET Buf
  BY DEF Pinned
<1> QED BY <1>1, <1>2, <1>4, <1>5, Fewer DEF DirtyInv

LEMMA OthersDoNot ==
    ASSUME CacheInv, DirtyInv, NEW p \in Proc,
           \/ \E b \in Block : BgetHit(p, b) \/ BgetRecycle(p, b)
           \/ \E v \in Val : Bwrite(p, v)
           \/ Lock(p) \/ GoOn(p) \/ KillWakes(p)
    PROVE  DirtyInv'
<1> USE DEF CacheInv
<1>1. ASSUME NEW b \in Block, BgetHit(p, b) PROVE DirtyInv'
  <2>1. PICK i \in Buf : buf' = [buf EXCEPT ![i].refcnt = @ + 1]
    BY <1>1 DEF BgetHit, Cached
  <2>2. \A j \in Buf : buf'[j].dirty = buf[j].dirty /\ buf'[j].holder = buf[j].holder
    BY <2>1 DEF TypeOK, Buffer
  <2>3. \A q \in Proc : pc[q] \in AtDisk => pc'[q] \in AtDisk
    BY <1>1 DEF BgetHit, At, Goto, TypeOK, AtDisk
  <2> QED BY <2>2, <2>3, NoneAdded
<1>2. ASSUME NEW b \in Block, BgetRecycle(p, b) PROVE DirtyInv'
  <2>1. PICK i \in Buf : buf' = [buf EXCEPT ![i] = [Fresh EXCEPT !.block = b, !.refcnt = 1,
                                                    !.holder = buf[i].holder]]
    BY <1>2 DEF BgetRecycle, Victim, LastIn, TypeOK
  <2>2. ~buf'[i].dirty /\ \A j \in Buf \ {i} : buf'[j] = buf[j]
    BY <2>1 DEF TypeOK, Fresh
  <2>3. \A q \in Proc : pc[q] \in AtDisk => pc'[q] \in AtDisk
    BY <1>2 DEF BgetRecycle, At, Goto, TypeOK, AtDisk
  <2> QED BY <2>2, <2>3, NoneAdded
<1>3. ASSUME NEW v \in Val, Bwrite(p, v) PROVE DirtyInv'
  <2>1. /\ pc[p] = "held" /\ pc' = [pc EXCEPT ![p] = "asleep on disk"]
        /\ buf' = [buf EXCEPT ![mine[p]] = [@ EXCEPT !.data = v, !.dirty = TRUE]]
    BY <1>3 DEF Bwrite, At, Goto, Iderw
  <2>2. PICK i \in Buf : i = mine[p] /\ buf[i] \in Buffer
    BY <2>1, Mine DEF ProcInv
  <2>3. buf[i].holder = p
    BY <2>1, <2>2 DEF ProcInv, ProcOK, Locking
  <2>4. buf'[i].holder = p /\ \A j \in Buf \ {i} : buf'[j] = buf[j]
    BY <2>1, <2>2, <2>3 DEF TypeOK, Buffer
  <2>5. pc'[p] \in AtDisk /\ \A q \in Proc : pc[q] \in AtDisk => pc'[q] \in AtDisk
    BY <2>1 DEF TypeOK, AtDisk
  <2> QED BY <2>4, <2>5, NoneAdded, BufFacts
<1>4. ASSUME AcquireSleep(p) PROVE DirtyInv'
  <2>1. pc[p] = "lock" /\ buf' = [buf EXCEPT ![mine[p]].holder = p]
    BY <1>4 DEF AcquireSleep, At
  <2>2. PICK i \in Buf : i = mine[p] /\ buf[i] \in Buffer
    BY <2>1, Mine DEF ProcInv
  <2>3. /\ buf[i].holder = NoProc /\ buf'[i].dirty = buf[i].dirty
        /\ \A j \in Buf \ {i} : buf'[j] = buf[j]
    BY <1>4, <2>1, <2>2 DEF AcquireSleep, TypeOK, Buffer
  <2>4. \A q \in Proc : pc[q] \in AtDisk => pc'[q] \in AtDisk
    BY <1>4, <2>1 DEF AcquireSleep, Goto, TypeOK, AtDisk
  <2> QED BY <2>3, <2>4, NoneAdded DEF BeingWritten
<1>5. ASSUME ReleaseSleep(p) PROVE DirtyInv'
  <2>1. pc[p] = "held" /\ buf' = [buf EXCEPT ![mine[p]].holder = NoProc]
    BY <1>5 DEF ReleaseSleep, At
  <2>2. PICK i \in Buf : i = mine[p] /\ buf[i] \in Buffer
    BY <2>1, Mine DEF ProcInv
  <2>3. buf[i].holder = p
    BY <2>1, <2>2 DEF ProcInv, ProcOK, Locking
  <2>4. ~BeingWritten(i)
    BY <2>1, <2>3 DEF BeingWritten, AtDisk
  <2>5. buf'[i].dirty = buf[i].dirty /\ \A j \in Buf \ {i} : buf'[j] = buf[j]
    BY <2>1, <2>2 DEF TypeOK, Buffer
  <2>6. \A q \in Proc : pc[q] \in AtDisk => pc'[q] \in AtDisk
    BY <1>5, <2>1 DEF ReleaseSleep, Woken, TypeOK, AtDisk
  <2> QED BY <2>4, <2>5, <2>6, NoneAdded
<1>6. ASSUME Brelse(p) PROVE DirtyInv'
  <2>1. pc[p] = "release" /\ buf' = [buf EXCEPT ![mine[p]].refcnt = @ - 1]
    BY <1>6 DEF Brelse, At
  <2>2. PICK i \in Buf : i = mine[p]
    BY <2>1, Mine DEF ProcInv
  <2>3. \A j \in Buf : buf'[j].dirty = buf[j].dirty /\ buf'[j].holder = buf[j].holder
    BY <2>1, <2>2 DEF TypeOK, Buffer
  <2>4. \A q \in Proc : pc[q] \in AtDisk => pc'[q] \in AtDisk
    BY <1>6, <2>1 DEF Brelse, Goto, TypeOK, AtDisk
  <2> QED BY <2>3, <2>4, NoneAdded
<1>7. ASSUME LockSleep(p) \/ ReadBlock(p) \/ KillWakes(p) \/ IderwLoop(p) PROVE DirtyInv'
  <2>1. buf' = buf
    BY <1>7 DEF LockSleep, ReadBlock, KillWakes, IderwLoop
  <2>2. \A q \in Proc : pc[q] \in AtDisk => pc'[q] \in AtDisk \/ Done(mine[q])
    BY <1>7 DEF LockSleep, ReadBlock, KillWakes, IderwLoop, At, Goto, Iderw, TypeOK, AtDisk
  <2> QED BY <2>1, <2>2, NoneAdded
<1> QED BY <1>1, <1>2, <1>3, <1>4, <1>5, <1>6, <1>7 DEF Lock, GoOn

LEMMA IdeintrDoesNot ==
    ASSUME CacheInv, DirtyInv, Ideintr
    PROVE  DirtyInv'
<1> USE DEF CacheInv
<1>1. PICK i \in Buf : i = Head(idequeue)
  BY Shorter DEF Ideintr, TypeOK
<1>2. /\ pc' = Woken(pc, i, "asleep on disk", "woken")
      /\ ~buf'[i].dirty /\ \A j \in Buf \ {i} : buf'[j] = buf[j]
  BY <1>1 DEF Ideintr, TypeOK, Buffer
<1>3. \A q \in Proc : pc[q] \in AtDisk => pc'[q] \in AtDisk
  BY <1>2 DEF Woken, TypeOK, AtDisk
<1> QED BY <1>2, <1>3, NoneAdded

LEMMA NextDirty ==
    ASSUME CacheInv, DirtyInv, [Next]_vars
    PROVE  DirtyInv'
<1>1. CASE UNCHANGED vars
  BY <1>1 DEF vars, DirtyInv, Waiting, BeingWritten
<1>2. CASE Next
  BY <1>2, WritesWait, OthersDoNot, IdeintrDoesNot DEF Next, Bget, Change
<1> QED BY <1>1, <1>2

LEMMA InitDirty == ASSUME Init PROVE DirtyInv
<1>1. Waiting = {}
  BY DEF Init, Waiting, Fresh
<1> QED BY <1>1, FS_EmptySet, BufferAssumption DEF DirtyInv

\* A buffer for every process, besides those that the log leaves dirty.
Enough == IsFiniteSet(Proc) /\ MAXDIRTY + Cardinality(Proc) <= NBUF

\* The buffers in use are no more than the processes that have one.
LEMMA UsedByProcs ==
    ASSUME CacheInv, IsFiniteSet(Proc), NEW p \in Proc, mine[p] = NoBuf
    PROVE  LET used == {i \in Buf : buf[i].refcnt # 0}
           IN  /\ IsFiniteSet(used) /\ Cardinality(used) \in Nat
               /\ Cardinality(used) < Cardinality(Proc)
<1> DEFINE used == {i \in Buf : buf[i].refcnt # 0}
           user == [i \in used |-> CHOOSE q \in Proc : mine[q] = i]
<1>1. ASSUME NEW i \in used PROVE user[i] \in Proc \ {p} /\ mine[user[i]] = i
  <2>1. BufOK(i)
    BY DEF CacheInv, BufInv
  <2>2. Users(i) # {}
    BY <2>1, FS_EmptySet DEF BufOK
  <2>3. \E q \in Proc : mine[q] = i
    BY <2>2 DEF Users
  <2> QED BY <2>3, BufFacts
<1> HIDE DEF used
<1>2. user \in Injection(used, Proc \ {p})
  <2>1. user \in [used -> Proc \ {p}]
    BY <1>1
  <2> HIDE DEF user
  <2>2. \A i, j \in used : user[i] = user[j] => i = j
    BY <1>1
  <2> QED BY <2>1, <2>2 DEF Injection, IsInjective
<1>3. /\ IsFiniteSet(Proc \ {p}) /\ Cardinality(Proc \ {p}) = Cardinality(Proc) - 1
      /\ Cardinality(Proc) \in Nat
  BY FS_RemoveElement, FS_CardinalityType
<1>4. IsFiniteSet(used) /\ Cardinality(used) <= Cardinality(Proc \ {p})
  BY <1>2, <1>3, FS_Injection
<1>5. Cardinality(used) \in Nat /\ Cardinality(used) < Cardinality(Proc)
  BY <1>3, <1>4, FS_CardinalityType
<1> QED BY <1>4, <1>5 DEF used

\* With a buffer for every process besides those that the log may leave dirty, bget() does not
\* panic (BuffersSuffice): no count is left behind, and what is written gets clean.
THEOREM BufferFound == ASSUME Enough PROVE Spec => []BuffersSuffice
<1>1. ASSUME CacheInv, DirtyInv PROVE BuffersSuffice
  <2> SUFFICES ASSUME NEW p \in Proc, NEW b \in Block, BgetPanics(p, b) PROVE FALSE
    BY DEF BuffersSuffice
  <2> DEFINE used == {i \in Buf : buf[i].refcnt # 0}
  <2>1. mine[p] = NoBuf
    BY <1>1 DEF CacheInv, ProcInv, ProcOK, BgetPanics, At
  <2>2. Unused = {}
    BY <1>1 DEF BgetPanics, CacheInv, ListInv, Unused
  <2>3. Buf = used \cup Waiting
    <3>1. ASSUME NEW i \in Buf, buf[i].refcnt = 0 PROVE i \in Waiting
      <4>1. BufOK(i) /\ buf[i].holder \in Proc \cup {NoProc}
        BY <1>1 DEF CacheInv, BufInv, TypeOK, Buffer
      <4>2. buf[i].holder = NoProc
        BY <3>1, <4>1, FS_EmptySet DEF BufOK, Users
      <4>3. buf[i].dirty
        BY <2>2, <3>1 DEF Unused
      <4> QED BY <4>2, <4>3 DEF Waiting, BeingWritten
    <3> QED BY <3>1 DEF Waiting
  <2>4. IsFiniteSet(used) /\ Cardinality(used) \in Nat /\ Cardinality(used) < Cardinality(Proc)
    BY <1>1, <2>1, UsedByProcs DEF Enough
  <2>5. IsFiniteSet(Waiting) /\ Cardinality(Waiting) \in Nat
    <3>1. Waiting \in SUBSET Buf
      BY DEF Waiting
    <3>2. IsFiniteSet(Waiting)
      BY <3>1, BufFinite, FS_Subset
    <3> QED BY <3>2, FS_CardinalityType
  <2> HIDE DEF used
  <2>6. /\ NBUF = Cardinality(used) + Cardinality(Waiting) - Cardinality(used \cap Waiting)
        /\ Cardinality(used \cap Waiting) \in Nat
    <3>1. Cardinality(used \cup Waiting) =
            Cardinality(used) + Cardinality(Waiting) - Cardinality(used \cap Waiting)
      BY <2>4, <2>5, FS_Union
    <3>2. IsFiniteSet(used \cap Waiting)
      BY <2>4, FS_Intersection
    <3> QED BY <2>3, <3>1, <3>2, BufFinite, FS_CardinalityType
  <2>7. Cardinality(Waiting) <= MAXDIRTY /\ MAXDIRTY + Cardinality(Proc) <= NBUF
    BY <1>1 DEF DirtyInv, Enough
  <2>8. Cardinality(Proc) \in Nat
    BY FS_CardinalityType DEF Enough
  <2> QED BY <2>4, <2>5, <2>6, <2>7, <2>8, BufferAssumption
<1>2. Spec => []DirtyInv
  <2>1. Init => DirtyInv
    BY InitDirty
  <2>2. CacheInv /\ DirtyInv /\ [Next]_vars => DirtyInv'
    BY NextDirty
  <2> QED BY <2>1, <2>2, CacheInvariant, PTL DEF Spec
<1>3. CacheInv /\ DirtyInv => BuffersSuffice
  BY <1>1
<1> QED BY <1>2, <1>3, CacheInvariant, PTL
=============================================================================
