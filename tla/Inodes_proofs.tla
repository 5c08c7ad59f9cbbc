---------------------------- MODULE Inodes_proofs ----------------------------
(***************************************************************************)
(* The inode cache, proved for any number of processes, inodes and slots,  *)
(* and any names, paths and system calls on them: what is in the cache is  *)
(* counted, locked and valid as the pointers of the processes and the disk *)
(* say.  InodesInv is inductive.                                           *)
(***************************************************************************)
EXTENDS InodesProps, FiniteSetTheorems, SequenceTheorems, WellFoundedInduction, TLAPS

Op == {"open", "chdir", "create", "mkdir", "unlink", "link"}
Label == Op \cup {"user", "put", "drop", "walk", "create old", "create new", "created",
                  "unlink ip", "unlock dp", "unlinked", "link old", "linked", "link undo"}
Type == {"free", "dir", "file"}
Ref == {"at", "ip", "dp", "put", "cwd", "fd"}
Link == Inum \cup {Null}

Dinode == [type : Type, nlink : Int, ents : [Name -> Link], up : Link]
Inode == [inum : Link, ref : Nat, valid : BOOLEAN, type : Type, nlink : Int,
          holder : Proc \cup {NoProc}]

\* NoCall is what a process in user code is in.
Calls == Call \cup {NoCall, [NoCall EXCEPT !.op = "close"]}

TypeOK ==
    /\ dinode \in [Inum -> Dinode]
    /\ slot \in [Slot -> Inode]
    /\ my \in [Proc -> [Ref -> Slot \cup {Null}]]
    /\ pc \in [Proc -> Label]
    /\ ret \in [Proc -> Label \ {"put", "drop"}]
    /\ call \in [Proc -> Calls]
    /\ path \in [Proc -> Path]

\* Where a process is, or comes to after the iput() it is in.
Where(p) == IF pc[p] \in {"put", "drop"} THEN ret[p] ELSE pc[p]

WithDp == {"create", "mkdir", "unlink", "link", "create new", "unlink ip", "unlock dp"}
WithIp == {"open", "chdir", "create old", "create new", "created", "unlink ip", "unlinked",
           "link old", "link", "linked", "link undo"}

\* Which pointers a process has where; link() has one while it looks for the parent
\* of the new name.
RefsOf(p) ==
    /\ my[p].cwd # Null
    /\ my[p].put # Null <=> pc[p] \in {"put", "drop"}
    /\ my[p].at # Null <=> Where(p) = "walk"
    /\ my[p].dp # Null <=> Where(p) \in WithDp
    /\ Where(p) \in WithIp => my[p].ip # Null
    /\ my[p].ip # Null => Where(p) \in WithIp \cup {"walk", "unlock dp"}
    /\ my[p].ip # Null /\ Where(p) \in {"walk", "unlock dp", "link", "link old"} =>
         call[p].op = "link"

\* A call under way is one of the calls there are; nameiparent() has a name left, and
\* leaves one.
CallOf(p) ==
    /\ Where(p) # "user" => call[p] \in Call
    /\ Where(p) = "walk" /\ WantsParent(p) => path[p] # <<>>
    /\ Where(p) \in WithDp \ {"unlock dp"} => path[p] # <<>>

\* The lock a process has, and where.
Holds(p) ==
    IF Where(p) \in {"create new", "unlink ip", "unlock dp"} THEN my[p].dp
    ELSE IF Where(p) \in {"created", "unlinked"} THEN my[p].ip ELSE Null

LockInv == \A s \in Slot, p \in Proc : slot[s].holder = p <=> Holds(p) = s

\* How many pointers there are to slot s.
Ptr(m, s) == {x \in Proc \X Ref : m[x[1]][x[2]] = s}
Count(m, s) == Cardinality(Ptr(m, s))

\* The pointers to a slot are counted, one without is empty, and an inode has one
\* slot.
Counted(f, m) ==
    /\ \A s \in Slot :
         /\ f[s].ref = Count(m, s)
         /\ IF f[s].ref = 0 THEN f[s] = NoInode ELSE f[s].inum \in Inum
    /\ \A s, t \in Slot : f[s].ref > 0 /\ f[t].ref > 0 /\ f[s].inum = f[t].inum => s = t

\* What is valid is what the disk says.
ValidAt(f, d, s) ==
    f[s].valid => /\ f[s].type = d[f[s].inum].type /\ f[s].type # "free"
                  /\ f[s].nlink = d[f[s].inum].nlink
Valid(f, d) == \A s \in Slot : ValidAt(f, d, s)

ProcInv == \A p \in Proc : RefsOf(p) /\ CallOf(p)
InodesInv == TypeOK /\ ProcInv /\ LockInv /\ Counted(slot, my) /\ Valid(slot, dinode)

-----------------------------------------------------------------------------
(* Pointers are counted. *)

Pointers == [Proc -> [Ref -> Slot \cup {Null}]]
LEMMA Facts ==
    /\ Null \notin Slot /\ Slot \subseteq Nat /\ 1 \in Slot
    /\ IsFiniteSet(Proc) /\ Proc # {} /\ NoProc \notin Proc
    /\ ROOTINO \in Inum /\ Null \notin Inum
BY InodesAssumption DEF Slot, Null

LEMMA PtrFinite ==
    ASSUME NEW m, NEW s
    PROVE  IsFiniteSet(Ptr(m, s)) /\ Count(m, s) \in Nat
<1>1. IsFiniteSet(Ref)
  <2>1. /\ IsFiniteSet({"at"}) /\ IsFiniteSet({"ip"}) /\ IsFiniteSet({"dp"})
        /\ IsFiniteSet({"put"}) /\ IsFiniteSet({"cwd"}) /\ IsFiniteSet({"fd"})
    BY FS_Singleton
  <2>2. IsFiniteSet({"at"} \cup {"ip"}) /\ IsFiniteSet({"dp"} \cup {"put"})
    BY <2>1, FS_Union
  <2>3. IsFiniteSet(({"at"} \cup {"ip"}) \cup ({"dp"} \cup {"put"}))
    BY <2>2, FS_Union
  <2>4. IsFiniteSet({"cwd"} \cup {"fd"})
    BY <2>1, FS_Union
  <2>5. Ref = (({"at"} \cup {"ip"}) \cup ({"dp"} \cup {"put"})) \cup ({"cwd"} \cup {"fd"})
    BY DEF Ref
  <2> QED BY <2>3, <2>4, <2>5, FS_Union
<1>2. IsFiniteSet(Proc \X Ref)
  BY <1>1, Facts, FS_Product
<1>3. IsFiniteSet(Ptr(m, s))
  BY <1>2, FS_Subset DEF Ptr
<1> QED BY <1>3, FS_CardinalityType DEF Count

\* One pointer is set: it leaves a slot and comes to another.
Put(m, p, k, v) == [m EXCEPT ![p][k] = v]

LEMMA PutIs ==
    ASSUME NEW m \in Pointers, NEW p \in Proc, NEW k \in Ref, NEW v \in Slot \cup {Null}
    PROVE  /\ Put(m, p, k, v) \in Pointers /\ Put(m, p, k, v)[p][k] = v
           /\ \A l \in Ref : l # k => Put(m, p, k, v)[p][l] = m[p][l]
           /\ \A q \in Proc : q # p => Put(m, p, k, v)[q] = m[q]
BY DEF Pointers, Put

LEMMA PtrSet ==
    ASSUME NEW m \in Pointers, NEW p \in Proc, NEW k \in Ref, NEW v \in Slot \cup {Null},
           NEW s \in Slot
    PROVE  LET n == Put(m, p, k, v)
           IN  /\ m[p][k] = s /\ v # s => Count(n, s) = Count(m, s) - 1
               /\ m[p][k] # s /\ v = s => Count(n, s) = Count(m, s) + 1
               /\ (m[p][k] = s <=> v = s) => Count(n, s) = Count(m, s)
<1> DEFINE n == Put(m, p, k, v)
<1>1. /\ n \in Pointers /\ n[p][k] = v
      /\ \A q \in Proc, l \in Ref : <<q, l>> # <<p, k>> => n[q][l] = m[q][l]
  BY PutIs
<1> HIDE DEF n
<1>2. CASE m[p][k] = s /\ v # s
  <2>1. Ptr(n, s) = Ptr(m, s) \ {<<p, k>>} /\ <<p, k>> \in Ptr(m, s)
    BY <1>1, <1>2 DEF Ptr
  <2>2. Cardinality(Ptr(n, s)) = Cardinality(Ptr(m, s)) - 1
    <3>1. IsFiniteSet(Ptr(m, s))
      BY PtrFinite
    <3>2. Cardinality(Ptr(m, s) \ {<<p, k>>}) = Cardinality(Ptr(m, s)) - 1
      BY <2>1, <3>1, FS_RemoveElement
    <3> QED BY <2>1, <3>2
  <2> QED BY <1>2, <2>2 DEF Count, n
<1>3. CASE m[p][k] # s /\ v = s
  <2>1. Ptr(n, s) = Ptr(m, s) \cup {<<p, k>>} /\ <<p, k>> \notin Ptr(m, s)
    BY <1>1, <1>3 DEF Ptr
  <2>2. Cardinality(Ptr(n, s)) = Cardinality(Ptr(m, s)) + 1
    BY <2>1, PtrFinite, FS_AddElement
  <2> QED BY <1>3, <2>2 DEF Count, n
<1>4. CASE m[p][k] = s <=> v = s
  <2>1. Ptr(n, s) = Ptr(m, s)
    BY <1>1, <1>4 DEF Ptr
  <2> QED BY <1>4, <2>1 DEF Count, n
<1> QED BY <1>2, <1>3, <1>4

\* A pointer goes from k to l, as iput() takes its argument.
Move(m, p, k, l) == Put(Put(m, p, l, m[p][k]), p, k, Null)

LEMMA MoveIs ==
    ASSUME NEW m \in Pointers, NEW p \in Proc, NEW k \in Ref, NEW l \in Ref, k # l,
           m[p][l] = Null
    PROVE  /\ Move(m, p, k, l) \in Pointers
           /\ \A s \in Slot : Count(Move(m, p, k, l), s) = Count(m, s)
           /\ Move(m, p, k, l)[p][k] = Null /\ Move(m, p, k, l)[p][l] = m[p][k]
           /\ \A j \in Ref : j # k /\ j # l => Move(m, p, k, l)[p][j] = m[p][j]
           /\ \A q \in Proc : q # p => Move(m, p, k, l)[q] = m[q]
<1> DEFINE v == m[p][k]
           o == Put(m, p, l, v)
           n == Put(o, p, k, Null)
<1>1. v \in Slot \cup {Null} /\ Null \in Slot \cup {Null} /\ Null \notin Slot
  BY Facts DEF Pointers
<1>2. /\ o \in Pointers /\ o[p][l] = v /\ o[p][k] = v
      /\ \A j \in Ref : j # l => o[p][j] = m[p][j]
      /\ \A q \in Proc : q # p => o[q] = m[q]
  BY <1>1, PutIs
<1>3. /\ n \in Pointers /\ n[p][k] = Null /\ n[p][l] = v
      /\ \A j \in Ref : j # k => n[p][j] = o[p][j]
      /\ \A q \in Proc : q # p => n[q] = o[q]
  BY <1>1, <1>2, PutIs
<1>4. ASSUME NEW s \in Slot
      PROVE  Count(n, s) = Count(m, s)
  <2>1. /\ v = s => Count(o, s) = Count(m, s) + 1
        /\ v # s => Count(o, s) = Count(m, s)
    BY <1>1, PtrSet
  <2>2. /\ v = s => Count(n, s) = Count(o, s) - 1
        /\ v # s => Count(n, s) = Count(o, s)
    BY <1>1, <1>2, PtrSet
  <2> QED BY <2>1, <2>2, PtrFinite
<1> QED BY <1>2, <1>3, <1>4 DEF Move

\* Slots with pointers have an inode.
LEMMA Pointed ==
    ASSUME NEW f, NEW m \in Pointers, Counted(f, m), NEW p \in Proc, NEW k \in Ref,
           NEW s \in Slot, m[p][k] = s
    PROVE  f[s].ref > 0 /\ f[s].inum \in Inum
<1>1. <<p, k>> \in Ptr(m, s)
  BY DEF Ptr
<1>2. Count(m, s) # 0 /\ Count(m, s) \in Nat
  BY <1>1, PtrFinite, FS_EmptySet DEF Count
<1> QED BY <1>2 DEF Counted

\* The last pointer is the only one.
LEMMA Only ==
    ASSUME NEW f, NEW m \in Pointers, Counted(f, m), NEW p \in Proc, NEW k \in Ref,
           NEW s \in Slot, m[p][k] = s, f[s].ref = 1, NEW q \in Proc, NEW l \in Ref,
           m[q][l] = s
    PROVE  q = p /\ l = k
<1>1. Cardinality(Ptr(m, s)) = 1 /\ IsFiniteSet(Ptr(m, s))
  BY PtrFinite DEF Counted, Count
<1>2. <<p, k>> \in Ptr(m, s) /\ <<q, l>> \in Ptr(m, s)
  BY DEF Ptr
<1>3. \E x : Ptr(m, s) = {x}
  BY <1>1, FS_Singleton
<1> QED BY <1>2, <1>3

\* Pointers move between processes' variables, and slots stay with their inodes.
LEMMA SameCount ==
    ASSUME NEW f, NEW m, Counted(f, m), NEW g, NEW n,
           \A s \in Slot : /\ g[s].ref = f[s].ref /\ g[s].inum = f[s].inum
                           /\ f[s].ref = 0 => g[s] = f[s]
                           /\ Count(n, s) = Count(m, s)
    PROVE  Counted(g, n)
BY DEF Counted

\* The first of some slots is one of them.
LEMMA FirstSlot == ASSUME NEW S \in SUBSET Slot, S # {} PROVE Min(S) \in S
<1>1. S \in SUBSET Nat
  BY Facts
<1>2. PICK x \in S : \A y \in S : <<y, x>> \notin OpToRel(<, Nat)
  BY <1>1, NatLessThanWellFounded, WFMin
<1>3. \A y \in S : ~(y < x)
  BY <1>1, <1>2 DEF OpToRel
<1>4. \A y \in S : x <= y
  BY <1>1, <1>3
<1> QED BY <1>4 DEF Min

\* iget(): the slot it returns, and what is in it.
CanGet(f, i) == \E s \in Slot : f[s].ref = 0 \/ f[s].inum = i

LEMMA SlotIs ==
    ASSUME NEW f \in [Slot -> Inode], NEW m, Counted(f, m), NEW i \in Inum, CanGet(f, i)
    PROVE  /\ SlotOf(f, i) \in Slot
           /\ f[SlotOf(f, i)].ref > 0 => f[SlotOf(f, i)].inum = i
           /\ f[SlotOf(f, i)].ref = 0 => \A s \in Slot : f[s].inum # i
<1> DEFINE with == {s \in Slot : f[s].ref > 0 /\ f[s].inum = i}
           free == {s \in Slot : f[s].ref = 0}
<1>1. \A s \in Slot : /\ f[s].ref \in Nat
                      /\ f[s].ref = 0 => f[s].inum # i
  BY Facts DEF Counted, Inode, NoInode
<1>2. with \in SUBSET Slot /\ free \in SUBSET Slot
  OBVIOUS
<1>3. CASE with # {}
  <2>1. Min(with) \in with
    BY <1>2, <1>3, FirstSlot
  <2>2. SlotOf(f, i) = Min(with)
    BY <1>3 DEF SlotOf
  <2> HIDE DEF with
  <2>3. SlotOf(f, i) \in with
    BY <2>1, <2>2
  <2> QED BY <1>1, <2>3 DEF with
<1>4. CASE with = {}
  <2>1. \A s \in Slot : f[s].inum # i
    BY <1>1, <1>4
  <2>2. free # {}
    BY <2>1 DEF CanGet
  <2>3. Min(free) \in free
    BY <1>2, <2>2, FirstSlot
  <2>4. SlotOf(f, i) = Min(free)
    BY <1>4 DEF SlotOf
  <2> HIDE DEF free
  <2>5. SlotOf(f, i) \in free
    BY <2>3, <2>4
  <2> QED BY <2>1, <2>5 DEF free
<1> QED BY <1>3, <1>4

LEMMA GottenIs ==
    ASSUME NEW f \in [Slot -> Inode], NEW m, Counted(f, m), NEW i \in Inum, CanGet(f, i)
    PROVE  LET g == Gotten(f, i)
               t == SlotOf(f, i)
           IN  /\ g \in [Slot -> Inode] /\ t \in Slot
               /\ g[t].inum = i /\ g[t].ref = f[t].ref + 1
               /\ f[t].ref > 0 => f[t].inum = i
               /\ f[t].ref = 0 => ~g[t].valid /\ \A s \in Slot : f[s].inum # i
               /\ \A s \in Slot : s # t => g[s] = f[s]
               /\ \A s \in Slot : g[s].holder = f[s].holder
               /\ \A s \in Slot : g[s].valid =>
                    f[s].valid /\ g[s].inum = f[s].inum /\ g[s].type = f[s].type
                    /\ g[s].nlink = f[s].nlink
<1> DEFINE g == Gotten(f, i)
           t == SlotOf(f, i)
<1>1. t \in Slot /\ (f[t].ref > 0 => f[t].inum = i)
      /\ (f[t].ref = 0 => \A s \in Slot : f[s].inum # i)
  BY SlotIs
<1>2. f[t] \in Inode /\ f[t].ref \in Nat /\ (f[t].ref = 0 => f[t] = NoInode)
  BY <1>1 DEF Counted, Inode
<1>3. g = [f EXCEPT ![t] = IF f[t].ref > 0 THEN [f[t] EXCEPT !.ref = f[t].ref + 1]
                           ELSE [NoInode EXCEPT !.inum = i, !.ref = 1]]
  BY DEF Gotten
<1> HIDE DEF t, g
<1>4. \A s \in Slot : s # t => g[s] = f[s]
  BY <1>1, <1>3
<1>5. CASE f[t].ref > 0
  <2>1. g[t] = [f[t] EXCEPT !.ref = f[t].ref + 1]
    BY <1>1, <1>3, <1>5
  <2>2. g[t] \in Inode
    BY <1>2, <2>1 DEF Inode
  <2>3. /\ g[t].inum = i /\ g[t].ref = f[t].ref + 1 /\ g[t].holder = f[t].holder
        /\ g[t].valid = f[t].valid /\ g[t].type = f[t].type /\ g[t].nlink = f[t].nlink
        /\ g[t].inum = f[t].inum
    BY <1>1, <1>2, <1>5, <2>1 DEF Inode
  <2>4. g \in [Slot -> Inode]
    BY <1>1, <1>3, <2>1, <2>2, <1>5
  <2> QED BY <1>1, <1>2, <1>4, <1>5, <2>3, <2>4 DEF t, g
<1>6. CASE f[t].ref = 0
  <2>1. g[t] = [NoInode EXCEPT !.inum = i, !.ref = 1]
    BY <1>1, <1>2, <1>3, <1>6
  <2>2. g[t] \in Inode /\ g[t].inum = i /\ g[t].ref = 1 /\ g[t].holder = NoProc /\ ~g[t].valid
    <3>1. g[t] = [inum |-> i, ref |-> 1, valid |-> FALSE, type |-> "free", nlink |-> 0,
                  holder |-> NoProc]
      BY <2>1 DEF NoInode
    <3> QED BY <3>1 DEF Inode, Type, Link
  <2>3. g \in [Slot -> Inode]
    BY <1>1, <1>3, <2>1, <2>2, <1>6
  <2>4. f[t].holder = NoProc
    BY <1>2, <1>6 DEF NoInode
  <2> QED BY <1>1, <1>2, <1>4, <1>6, <2>2, <2>3, <2>4 DEF t, g
<1> QED BY <1>2, <1>5, <1>6

\* With a pointer to the slot that iget() has found, everything is counted again.
LEMMA GetCount ==
    ASSUME NEW f \in [Slot -> Inode], NEW m \in Pointers, Counted(f, m),
           NEW i \in Inum, CanGet(f, i), NEW n,
           \A s \in Slot : Count(n, s) = Count(m, s) + (IF s = SlotOf(f, i) THEN 1 ELSE 0)
    PROVE  Counted(Gotten(f, i), n)
<1> DEFINE g == Gotten(f, i)
           t == SlotOf(f, i)
<1>1. /\ t \in Slot /\ g[t].inum = i /\ g[t].ref = f[t].ref + 1
      /\ f[t].ref > 0 => f[t].inum = i
      /\ f[t].ref = 0 => \A s \in Slot : f[s].inum # i
      /\ \A s \in Slot : s # t => g[s] = f[s]
  BY GottenIs
<1>2. \A s \in Slot : f[s].ref \in Nat
  BY DEF Inode
<1>3. \A s \in Slot : Count(n, s) = Count(m, s) + (IF s = t THEN 1 ELSE 0)
  OBVIOUS
<1> HIDE DEF g, t
<1>4. ASSUME NEW s \in Slot
      PROVE  /\ g[s].ref = Count(n, s)
             /\ IF g[s].ref = 0 THEN g[s] = NoInode ELSE g[s].inum \in Inum
  <2>1. CASE s = t
    BY <1>1, <1>2, <1>3, <2>1 DEF Counted
  <2>2. CASE s # t
    BY <1>1, <1>2, <1>3, <2>2, PtrFinite DEF Counted
  <2> QED BY <2>1, <2>2
<1>5. ASSUME NEW s \in Slot, NEW u \in Slot, g[s].ref > 0, g[u].ref > 0, g[s].inum = g[u].inum
      PROVE  s = u
  <2>1. f[t].ref = 0 \/ f[t].ref > 0
    BY <1>1, <1>2
  <2>2. CASE s # t /\ u # t
    BY <1>1, <1>5, <2>2 DEF Counted
  <2>3. CASE s = t /\ u # t
    BY <1>1, <1>5, <2>1, <2>3 DEF Counted
  <2>4. CASE s # t /\ u = t
    BY <1>1, <1>5, <2>1, <2>4 DEF Counted
  <2> QED BY <2>2, <2>3, <2>4
<1> QED BY <1>4, <1>5 DEF Counted, g

LEMMA GetValid ==
    ASSUME NEW f \in [Slot -> Inode], NEW m, Counted(f, m), NEW i \in Inum, CanGet(f, i),
           NEW d, Valid(f, d)
    PROVE  Valid(Gotten(f, i), d)
<1>1. \A s \in Slot : Gotten(f, i)[s].valid =>
        /\ f[s].valid /\ Gotten(f, i)[s].inum = f[s].inum
        /\ Gotten(f, i)[s].type = f[s].type /\ Gotten(f, i)[s].nlink = f[s].nlink
  BY GottenIs
<1> QED BY <1>1 DEF Valid, ValidAt

\* The end of iput().
Dropped(f, s) == [f EXCEPT ![s] = IF f[s].ref = 1 THEN NoInode ELSE [f[s] EXCEPT !.ref = f[s].ref - 1]]

LEMMA DropCount ==
    ASSUME NEW f \in [Slot -> Inode], NEW m, Counted(f, m), NEW s \in Slot, f[s].ref > 0, NEW n,
           Count(n, s) = Count(m, s) - 1,
           \A t \in Slot : t # s => Count(n, t) = Count(m, t)
    PROVE  /\ Dropped(f, s) \in [Slot -> Inode] /\ Counted(Dropped(f, s), n)
           /\ \A d : Valid(f, d) => Valid(Dropped(f, s), d)
           /\ \A t \in Slot : t # s => Dropped(f, s)[t] = f[t]
           /\ Dropped(f, s)[s].holder = IF f[s].ref = 1 THEN NoProc ELSE f[s].holder
<1> DEFINE g == Dropped(f, s)
<1>1. f[s] \in Inode /\ f[s].ref \in Nat /\ \A t \in Slot : t # s => g[t] = f[t]
  BY DEF Dropped, Inode
<1>2. CASE f[s].ref = 1
  <2>1. g[s] = NoInode
    BY <1>2 DEF Dropped
  <2>2. g[s] = [inum |-> Null, ref |-> 0, valid |-> FALSE, type |-> "free", nlink |-> 0,
                holder |-> NoProc]
    BY <2>1 DEF NoInode
  <2>3. g[s] \in Inode /\ g[s].ref = 0 /\ ~g[s].valid /\ g[s].holder = NoProc
    BY <2>2 DEF Inode, Type, Link
  <2>4. g \in [Slot -> Inode]
    BY <1>2, <2>1, <2>3 DEF Dropped
  <2> HIDE DEF g
  <2>5. Counted(g, n)
    BY <1>1, <1>2, <2>1, <2>3 DEF Counted
  <2>6. \A d : Valid(f, d) => Valid(g, d)
    BY <1>1, <2>3 DEF Valid, ValidAt
  <2> QED BY <1>1, <1>2, <2>3, <2>4, <2>5, <2>6 DEF g
<1>3. CASE f[s].ref # 1
  <2>1. g[s] = [f[s] EXCEPT !.ref = f[s].ref - 1]
    BY <1>3 DEF Dropped
  <2>2. f[s].ref - 1 \in Nat /\ f[s].ref - 1 > 0
    BY <1>1, <1>3
  <2>3. /\ g[s] \in Inode /\ g[s].ref = f[s].ref - 1 /\ g[s].inum = f[s].inum
        /\ g[s].valid = f[s].valid /\ g[s].type = f[s].type /\ g[s].nlink = f[s].nlink
        /\ g[s].holder = f[s].holder
    BY <1>1, <2>1, <2>2 DEF Inode
  <2>4. g \in [Slot -> Inode]
    BY <1>3, <2>1, <2>3 DEF Dropped
  <2> HIDE DEF g
  <2>5. Counted(g, n)
    BY <1>1, <2>2, <2>3 DEF Counted
  <2>6. \A d : Valid(f, d) => Valid(g, d)
    BY <1>1, <2>3 DEF Valid, ValidAt
  <2> QED BY <1>1, <1>3, <2>3, <2>4, <2>5, <2>6 DEF g
<1> QED BY <1>2, <1>3

-----------------------------------------------------------------------------
(* What a step of one process leaves alone. *)

Alone(p) ==
    \A q \in Proc : q # p =>
      /\ my'[q] = my[q] /\ pc'[q] = pc[q] /\ ret'[q] = ret[q]
      /\ call'[q] = call[q] /\ path'[q] = path[q]

\* p keeps its lock, lets it go, or gets one that nobody has.
LocksOf(p) ==
    /\ \A s \in Slot : slot'[s].holder =
         IF s = Holds(p)' THEN p ELSE IF s = Holds(p) THEN NoProc ELSE slot[s].holder
    /\ Holds(p)' # Null => Holds(p)' \in Slot
    /\ Holds(p)' # Null /\ Holds(p)' # Holds(p) => slot[Holds(p)'].holder = NoProc

LEMMA HoldsSlot ==
    ASSUME TypeOK, NEW p \in Proc
    PROVE  Holds(p) \in Slot \cup {Null}
<1>1. my[p].dp \in Slot \cup {Null} /\ my[p].ip \in Slot \cup {Null}
  BY DEF TypeOK, Ref
<1> QED BY <1>1 DEF Holds

LEMMA StepInv ==
    ASSUME InodesInv, NEW p \in Proc, Alone(p), TypeOK', RefsOf(p)', CallOf(p)', LocksOf(p),
           Counted(slot', my'), Valid(slot', dinode')
    PROVE  InodesInv'
<1>1. ASSUME NEW q \in Proc, q # p
      PROVE  RefsOf(q)' /\ CallOf(q)' /\ Holds(q)' = Holds(q)
  <2>1. /\ my'[q] = my[q] /\ pc'[q] = pc[q] /\ ret'[q] = ret[q]
        /\ call'[q] = call[q] /\ path'[q] = path[q]
    BY <1>1 DEF Alone
  <2>2. RefsOf(q) /\ CallOf(q)
    BY DEF InodesInv, ProcInv
  <2> QED BY <2>1, <2>2 DEF RefsOf, CallOf, Holds, Where, WantsParent
<1>2. ProcInv'
  BY <1>1 DEF ProcInv
<1>3. ASSUME NEW s \in Slot, NEW q \in Proc
      PROVE  slot'[s].holder = q <=> Holds(q)' = s
  <2>1. (slot[s].holder = q <=> Holds(q) = s) /\ (slot[s].holder = p <=> Holds(p) = s)
    BY DEF InodesInv, LockInv
  <2>2. q # NoProc /\ p # NoProc /\ s # Null
    BY Facts
  <2>3. CASE q = p
    <3>1. slot'[s].holder = IF s = Holds(p)' THEN p ELSE IF s = Holds(p) THEN NoProc ELSE slot[s].holder
      BY DEF LocksOf
    <3> QED BY <2>1, <2>2, <2>3, <3>1
  <2>4. CASE q # p
    <3>1. Holds(q)' = Holds(q)
      BY <1>1, <2>4
    <3>2. CASE s = Holds(p)'
      <4>1. s = Holds(p) \/ slot[s].holder = NoProc
        BY <2>2, <3>2 DEF LocksOf
      <4>2. slot'[s].holder = p
        BY <3>2 DEF LocksOf
      <4> QED BY <2>1, <2>2, <2>4, <3>1, <4>1, <4>2
    <3>3. CASE s # Holds(p)'
      <4>1. slot'[s].holder = IF s = Holds(p) THEN NoProc ELSE slot[s].holder
        BY <3>3 DEF LocksOf
      <4> QED BY <2>1, <2>2, <2>4, <3>1, <4>1
    <3> QED BY <3>2, <3>3
  <2> QED BY <2>3, <2>4
<1> QED BY <1>2, <1>3 DEF InodesInv, LockInv

-----------------------------------------------------------------------------
(* The pieces that actions are made of. *)

LEMMA Types ==
    ASSUME InodesInv
    PROVE  /\ dinode \in [Inum -> Dinode] /\ slot \in [Slot -> Inode] /\ my \in Pointers
           /\ pc \in [Proc -> Label] /\ ret \in [Proc -> Label \ {"put", "drop"}]
           /\ path \in [Proc -> Path]
           /\ call \in [Proc -> Calls]
           /\ Counted(slot, my) /\ Valid(slot, dinode)
           /\ \A p \in Proc : RefsOf(p) /\ CallOf(p)
BY DEF InodesInv, TypeOK, ProcInv, Pointers

\* What a pointer points at.
LEMMA PointerAt ==
    ASSUME InodesInv, NEW p \in Proc, NEW k \in Ref, my[p][k] # Null
    PROVE  /\ my[p][k] \in Slot /\ slot[my[p][k]] \in Inode /\ slot[my[p][k]].ref > 0
           /\ slot[my[p][k]].inum \in Inum /\ On(my[p][k]) \in Dinode
<1>1. my[p][k] \in Slot
  BY Types DEF Pointers
<1> QED BY <1>1, Types, Pointed DEF On

\* ilock()
LEMMA LockIs ==
    ASSUME InodesInv, NEW s \in Slot, slot[s].ref > 0, CanLock(s), NEW q \in Proc \cup {NoProc}
    PROVE  /\ Locked(s, q) \in Inode
           /\ Locked(s, q).ref = slot[s].ref /\ Locked(s, q).inum = slot[s].inum
           /\ Locked(s, q).holder = q /\ Locked(s, q).valid
           /\ Locked(s, q).type = On(s).type /\ Locked(s, q).type # "free"
           /\ Locked(s, q).nlink = On(s).nlink
           /\ slot[s].holder = NoProc
<1>1. slot[s] \in Inode /\ slot[s].inum \in Inum /\ On(s) \in Dinode /\ slot[s].valid \in BOOLEAN
  BY Types DEF Counted, On, Inode
<1>2. slot[s].valid => slot[s].type = On(s).type /\ slot[s].type # "free" /\ slot[s].nlink = On(s).nlink
  BY Types DEF Valid, ValidAt, On
<1>3. slot[s].holder = NoProc /\ (slot[s].valid \/ On(s).type # "free")
  BY DEF CanLock, Unlocked
<1>4. Locked(s, q) = [slot[s] EXCEPT !.holder = q, !.valid = TRUE,
                                     !.type = On(s).type, !.nlink = On(s).nlink]
  BY <1>1, <1>2 DEF Locked, Inode
<1>5. On(s).type \in Type /\ On(s).nlink \in Int
  BY <1>1 DEF Dinode
<1> QED BY <1>1, <1>2, <1>3, <1>4, <1>5 DEF Inode

\* The slots after ilock(), by q or let go again.
Relocked(s, q) == [slot EXCEPT ![s] = Locked(s, q)]

LEMMA LockedSlots ==
    ASSUME InodesInv, NEW s \in Slot, slot[s].ref > 0, CanLock(s), NEW q \in Proc \cup {NoProc}
    PROVE  LET f == Relocked(s, q)
           IN  /\ f \in [Slot -> Inode] /\ Counted(f, my) /\ Valid(f, dinode)
               /\ f[s] = Locked(s, q) /\ \A t \in Slot : t # s => f[t] = slot[t]
<1> DEFINE f == Relocked(s, q)
<1>1. f[s] = Locked(s, q) /\ f \in [Slot -> Inode] /\ \A t \in Slot : t # s => f[t] = slot[t]
  BY LockIs, Types DEF Relocked
<1> HIDE DEF f
<1>2. Counted(f, my)
  <2>1. \A t \in Slot : /\ f[t].ref = slot[t].ref /\ f[t].inum = slot[t].inum
                        /\ slot[t].ref = 0 => f[t] = slot[t]
    BY <1>1, LockIs
  <2>2. Counted(slot, my)
    BY Types
  <2> QED BY <2>1, <2>2 DEF Counted
<1>3. Valid(f, dinode)
  BY <1>1, LockIs, Types DEF Valid, ValidAt, On
<1> QED BY <1>1, <1>2, <1>3 DEF f

LEMMA LockStep ==
    ASSUME InodesInv, NEW p \in Proc, NEW k \in Ref, my[p][k] # Null, CanLock(my[p][k]),
           NEW q \in Proc \cup {NoProc}
    PROVE  LET s == my[p][k]
           IN  /\ s \in Slot /\ slot[s].ref > 0 /\ slot[s].holder = NoProc /\ On(s) \in Dinode
               /\ slot[s].inum \in Inum
               /\ Relocked(s, q) \in [Slot -> Inode] /\ Counted(Relocked(s, q), my)
               /\ Valid(Relocked(s, q), dinode)
               /\ Relocked(s, q)[s] = Locked(s, q)
               /\ \A t \in Slot : t # s => Relocked(s, q)[t] = slot[t]
               /\ \A t \in Slot : Relocked(s, q)[t].holder = IF t = s THEN q ELSE slot[t].holder
               /\ \A t \in Slot : Relocked(s, q)[t].inum = slot[t].inum
               /\ Relocked(s, q)[s].valid /\ Relocked(s, q)[s].type = On(s).type
               /\ Relocked(s, q)[s].type # "free" /\ Relocked(s, q)[s].nlink = On(s).nlink
               /\ Relocked(s, q)[s].ref = slot[s].ref
<1> DEFINE s == my[p][k]
           f == Relocked(s, q)
<1>1. s \in Slot /\ slot[s].ref > 0 /\ On(s) \in Dinode /\ slot[s].inum \in Inum
  BY PointerAt
<1>2. /\ f \in [Slot -> Inode] /\ Counted(f, my) /\ Valid(f, dinode)
      /\ f[s] = Locked(s, q) /\ \A t \in Slot : t # s => f[t] = slot[t]
  BY <1>1, LockedSlots
<1> HIDE DEF f
<1>3. /\ Locked(s, q).inum = slot[s].inum /\ Locked(s, q).ref = slot[s].ref
      /\ Locked(s, q).holder = q /\ Locked(s, q).valid
      /\ Locked(s, q).type = On(s).type /\ Locked(s, q).type # "free"
      /\ Locked(s, q).nlink = On(s).nlink /\ slot[s].holder = NoProc
  BY <1>1, LockIs
<1> QED BY <1>1, <1>2, <1>3 DEF f

\* iput() is called.
LEMMA IputIs ==
    ASSUME InodesInv, NEW p \in Proc, NEW k \in Ref, my[p][k] # Null,
           pc[p] \notin {"put", "drop"}, NEW l \in Label \ {"put", "drop"}, Iput(p, k, l)
    PROVE  /\ my' \in Pointers /\ \A s \in Slot : Count(my', s) = Count(my, s)
           /\ my'[p][k] = Null /\ my'[p].put = my[p][k]
           /\ \A j \in Ref : j # k /\ j # "put" => my'[p][j] = my[p][j]
           /\ \A q \in Proc : q # p => my'[q] = my[q] /\ pc'[q] = pc[q] /\ ret'[q] = ret[q]
           /\ pc' \in [Proc -> Label] /\ ret' \in [Proc -> Label \ {"put", "drop"}]
           /\ pc'[p] = "put" /\ ret'[p] = l /\ Where(p)' = l
<1>1. my[p].put = Null /\ "put" \in Ref
  BY Types DEF RefsOf, Ref
<1>2. my' = Move(my, p, k, "put")
  BY DEF Iput, Move, Put
<1>3. pc' = [pc EXCEPT ![p] = "put"] /\ ret' = [ret EXCEPT ![p] = l] /\ "put" \in Label
  BY DEF Iput, Goto, Label
<1>4. /\ pc' \in [Proc -> Label] /\ ret' \in [Proc -> Label \ {"put", "drop"}]
      /\ pc'[p] = "put" /\ ret'[p] = l
      /\ \A q \in Proc : q # p => pc'[q] = pc[q] /\ ret'[q] = ret[q]
  BY <1>3, Types
<1>5. k # "put"
  BY <1>1
<1> QED BY <1>1, <1>2, <1>4, <1>5, Types, MoveIs DEF Where

LEMMA IputMy ==
    ASSUME InodesInv, NEW p \in Proc, NEW k \in Ref, my[p][k] # Null,
           pc[p] \notin {"put", "drop"}, NEW l \in Label \ {"put", "drop"}, Iput(p, k, l)
    PROVE  /\ pc'[p] = "put" /\ Where(p)' = l /\ my'[p].put # Null /\ my'[p][k] = Null
           /\ my'[p].at = IF k = "at" THEN Null ELSE my[p].at
           /\ my'[p].ip = IF k = "ip" THEN Null ELSE my[p].ip
           /\ my'[p].dp = IF k = "dp" THEN Null ELSE my[p].dp
           /\ my'[p].cwd = IF k = "cwd" THEN Null ELSE my[p].cwd
<1>1. /\ my'[p][k] = Null /\ my'[p].put # Null
      /\ \A j \in Ref : j # k /\ j # "put" => my'[p][j] = my[p][j]
  BY IputIs
<1>2. pc'[p] = "put" /\ Where(p)' = l
  BY IputIs
<1> QED BY <1>1, <1>2 DEF Ref

LEMMA Moved ==
    ASSUME InodesInv, NEW p \in Proc, NEW k \in Ref, NEW l \in Ref, k # l, my[p][l] = Null,
           my' = Move(my, p, k, l)
    PROVE  /\ my' \in Pointers
           /\ \A s \in Slot : Count(my', s) = Count(my, s)
           /\ my'[p][k] = Null /\ my'[p][l] = my[p][k]
           /\ \A j \in Ref : j # k /\ j # l => my'[p][j] = my[p][j]
           /\ \A q \in Proc : q # p => my'[q] = my[q]
BY Types, MoveIs

LEMMA Recounted ==
    ASSUME NEW f, NEW m, Counted(f, m), NEW n, \A s \in Slot : Count(n, s) = Count(m, s)
    PROVE  Counted(f, n)
BY SameCount

\* A slot is read, let go, and given back: the end of a call that fails.
LEMMA ReadPut ==
    ASSUME InodesInv, NEW p \in Proc, NEW k \in Ref, my[p][k] # Null,
           pc[p] \notin {"put", "drop"}, NEW l \in Label \ {"put", "drop"}, Iput(p, k, l),
           CanLock(my[p][k]), slot' = [slot EXCEPT ![my[p][k]] = Read(my[p][k])],
           UNCHANGED <<dinode, call, path>>,
           RefsOf(p)', CallOf(p)', Holds(p)' = Holds(p)
    PROVE  InodesInv'
<1> DEFINE s == my[p][k]
<1>1. s \in Slot /\ slot[s].ref > 0
  BY PointerAt
<1>2. /\ slot' \in [Slot -> Inode] /\ Counted(slot', my) /\ Valid(slot', dinode)
      /\ slot'[s] = Locked(s, NoProc) /\ \A t \in Slot : t # s => slot'[t] = slot[t]
  <2>1. NoProc \in Proc \cup {NoProc} /\ slot' = Relocked(s, NoProc)
    BY DEF Read, Relocked
  <2>2. Relocked(s, NoProc)[s] = Locked(s, NoProc)
        /\ \A t \in Slot : t # s => Relocked(s, NoProc)[t] = slot[t]
    BY <2>1, LockStep
  <2>3. /\ Relocked(s, NoProc) \in [Slot -> Inode] /\ Counted(Relocked(s, NoProc), my)
        /\ Valid(Relocked(s, NoProc), dinode)
    BY <2>1, LockStep
  <2> QED BY <2>1, <2>2, <2>3
<1>3. slot[s].holder = NoProc /\ slot'[s].holder = NoProc
  BY <1>1, <1>2, LockIs
<1>4. /\ my' \in Pointers /\ \A t \in Slot : Count(my', t) = Count(my, t)
      /\ pc' \in [Proc -> Label] /\ ret' \in [Proc -> Label \ {"put", "drop"}]
  BY IputIs
<1>5. Counted(slot', my')
  BY <1>2, <1>4, SameCount
<1>6. TypeOK'
  BY <1>2, <1>4, Types DEF TypeOK, Pointers
<1>7. Alone(p)
  BY IputIs DEF Alone
<1>8. LocksOf(p)
  <2>1. \A t \in Slot : slot'[t].holder = slot[t].holder
    BY <1>2, <1>3
  <2>2. \A t \in Slot : slot[t].holder = p <=> Holds(p) = t
    BY DEF InodesInv, LockInv
  <2> QED BY <2>1, <2>2, HoldsSlot DEF LocksOf, InodesInv
<1> QED BY <1>2, <1>5, <1>6, <1>7, <1>8, StepInv

LEMMA LocksSame ==
    ASSUME InodesInv, NEW p \in Proc, Holds(p)' = Holds(p),
           \A t \in Slot : slot'[t].holder = slot[t].holder
    PROVE  LocksOf(p)
<1>1. \A t \in Slot : slot[t].holder = p <=> Holds(p) = t
  BY DEF InodesInv, LockInv
<1> QED BY <1>1, HoldsSlot DEF LocksOf, InodesInv

LEMMA GotoIs ==
    ASSUME InodesInv, NEW p \in Proc, NEW l \in Label, Goto(p, l)
    PROVE  /\ pc' \in [Proc -> Label] /\ pc'[p] = l
           /\ \A q \in Proc : q # p => pc'[q] = pc[q]
           /\ l \notin {"put", "drop"} => Where(p)' = l
           /\ l \in {"put", "drop"} => Where(p)' = ret'[p]
BY Types DEF Goto, Where

LEMMA ReturnIs ==
    ASSUME InodesInv, NEW p \in Proc, Return(p)
    PROVE  /\ pc' \in [Proc -> Label] /\ path' \in [Proc -> Path] /\ call' \in [Proc -> Calls]
           /\ pc'[p] = "user" /\ Where(p)' = "user"
           /\ \A q \in Proc : q # p => pc'[q] = pc[q] /\ call'[q] = call[q] /\ path'[q] = path[q]
<1>1. <<>> \in Path /\ NoCall \in Calls
  BY DEF Path, Calls
<1>2. "user" \in Label /\ Goto(p, "user")
  BY DEF Label, Return
<1>3. \A q \in Proc : q # p => call'[q] = call[q]
  BY DEF Return
<1> QED BY <1>1, <1>2, <1>3, GotoIs, Types DEF Return

\* Two slots that are in use have two inodes.
LEMMA Apart ==
    ASSUME NEW f \in [Slot -> Inode], NEW m, Counted(f, m), NEW s \in Slot, f[s].ref > 0,
           NEW t \in Slot, t # s, f[t].valid
    PROVE  f[t].inum # f[s].inum /\ f[t].inum \in Inum /\ f[t].ref > 0
<1>1. f[t].ref # 0 /\ f[t].ref \in Nat
  BY DEF Counted, NoInode, Inode
<1> QED BY <1>1 DEF Counted

\* iget(), and a pointer to what it found.
LEMMA GetStep ==
    ASSUME NEW f \in [Slot -> Inode], NEW m \in Pointers, Counted(f, m), NEW d, Valid(f, d),
           NEW i \in Inum, Iget(f, i), NEW p \in Proc, NEW k \in Ref, m[p][k] = Null,
           NEW n, n = Put(m, p, k, SlotOf(f, i))
    PROVE  /\ slot' \in [Slot -> Inode] /\ Counted(slot', n) /\ Valid(slot', d)
           /\ \A s \in Slot : slot'[s].holder = f[s].holder
           /\ SlotOf(f, i) \in Slot /\ n \in Pointers /\ n[p][k] = SlotOf(f, i)
           /\ \A j \in Ref : j # k => n[p][j] = m[p][j]
           /\ \A q \in Proc : q # p => n[q] = m[q]
<1> DEFINE t == SlotOf(f, i)
<1>1. CanGet(f, i) /\ slot' = Gotten(f, i)
  BY DEF Iget, CanGet
<1>2. t \in Slot /\ t # Null
  BY <1>1, SlotIs, Facts
<1>3. \A s \in Slot : Count(n, s) = Count(m, s) + (IF s = t THEN 1 ELSE 0)
  <2> SUFFICES ASSUME NEW s \in Slot
               PROVE  Count(n, s) = Count(m, s) + (IF s = t THEN 1 ELSE 0)
    OBVIOUS
  <2>1. Null # s /\ t \in Slot \cup {Null} /\ Count(m, s) \in Nat
    BY <1>2, Facts, PtrFinite
  <2> QED BY <1>2, <2>1, PtrSet
<1>4. Counted(slot', n)
  BY <1>1, <1>3, GetCount
<1>5. Valid(slot', d)
  BY <1>1, GetValid
<1>6. slot' \in [Slot -> Inode] /\ \A s \in Slot : slot'[s].holder = f[s].holder
  BY <1>1, GottenIs
<1>7. /\ n \in Pointers /\ n[p][k] = t
      /\ \A j \in Ref : j # k => n[p][j] = m[p][j]
      /\ \A q \in Proc : q # p => n[q] = m[q]
  BY <1>2, PutIs
<1> QED BY <1>2, <1>4, <1>5, <1>6, <1>7

-----------------------------------------------------------------------------
(* iput() *)

LEMMA IputCheckInv == ASSUME InodesInv, NEW p \in Proc, IputCheck(p) PROVE InodesInv'
<1> DEFINE s == my[p].put
           i == slot[s].inum
<1>1. /\ pc[p] = "put" /\ s # Null /\ "put" \in Ref /\ "drop" \in Label
      /\ slot[s].holder = NoProc
      /\ \/ /\ dinode' = [dinode EXCEPT ![i] = Free]
            /\ slot' = [slot EXCEPT ![s].type = "free", ![s].valid = FALSE]
         \/ UNCHANGED <<dinode, slot>>
      /\ Goto(p, "drop") /\ UNCHANGED <<my, ret, call, path>>
  BY Types DEF IputCheck, At, Unlocked, RefsOf, Ref, Label
<1>2. /\ s \in Slot /\ slot[s] \in Inode /\ slot[s].ref > 0 /\ i \in Inum
  BY <1>1, PointerAt
<1>3. /\ pc' \in [Proc -> Label] /\ pc'[p] = "drop" /\ Where(p)' = Where(p)
      /\ \A q \in Proc : q # p => pc'[q] = pc[q]
  BY <1>1, GotoIs DEF Where
<1>4. Alone(p)
  BY <1>1, <1>3 DEF Alone
<1>5. RefsOf(p)' /\ CallOf(p)'
  BY <1>1, <1>3, Types DEF RefsOf, CallOf, WantsParent
<1>6. Holds(p)' = Holds(p)
  BY <1>1, <1>3 DEF Holds
<1>7. /\ slot' \in [Slot -> Inode] /\ dinode' \in [Inum -> Dinode]
      /\ Counted(slot', my) /\ Valid(slot', dinode')
      /\ \A t \in Slot : slot'[t].holder = slot[t].holder
  <2>1. CASE UNCHANGED <<dinode, slot>>
    BY <2>1, Types
  <2>2. CASE /\ dinode' = [dinode EXCEPT ![i] = Free]
             /\ slot' = [slot EXCEPT ![s].type = "free", ![s].valid = FALSE]
    <3>1. Free \in Dinode
      BY DEF Free, Dinode, Type, Link
    <3>2. /\ slot'[s] \in Inode /\ ~slot'[s].valid /\ slot'[s].ref = slot[s].ref
          /\ slot'[s].inum = slot[s].inum /\ slot'[s].holder = slot[s].holder
          /\ \A t \in Slot : t # s => slot'[t] = slot[t]
      BY <1>2, <2>2, Types DEF Inode, Type
    <3>3. slot' \in [Slot -> Inode] /\ dinode' \in [Inum -> Dinode]
      BY <1>2, <2>2, <3>1, <3>2, Types
    <3>4. Counted(slot', my)
      BY <1>2, <3>2, Types DEF Counted
    <3>5. ASSUME NEW t \in Slot
          PROVE  ValidAt(slot', dinode', t)
      <4>1. t # s /\ slot[t].valid => slot[t].inum # i /\ slot[t].inum \in Inum
        BY <1>2, Types, Apart
      <4> QED BY <2>2, <3>2, <4>1, Types DEF Valid, ValidAt
    <3> QED BY <3>2, <3>3, <3>4, <3>5 DEF Valid
  <2> QED BY <1>1, <2>1, <2>2
<1>8. TypeOK'
  BY <1>1, <1>3, <1>7, Types DEF TypeOK, Pointers
<1>9. LocksOf(p)
  BY <1>6, <1>7, LocksSame
<1> QED BY <1>1, <1>4, <1>5, <1>7, <1>8, <1>9, StepInv

LEMMA IputDropInv == ASSUME InodesInv, NEW p \in Proc, IputDrop(p) PROVE InodesInv'
<1> DEFINE s == my[p].put
<1>1. /\ pc[p] = "drop" /\ s # Null /\ "put" \in Ref
      /\ slot' = Dropped(slot, s)
      /\ my' = Put(my, p, "put", Null)
      /\ ret' = [ret EXCEPT ![p] = "user"]
      /\ IF ret[p] = "user" THEN Return(p) ELSE Goto(p, ret[p]) /\ UNCHANGED <<call, path>>
      /\ dinode' = dinode
  <2>1. pc[p] = "drop" /\ s # Null /\ "put" \in Ref
    BY Types DEF IputDrop, At, RefsOf, Ref
  <2>2. slot' = Dropped(slot, s) /\ my' = Put(my, p, "put", Null)
    BY DEF IputDrop, Dropped, Put
  <2> QED BY <2>1, <2>2 DEF IputDrop
<1>2. s \in Slot /\ slot[s] \in Inode /\ slot[s].ref > 0 /\ Null \in Slot \cup {Null} /\ s # Null
  BY <1>1, PointerAt
<1>3. /\ my' \in Pointers /\ my'[p].put = Null
      /\ \A j \in Ref : j # "put" => my'[p][j] = my[p][j]
      /\ \A q \in Proc : q # p => my'[q] = my[q]
  BY <1>1, <1>2, Types, PutIs
<1>4. Count(my', s) = Count(my, s) - 1
  BY <1>1, <1>2, Types, PtrSet
<1>5. \A t \in Slot : t # s => Count(my', t) = Count(my, t)
  <2> SUFFICES ASSUME NEW t \in Slot, t # s
               PROVE  Count(my', t) = Count(my, t)
    OBVIOUS
  <2>1. Null # t
    BY Facts
  <2> QED BY <1>1, <1>2, <2>1, Types, PtrSet
<1>6. /\ slot' \in [Slot -> Inode] /\ Counted(slot', my') /\ Valid(slot', dinode')
      /\ \A t \in Slot : t # s => slot'[t] = slot[t]
      /\ slot'[s].holder = IF slot[s].ref = 1 THEN NoProc ELSE slot[s].holder
  BY <1>1, <1>2, <1>4, <1>5, Types, DropCount
<1>7. /\ pc' \in [Proc -> Label] /\ ret' \in [Proc -> Label \ {"put", "drop"}]
      /\ path' \in [Proc -> Path] /\ call' \in [Proc -> Calls]
      /\ pc'[p] = ret[p] /\ ret[p] \in Label \ {"put", "drop"}
      /\ Where(p)' = ret[p] /\ Where(p) = ret[p]
      /\ \A q \in Proc : q # p => /\ pc'[q] = pc[q] /\ ret'[q] = ret[q]
                                  /\ call'[q] = call[q] /\ path'[q] = path[q]
      /\ ret[p] # "user" => UNCHANGED <<call, path>>
  <2>1. ret[p] \in Label \ {"put", "drop"} /\ "user" \in Label \ {"put", "drop"}
    BY Types DEF Label
  <2>2. CASE ret[p] = "user"
    BY <1>1, <2>1, <2>2, ReturnIs, Types DEF Where
  <2>3. CASE ret[p] # "user"
    BY <1>1, <2>1, <2>3, GotoIs, Types DEF Where
  <2> QED BY <2>2, <2>3
<1>8. Alone(p)
  BY <1>3, <1>7 DEF Alone
<1>9. \A j \in {"at", "ip", "dp", "cwd"} : my'[p][j] = my[p][j]
  BY <1>3 DEF Ref
<1>10. RefsOf(p)'
  <2>1. RefsOf(p)
    BY Types
  <2>2. my'[p].at = my[p].at /\ my'[p].ip = my[p].ip /\ my'[p].dp = my[p].dp
        /\ my'[p].cwd = my[p].cwd
    BY <1>9
  <2>3. ret[p] \in {"walk", "unlock dp", "link"} => call' = call
    BY <1>7
  <2> QED BY <1>3, <1>7, <2>1, <2>2, <2>3 DEF RefsOf
<1>11. CallOf(p)'
  <2>1. CallOf(p)
    BY Types
  <2>2. my'[p].ip = my[p].ip
    BY <1>9
  <2>3. CASE ret[p] = "user"
    BY <1>7, <2>3 DEF CallOf, WithDp
  <2>4. CASE ret[p] # "user"
    BY <1>7, <2>1, <2>2, <2>4 DEF CallOf, WantsParent
  <2> QED BY <2>3, <2>4
<1>12. Holds(p)' = Holds(p)
  BY <1>7, <1>9 DEF Holds
<1>13. slot[s].ref = 1 => slot[s].holder = NoProc
  <2> SUFFICES ASSUME slot[s].ref = 1, slot[s].holder # NoProc
               PROVE  FALSE
    OBVIOUS
  <2>1. PICK q \in Proc : slot[s].holder = q
    BY <1>2 DEF Inode
  <2>2. Holds(q) = s
    BY <1>2, <2>1 DEF InodesInv, LockInv
  <2>3. my[q].dp = s \/ my[q].ip = s
    BY <1>2, <2>2, Facts DEF Holds
  <2>4. "dp" \in Ref /\ "ip" \in Ref
    BY DEF Ref
  <2> QED BY <1>1, <1>2, <2>3, <2>4, Types, Only
<1>14. LocksOf(p)
  <2>1. \A t \in Slot : slot'[t].holder = slot[t].holder
    BY <1>2, <1>6, <1>13
  <2> QED BY <1>12, <2>1, LocksSame
<1>15. TypeOK'
  BY <1>1, <1>3, <1>6, <1>7, Types DEF TypeOK, Pointers
<1> QED BY <1>6, <1>8, <1>10, <1>11, <1>14, <1>15, StepInv

-----------------------------------------------------------------------------
(* namex() *)

LEMMA WalkFailsInv == ASSUME InodesInv, NEW p \in Proc, WalkFails(p) PROVE InodesInv'
<1>1. /\ pc[p] = "walk" /\ Where(p) = "walk" /\ my[p].at # Null /\ "at" \in Ref
      /\ my[p].dp = Null /\ my[p].cwd # Null
      /\ my[p].ip # Null => call[p].op = "link"
  BY Types DEF WalkFails, At, Where, RefsOf, WithDp, Ref
<1>2. /\ Iput(p, "at", Failed(p)) /\ CanLock(my[p]["at"])
      /\ slot' = [slot EXCEPT ![my[p]["at"]] = Read(my[p]["at"])]
      /\ UNCHANGED <<dinode, call, path>>
  BY DEF WalkFails
<1>3. Failed(p) \in {"link undo", "user"} /\ (Failed(p) = "link undo" <=> my[p].ip # Null)
      /\ Failed(p) \in Label \ {"put", "drop"}
  BY <1>1 DEF Failed, Label
<1>4. /\ my'[p].at = Null /\ my'[p].put # Null /\ my'[p].ip = my[p].ip /\ my'[p].dp = Null
      /\ my'[p].cwd # Null /\ pc'[p] = "put" /\ Where(p)' = Failed(p)
  BY <1>1, <1>2, <1>3, IputMy
<1>5. call[p] \in Call /\ call' = call
  BY <1>1, <1>2, Types DEF CallOf
<1>6. RefsOf(p)' /\ CallOf(p)'
  BY <1>3, <1>4, <1>5 DEF RefsOf, CallOf, WithDp, WithIp
<1>7. Holds(p)' = Holds(p)
  BY <1>1, <1>3, <1>4 DEF Holds
<1> QED BY <1>1, <1>2, <1>3, <1>6, <1>7, ReadPut

\* Where a path starts.
LEMMA StartIs ==
    ASSUME InodesInv, NEW f \in [Slot -> Inode], Counted(f, my), NEW d, Valid(f, d),
           NEW p \in Proc, NEW c, my[p].at = Null, Start(p, f, c)
    PROVE  /\ slot' \in [Slot -> Inode] /\ Counted(slot', my') /\ Valid(slot', d)
           /\ \A s \in Slot : slot'[s].holder = f[s].holder
           /\ my' \in Pointers /\ my'[p].at # Null
           /\ \A j \in Ref : j # "at" => my'[p][j] = my[p][j]
           /\ \A q \in Proc : q # p => my'[q] = my[q]
<1> DEFINE i == IF c.from = "root" THEN ROOTINO ELSE f[my[p].cwd].inum
<1>1. "at" \in Ref /\ "cwd" \in Ref /\ my[p].cwd # Null /\ my[p].cwd \in Slot
  <2>1. "at" \in Ref /\ "cwd" \in Ref /\ my[p].cwd # Null
    BY Types DEF Ref, RefsOf
  <2> QED BY <2>1, PointerAt
<1>2. i \in Inum
  <2>1. f[my[p].cwd].inum \in Inum
    BY <1>1, Types, Pointed
  <2> QED BY <2>1, Facts
<1>3. Iget(f, i) /\ my' = Put(my, p, "at", SlotOf(f, i))
  BY DEF Start, Put
<1> HIDE DEF i
<1>4. my \in Pointers
  BY Types
<1> QED BY <1>1, <1>2, <1>3, <1>4, GetStep, Facts

LEMMA CallStartInv == ASSUME InodesInv, NEW p \in Proc, NEW c \in Call, CallStart(p, c)
                      PROVE  InodesInv'
<1>1. /\ pc[p] = "user" /\ Where(p) = "user" /\ my[p].at = Null /\ my[p].ip = Null
      /\ my[p].dp = Null /\ my[p].put = Null /\ my[p].cwd # Null
      /\ Start(p, slot, c) /\ Goto(p, "walk") /\ "walk" \in Label
      /\ call' = [call EXCEPT ![p] = c]
      /\ path' = [path EXCEPT ![p] = IF c.op = "link" THEN c.old ELSE c.path]
      /\ UNCHANGED <<dinode, ret>>
  BY Types DEF CallStart, At, RefsOf, Where, WithIp, WithDp, Label
<1>2. /\ slot' \in [Slot -> Inode] /\ Counted(slot', my') /\ Valid(slot', dinode')
      /\ \A s \in Slot : slot'[s].holder = slot[s].holder
      /\ my' \in Pointers /\ my'[p].at # Null
      /\ \A j \in Ref : j # "at" => my'[p][j] = my[p][j]
      /\ \A q \in Proc : q # p => my'[q] = my[q]
  BY <1>1, Types, StartIs
<1>3. /\ pc' \in [Proc -> Label] /\ pc'[p] = "walk" /\ Where(p)' = "walk"
      /\ \A q \in Proc : q # p => pc'[q] = pc[q]
  BY <1>1, GotoIs
<1>4. /\ my'[p].ip = Null /\ my'[p].dp = Null /\ my'[p].put = Null /\ my'[p].cwd # Null
  BY <1>1, <1>2 DEF Ref
<1>5. /\ path' \in [Proc -> Path] /\ path'[p] = IF c.op = "link" THEN c.old ELSE c.path
      /\ \A q \in Proc : q # p => path'[q] = path[q] /\ call'[q] = call[q]
  <2>1. (IF c.op = "link" THEN c.old ELSE c.path) \in Path
    BY InodesAssumption
  <2> QED BY <1>1, <2>1, Types
<1>6. RefsOf(p)'
  BY <1>2, <1>3, <1>4 DEF RefsOf, WithIp, WithDp
<1>7. CallOf(p)'
  <2>1. call'[p] = c
    BY <1>1, Types
  <2>2. WantsParent(p)' => c.op \in {"create", "mkdir", "unlink"}
    BY <1>4, <2>1 DEF WantsParent
  <2>3. WantsParent(p)' => path'[p] # <<>>
    BY <1>5, <2>2, InodesAssumption
  <2> QED BY <1>3, <2>1, <2>3 DEF CallOf, WithDp
<1>8. Holds(p)' = Holds(p)
  BY <1>1, <1>3 DEF Holds
<1>9. Alone(p)
  BY <1>1, <1>2, <1>3, <1>5 DEF Alone
<1>10. TypeOK'
  <2>1. call' \in [Proc -> Calls]
    BY <1>1, Types DEF Calls
  <2> QED BY <1>1, <1>2, <1>3, <1>5, <2>1, Types DEF TypeOK, Pointers
<1> QED BY <1>2, <1>6, <1>7, <1>8, <1>9, <1>10, LocksSame, StepInv

LEMMA LookupIs ==
    ASSUME InodesInv, NEW s, On(s) \in Dinode, NEW n \in Name \cup {UpName}
    PROVE  Lookup(s, n) # Null => Lookup(s, n) \in Inum
<1>1. On(s).up \in Link /\ On(s).ents \in [Name -> Link]
  BY DEF Dinode
<1>2. n # UpName => On(s).ents[n] \in Link
  BY <1>1
<1> QED BY <1>1, <1>2 DEF Lookup, Link

LEMMA WalkParentInv == ASSUME InodesInv, NEW p \in Proc, WalkParent(p) PROVE InodesInv'
<1> DEFINE s == my[p].at
<1>1. /\ pc[p] = "walk" /\ Where(p) = "walk" /\ s # Null /\ "at" \in Ref /\ "dp" \in Ref
      /\ my[p].dp = Null /\ my[p].cwd # Null /\ my[p].put = Null
      /\ my[p].ip # Null => call[p].op = "link"
      /\ call[p] \in Call
  BY Types DEF WalkParent, At, Where, RefsOf, CallOf, WithDp, Ref
<1>2. /\ CanLock(s) /\ WantsParent(p)
      /\ slot' = Relocked(s, NoProc)
      /\ my' = Move(my, p, "at", "dp")
      /\ Goto(p, call[p].op) /\ UNCHANGED <<dinode, ret, call, path>>
  BY DEF WalkParent, Move, Put, Read, Relocked
<1>3. call[p].op \in {"create", "mkdir", "unlink", "link"} /\ call[p].op \in Label
      /\ (call[p].op = "link" <=> my[p].ip # Null)
  BY <1>1, <1>2 DEF WantsParent, Label, Op
<1>4. NoProc \in Proc \cup {NoProc}
  OBVIOUS
<1>5. /\ slot' \in [Slot -> Inode] /\ Counted(slot', my) /\ Valid(slot', dinode)
      /\ \A t \in Slot : slot'[t].holder = slot[t].holder
  <2>1. s = my[p]["at"] /\ CanLock(my[p]["at"]) /\ my[p]["at"] # Null
    BY <1>1, <1>2
  <2> HIDE DEF s
  <2> QED BY <1>1, <1>2, <1>4, <2>1, LockStep
<1>6. /\ my' \in Pointers /\ \A t \in Slot : Count(my', t) = Count(my, t)
      /\ my'[p].at = Null /\ my'[p].dp = s
      /\ \A j \in Ref : j # "at" /\ j # "dp" => my'[p][j] = my[p][j]
      /\ \A q \in Proc : q # p => my'[q] = my[q]
  BY <1>1, <1>2, Types, MoveIs
<1>7. /\ my'[p].ip = my[p].ip /\ my'[p].put = Null /\ my'[p].cwd # Null
  BY <1>1, <1>6 DEF Ref
<1>8. /\ pc' \in [Proc -> Label] /\ pc'[p] = call[p].op /\ Where(p)' = call[p].op
      /\ \A q \in Proc : q # p => pc'[q] = pc[q]
  BY <1>2, <1>3, GotoIs
<1>9. RefsOf(p)' /\ CallOf(p)'
  <2>1. path'[p] # <<>>
    <3>1. Len(path[p]) = 1 /\ path' = path
      BY <1>2 DEF WalkParent
    <3>2. Len(<<>>) = 0
      BY EmptySeq
    <3> QED BY <3>1, <3>2
  <2> QED BY <1>1, <1>2, <1>3, <1>6, <1>7, <1>8, <2>1 DEF RefsOf, CallOf, WithDp, WithIp
<1>10. Holds(p)' = Holds(p)
  BY <1>1, <1>3, <1>8 DEF Holds
<1>11. Counted(slot', my')
  BY <1>5, <1>6, SameCount
<1>12. TypeOK' /\ Alone(p)
  BY <1>2, <1>5, <1>6, <1>8, Types DEF TypeOK, Pointers, Alone
<1> QED BY <1>2, <1>5, <1>9, <1>10, <1>11, <1>12, LocksSame, StepInv

LEMMA WalkInv == ASSUME InodesInv, NEW p \in Proc, Walk(p) PROVE InodesInv'
<1> DEFINE s == my[p].at
           i == Lookup(s, Head(path[p]))
           f == Relocked(s, NoProc)
           m == Move(my, p, "at", "put")
<1>1. /\ pc[p] = "walk" /\ Where(p) = "walk" /\ s # Null /\ "at" \in Ref /\ "put" \in Ref
      /\ my[p].dp = Null /\ my[p].cwd # Null /\ my[p].put = Null
      /\ my[p].ip # Null => call[p].op = "link"
      /\ call[p] \in Call
  BY Types DEF Walk, At, Where, RefsOf, CallOf, WithDp, Ref
<1>2. /\ CanLock(s) /\ path[p] # <<>> /\ ~(WantsParent(p) /\ Len(path[p]) = 1)
      /\ i # Null /\ Iget(f, i)
      /\ path' = [path EXCEPT ![p] = Tail(path[p])]
      /\ ret' = [ret EXCEPT ![p] = "walk"]
      /\ Goto(p, "put") /\ UNCHANGED <<dinode, call>>
      /\ my' = [my EXCEPT ![p].at = SlotOf(f, i), ![p].put = s]
  BY DEF Walk, Read, Relocked
<1>3. NoProc \in Proc \cup {NoProc}
  OBVIOUS
<1>4. path[p] \in Path /\ Head(path[p]) \in Name \cup {UpName} /\ Tail(path[p]) \in Path
      /\ (WantsParent(p) => Tail(path[p]) # <<>>)
  <2>1. path[p] \in Seq(Name \cup {UpName})
    BY Types DEF Path
  <2>2. Head(path[p]) \in Name \cup {UpName} /\ Tail(path[p]) \in Seq(Name \cup {UpName})
    BY <1>2, <2>1, HeadTailProperties
  <2>3. Len(path[p]) # 1 => Tail(path[p]) # <<>>
    <3>1. Len(Tail(path[p])) = Len(path[p]) - 1 /\ Len(path[p]) \in Nat /\ Len(<<>>) = 0
      BY <1>2, <2>1, HeadTailProperties, EmptySeq, LenProperties
    <3> HIDE DEF s
    <3> SUFFICES ASSUME Tail(path[p]) = <<>> PROVE Len(path[p]) = 1
      OBVIOUS
    <3>2. Len(Tail(path[p])) = 0
      BY <3>1
    <3> QED BY <3>1, <3>2
  <2> QED BY <1>2, <2>1, <2>2, <2>3 DEF Path
<1> HIDE DEF f
<1>5. /\ f \in [Slot -> Inode] /\ Counted(f, my) /\ Valid(f, dinode)
      /\ \A t \in Slot : f[t].holder = slot[t].holder
      /\ s \in Slot /\ On(s) \in Dinode
  <2>1. s = my[p]["at"] /\ CanLock(my[p]["at"]) /\ my[p]["at"] # Null
    BY <1>1, <1>2
  <2> HIDE DEF s
  <2> QED BY <1>1, <1>3, <2>1, LockStep DEF f
<1>6. i \in Inum
  BY <1>2, <1>4, <1>5, LookupIs
<1>7. /\ m \in Pointers /\ \A t \in Slot : Count(m, t) = Count(my, t)
      /\ m[p].at = Null /\ m[p].put = s
      /\ \A j \in Ref : j # "at" /\ j # "put" => m[p][j] = my[p][j]
      /\ \A q \in Proc : q # p => m[q] = my[q]
  BY <1>1, Types, MoveIs
<1>8. my' = Put(m, p, "at", SlotOf(f, i))
  BY <1>2, Types DEF Move, Put, Pointers, Ref
<1> HIDE DEF i, m
<1>9. Counted(f, m)
  BY <1>5, <1>7, SameCount
<1>10. /\ slot' \in [Slot -> Inode] /\ Counted(slot', my') /\ Valid(slot', dinode)
       /\ \A t \in Slot : slot'[t].holder = f[t].holder
       /\ my' \in Pointers /\ my'[p].at # Null
       /\ \A j \in Ref : j # "at" => my'[p][j] = m[p][j]
       /\ \A q \in Proc : q # p => my'[q] = m[q]
  <2>1. Iget(f, i) /\ i \in Inum /\ Valid(f, dinode) /\ dinode' = dinode
    BY <1>2, <1>5, <1>6
  <2>2. m \in Pointers /\ m[p]["at"] = Null /\ f \in [Slot -> Inode]
    BY <1>5, <1>7
  <2>3. "at" \in Ref
    BY <1>1
  <2> QED BY <1>8, <1>9, <2>1, <2>2, <2>3, GetStep, Facts
<1>11. my'[p].put = s /\ my'[p].ip = my[p].ip /\ my'[p].dp = Null /\ my'[p].cwd # Null
  BY <1>1, <1>7, <1>10 DEF Ref
<1>12. /\ pc' \in [Proc -> Label] /\ pc'[p] = "put" /\ Where(p)' = "walk"
       /\ ret' \in [Proc -> Label \ {"put", "drop"}]
       /\ \A q \in Proc : q # p => pc'[q] = pc[q] /\ ret'[q] = ret[q]
  <2>1. "put" \in Label /\ "walk" \in Label \ {"put", "drop"}
    BY DEF Label
  <2> QED BY <1>2, <2>1, Types, GotoIs
<1>13. path' \in [Proc -> Path] /\ path'[p] = Tail(path[p])
       /\ \A q \in Proc : q # p => path'[q] = path[q]
  BY <1>2, <1>4, Types
<1>14. RefsOf(p)'
  BY <1>1, <1>2, <1>10, <1>11, <1>12 DEF RefsOf, WithDp, WithIp
<1>15. CallOf(p)'
  <2>1. WantsParent(p)' <=> WantsParent(p)
    BY <1>2, <1>11 DEF WantsParent
  <2> QED BY <1>1, <1>2, <1>4, <1>12, <1>13, <2>1 DEF CallOf, WithDp
<1>16. Holds(p)' = Holds(p)
  BY <1>1, <1>12 DEF Holds
<1>17. TypeOK' /\ Alone(p)
  BY <1>2, <1>7, <1>10, <1>12, <1>13, Types DEF TypeOK, Pointers, Alone
<1>18. \A t \in Slot : slot'[t].holder = slot[t].holder
  BY <1>5, <1>10
<1> QED BY <1>2, <1>10, <1>14, <1>15, <1>16, <1>17, <1>18, LocksSame, StepInv

LEMMA WalkEndInv == ASSUME InodesInv, NEW p \in Proc, WalkEnd(p) PROVE InodesInv'
<1> DEFINE l == IF call[p].op = "link" THEN "link old" ELSE call[p].op
<1>1. /\ pc[p] = "walk" /\ Where(p) = "walk" /\ my[p].at # Null /\ "at" \in Ref /\ "ip" \in Ref
      /\ my[p].dp = Null /\ my[p].cwd # Null /\ my[p].put = Null
      /\ my[p].ip # Null => call[p].op = "link"
      /\ call[p] \in Call /\ ~WantsParent(p)
  BY Types DEF WalkEnd, At, Where, RefsOf, CallOf, WithDp, Ref
<1>2. /\ my[p].ip = Null /\ l \in {"open", "chdir", "link old"} /\ l \in Label
      /\ l = "link old" => call[p].op = "link"
  <2>1. call[p].op \in {"open", "chdir", "create", "mkdir", "unlink", "link"}
    BY <1>1, InodesAssumption
  <2> QED BY <1>1, <2>1 DEF WantsParent, Label, Op
<1>3. my' = Move(my, p, "at", "ip") /\ Goto(p, l) /\ UNCHANGED <<dinode, slot, ret, call, path>>
  BY DEF WalkEnd, Move, Put
<1> HIDE DEF l
<1>4. /\ my' \in Pointers /\ \A t \in Slot : Count(my', t) = Count(my, t)
      /\ my'[p].at = Null /\ my'[p].ip = my[p].at
      /\ \A j \in Ref : j # "at" /\ j # "ip" => my'[p][j] = my[p][j]
      /\ \A q \in Proc : q # p => my'[q] = my[q]
  <2>1. my \in Pointers /\ my[p]["ip"] = Null /\ "at" # "ip" /\ my' = Move(my, p, "at", "ip")
    BY <1>2, <1>3, Types
  <2> QED BY <1>1, <2>1, MoveIs
<1>5. my'[p].dp = Null /\ my'[p].put = Null /\ my'[p].cwd # Null
  BY <1>1, <1>4 DEF Ref
<1>6. /\ pc' \in [Proc -> Label] /\ pc'[p] = l /\ Where(p)' = l
      /\ \A q \in Proc : q # p => pc'[q] = pc[q]
  BY <1>2, <1>3, GotoIs
<1>7. RefsOf(p)' /\ CallOf(p)'
  BY <1>1, <1>2, <1>3, <1>4, <1>5, <1>6 DEF RefsOf, CallOf, WithDp, WithIp
<1>8. Holds(p)' = Holds(p)
  BY <1>1, <1>2, <1>6 DEF Holds
<1>9. Counted(slot', my') /\ Valid(slot', dinode')
  BY <1>3, <1>4, Types, SameCount
<1>10. TypeOK' /\ Alone(p)
  BY <1>3, <1>4, <1>6, Types DEF TypeOK, Pointers, Alone
<1> QED BY <1>3, <1>7, <1>8, <1>9, <1>10, LocksSame, StepInv

-----------------------------------------------------------------------------
(* Steps that end in iput(), and locks that are let go or taken. *)

LEMMA IputEnd ==
    ASSUME InodesInv, NEW p \in Proc, NEW k \in Ref, my[p][k] # Null,
           pc[p] \notin {"put", "drop"}, NEW l \in Label \ {"put", "drop"}, Iput(p, k, l),
           UNCHANGED <<call, path>>, dinode' \in [Inum -> Dinode],
           slot' \in [Slot -> Inode], Counted(slot', my), Valid(slot', dinode'),
           LocksOf(p), RefsOf(p)', CallOf(p)'
    PROVE  InodesInv'
<1>1. /\ my' \in Pointers /\ \A t \in Slot : Count(my', t) = Count(my, t)
      /\ pc' \in [Proc -> Label] /\ ret' \in [Proc -> Label \ {"put", "drop"}]
  BY IputIs
<1>2. Counted(slot', my')
  BY <1>1, SameCount
<1>3. TypeOK'
  BY <1>1, Types DEF TypeOK, Pointers
<1>4. Alone(p)
  BY IputIs DEF Alone
<1> QED BY <1>2, <1>3, <1>4, StepInv

LEMMA Unlocks ==
    ASSUME InodesInv, NEW p \in Proc, NEW s \in Slot, Holds(p) \in {Null, s}, Holds(p)' = Null,
           slot[s].holder \in {NoProc, p}, slot'[s].holder = NoProc,
           \A t \in Slot : t # s => slot'[t].holder = slot[t].holder
    PROVE  LocksOf(p)
<1>1. \A t \in Slot : t # Null
  BY Facts
<1>2. slot[s].holder = p => Holds(p) = s
  BY DEF InodesInv, LockInv
<1>3. ASSUME NEW t \in Slot
      PROVE  slot'[t].holder = IF t = Holds(p)' THEN p
                               ELSE IF t = Holds(p) THEN NoProc ELSE slot[t].holder
  <2>1. CASE t = s
    BY <1>1, <1>2, <2>1
  <2>2. CASE t # s
    BY <1>1, <2>2
  <2> QED BY <2>1, <2>2
<1> QED BY <1>3 DEF LocksOf

LEMMA Takes ==
    ASSUME InodesInv, NEW p \in Proc, NEW s \in Slot, Holds(p) = Null, Holds(p)' = s,
           slot[s].holder = NoProc, slot'[s].holder = p,
           \A t \in Slot : t # s => slot'[t].holder = slot[t].holder
    PROVE  LocksOf(p)
<1>1. \A t \in Slot : t # Null
  BY Facts
<1> QED BY <1>1 DEF LocksOf

\* iunlock()
Unheld(f, s) == [f EXCEPT ![s].holder = NoProc]

LEMMA UnheldIs ==
    ASSUME NEW f \in [Slot -> Inode], NEW m, Counted(f, m), NEW s \in Slot, f[s].ref > 0
    PROVE  LET g == Unheld(f, s)
           IN  /\ g \in [Slot -> Inode] /\ Counted(g, m)
               /\ \A d : Valid(f, d) => Valid(g, d)
               /\ g[s].holder = NoProc /\ \A t \in Slot : t # s => g[t] = f[t]
               /\ g[s].inum = f[s].inum
<1> DEFINE g == Unheld(f, s)
<1>1. g[s] = [f[s] EXCEPT !.holder = NoProc] /\ \A t \in Slot : t # s => g[t] = f[t]
  BY DEF Unheld
<1>2. f[s] \in Inode
  OBVIOUS
<1>3. /\ g[s] \in Inode /\ g[s].ref = f[s].ref /\ g[s].inum = f[s].inum
      /\ g[s].valid = f[s].valid /\ g[s].type = f[s].type /\ g[s].nlink = f[s].nlink
      /\ g[s].holder = NoProc
  BY <1>1, <1>2 DEF Inode
<1>4. g \in [Slot -> Inode]
  BY <1>1, <1>3 DEF Unheld
<1> HIDE DEF g
<1>5. Counted(g, m)
  <2>1. f[s].ref # 0 /\ f[s].ref \in Nat
    BY <1>2 DEF Inode
  <2>2. \A t \in Slot : /\ g[t].ref = f[t].ref /\ g[t].inum = f[t].inum
                        /\ f[t].ref = 0 => g[t] = f[t]
    BY <1>1, <1>3, <2>1
  <2> QED BY <2>2, SameCount
<1>6. \A d : Valid(f, d) => Valid(g, d)
  <2>1. \A t \in Slot : /\ g[t].valid = f[t].valid /\ g[t].inum = f[t].inum
                        /\ g[t].type = f[t].type /\ g[t].nlink = f[t].nlink
    BY <1>1, <1>3
  <2> QED BY <2>1 DEF Valid, ValidAt
<1> QED BY <1>1, <1>3, <1>4, <1>5, <1>6 DEF g

-----------------------------------------------------------------------------
(* open(), chdir(), close() *)

\* A call gives ip back at its end.
LEMMA IpPut ==
    ASSUME InodesInv, NEW p \in Proc,
           pc[p] \in {"open", "create old", "created", "link old", "linked", "unlinked", "link undo"},
           Iput(p, "ip", "user"), UNCHANGED <<call, path>>
    PROVE  RefsOf(p)' /\ CallOf(p)' /\ Holds(p)' = Null
<1>1. /\ my[p].at = Null /\ my[p].dp = Null /\ my[p].cwd # Null /\ my[p]["ip"] # Null
      /\ Where(p) = pc[p] /\ pc[p] \notin {"put", "drop"}
  BY Types DEF RefsOf, WithDp, WithIp, Where
<1>2. "ip" \in Ref /\ "user" \in Label \ {"put", "drop"}
  BY DEF Ref, Label
<1>3. /\ my'[p].ip = Null /\ my'[p].put # Null /\ pc'[p] = "put" /\ Where(p)' = "user"
      /\ my'[p].at = Null /\ my'[p].dp = Null /\ my'[p].cwd # Null
  BY <1>1, <1>2, IputMy
<1> QED BY <1>3 DEF RefsOf, CallOf, Holds, WithDp, WithIp

LEMMA OpenedInv ==
    ASSUME InodesInv, NEW p \in Proc, my[p].ip # Null,
           pc[p] \in {"open", "create old", "created"}, slot[my[p].ip].holder \in {NoProc, p},
           NEW f \in [Slot -> Inode], Counted(f, my), Valid(f, dinode),
           \A t \in Slot : t # my[p].ip => f[t].holder = slot[t].holder,
           Opened(p, f), dinode' = dinode
    PROVE  InodesInv'
<1> DEFINE s == my[p].ip
<1>1. /\ s # Null /\ "ip" \in Ref /\ "fd" \in Ref /\ "user" \in Label \ {"put", "drop"}
      /\ my[p].at = Null /\ my[p].dp = Null /\ my[p].put = Null /\ my[p].cwd # Null
      /\ Where(p) = pc[p] /\ pc[p] \notin {"put", "drop"}
  BY Types DEF RefsOf, WithDp, Where, Ref, Label
<1>2. s \in Slot /\ f[s].ref > 0
  BY <1>1, PointerAt, Pointed, Types
<1>3. slot' = Unheld(f, s)
  BY DEF Opened, Unheld
<1> HIDE DEF s
<1>4. /\ slot' \in [Slot -> Inode] /\ Counted(slot', my) /\ Valid(slot', dinode')
      /\ slot'[s].holder = NoProc /\ \A t \in Slot : t # s => slot'[t] = f[t]
  BY <1>2, <1>3, UnheldIs
<1>5. Holds(p) \in {Null, s}
  BY <1>1 DEF Holds, s
<1>6. ASSUME Holds(p)' = Null PROVE LocksOf(p)
  <2>1. \A t \in Slot : t # s => slot'[t].holder = slot[t].holder
    BY <1>4 DEF s
  <2>2. slot[s].holder \in {NoProc, p}
    BY DEF s
  <2> QED BY <1>2, <1>4, <1>5, <1>6, <2>1, <2>2, Unlocks
<1>7. CASE my[p].fd = Null /\ my' = [my EXCEPT ![p].fd = s, ![p].ip = Null] /\ Return(p)
           /\ UNCHANGED ret
  <2>1. my' = Move(my, p, "ip", "fd") /\ "ip" # "fd" /\ my[p]["fd"] = Null /\ my \in Pointers
    BY <1>7, Types DEF Move, Put, s
  <2>2. /\ my' \in Pointers /\ \A t \in Slot : Count(my', t) = Count(my, t)
        /\ my'[p].ip = Null
        /\ \A j \in Ref : j # "ip" /\ j # "fd" => my'[p][j] = my[p][j]
        /\ \A q \in Proc : q # p => my'[q] = my[q]
    <3>1. "ip" \in Ref /\ "fd" \in Ref
      BY <1>1
    <3> QED BY <2>1, <3>1, Moved
  <2>3. my'[p].at = Null /\ my'[p].dp = Null /\ my'[p].put = Null /\ my'[p].cwd # Null
    BY <1>1, <2>2 DEF Ref
  <2>4. /\ pc' \in [Proc -> Label] /\ path' \in [Proc -> Path] /\ call' \in [Proc -> Calls]
        /\ pc'[p] = "user" /\ Where(p)' = "user"
        /\ \A q \in Proc : q # p => pc'[q] = pc[q] /\ call'[q] = call[q] /\ path'[q] = path[q]
    BY <1>7, ReturnIs
  <2>5. RefsOf(p)' /\ CallOf(p)' /\ Holds(p)' = Null
    BY <2>2, <2>3, <2>4 DEF RefsOf, CallOf, Holds, WithDp, WithIp
  <2>6. Counted(slot', my')
    <3>1. Counted(slot', my) /\ \A t \in Slot : Count(my', t) = Count(my, t)
      BY <1>4, <2>2
    <3> QED BY <3>1, Recounted
  <2>7. TypeOK' /\ Alone(p)
    BY <1>4, <1>7, <2>2, <2>4, Types DEF TypeOK, Pointers, Alone
  <2> QED BY <1>4, <1>6, <2>5, <2>6, <2>7, StepInv
<1>8. CASE my[p].fd # Null /\ Iput(p, "ip", "user") /\ UNCHANGED <<call, path>>
  <2>1. RefsOf(p)' /\ CallOf(p)' /\ Holds(p)' = Null
    BY <1>8, IpPut
  <2>2. dinode' \in [Inum -> Dinode]
    BY Types
  <2> QED BY <1>1, <1>4, <1>6, <1>8, <2>1, <2>2, IputEnd DEF s
<1> QED BY <1>7, <1>8 DEF Opened, s

\* ... with a directory, or what cannot be opened.
LEMMA FailsInv ==
    ASSUME InodesInv, NEW p \in Proc, NEW k \in {"ip", "dp"}, my[p][k] # Null,
           k = "dp" => my[p].ip = Null,
           pc[p] \in {"open", "create old", "unlink", "link old"}, CanLock(my[p][k]),
           slot' = [slot EXCEPT ![my[p][k]] = Read(my[p][k])], Iput(p, k, "user"),
           UNCHANGED <<dinode, call, path>>
    PROVE  InodesInv'
<1>1. /\ k \in Ref /\ "user" \in Label \ {"put", "drop"} /\ my[p].at = Null /\ my[p].cwd # Null
      /\ my[p].ip = Null \/ (my[p].dp = Null /\ k = "ip")
      /\ Where(p) = pc[p] /\ pc[p] \notin {"put", "drop"}
  <2>1. RefsOf(p)
    BY Types
  <2>2. k = "ip" \/ k = "dp"
    OBVIOUS
  <2>3. /\ k = "ip" => my[p].ip # Null
        /\ k = "dp" => my[p].dp # Null
    OBVIOUS
  <2>4. Where(p) = pc[p] /\ pc[p] \notin {"put", "drop"}
    BY DEF Where
  <2>5. my[p].at = Null /\ my[p].cwd # Null
    BY <2>1, <2>4 DEF RefsOf
  <2>6. k \in Ref /\ "user" \in Label \ {"put", "drop"}
    BY DEF Ref, Label
  <2>7. pc[p] = "unlink" => my[p].ip = Null
    BY <2>1, <2>4 DEF RefsOf, WithIp
  <2>8. pc[p] # "unlink" => my[p].dp = Null
    BY <2>1, <2>4 DEF RefsOf, WithDp
  <2> QED BY <2>2, <2>3, <2>4, <2>5, <2>6, <2>7, <2>8
<1>2. pc'[p] = "put" /\ Where(p)' = "user" /\ my'[p].put # Null /\ my'[p].cwd # Null
      /\ my'[p].at = Null /\ my'[p].dp = Null /\ my'[p].ip = Null
  <2>1. my[p][k] # Null /\ k \in Ref /\ pc[p] \notin {"put", "drop"} /\ Iput(p, k, "user")
        /\ "user" \in Label \ {"put", "drop"}
    BY <1>1
  <2>2. /\ pc'[p] = "put" /\ Where(p)' = "user" /\ my'[p].put # Null
        /\ my'[p].at = IF k = "at" THEN Null ELSE my[p].at
        /\ my'[p].ip = IF k = "ip" THEN Null ELSE my[p].ip
        /\ my'[p].dp = IF k = "dp" THEN Null ELSE my[p].dp
        /\ my'[p].cwd = IF k = "cwd" THEN Null ELSE my[p].cwd
    BY <2>1, IputMy
  <2>3. k = "ip" \/ k = "dp"
    OBVIOUS
  <2>4. k = "ip" => my[p].dp = Null
    BY <1>1
  <2>5. k = "dp" => my[p].ip = Null
    BY <1>1
  <2> QED BY <1>1, <2>2, <2>3, <2>4, <2>5
<1>3. RefsOf(p)' /\ CallOf(p)' /\ Holds(p)' = Null /\ Holds(p) = Null
  BY <1>1, <1>2 DEF RefsOf, CallOf, Holds, WithDp, WithIp
<1> QED BY <1>1, <1>3, ReadPut

LEMMA IpAt ==
    ASSUME InodesInv, NEW p \in Proc, pc[p] \in WithIp
    PROVE  /\ my[p].ip # Null /\ my[p].ip \in Slot /\ slot[my[p].ip].ref > 0 /\ Where(p) = pc[p]
           /\ "ip" \in Ref /\ my[p].ip = my[p]["ip"] /\ pc[p] \notin {"put", "drop"}
<1>1. "ip" \in Ref /\ my[p]["ip"] # Null /\ Where(p) = pc[p]
  BY Types DEF RefsOf, Where, WithIp, Ref
<1> QED BY <1>1, PointerAt DEF WithIp

LEMMA DpAt ==
    ASSUME InodesInv, NEW p \in Proc, pc[p] \in WithDp
    PROVE  /\ my[p].dp # Null /\ my[p].dp \in Slot /\ slot[my[p].dp].ref > 0 /\ Where(p) = pc[p]
           /\ "dp" \in Ref /\ my[p].dp = my[p]["dp"] /\ pc[p] \notin {"put", "drop"}
<1>1. "dp" \in Ref /\ my[p]["dp"] # Null /\ Where(p) = pc[p]
  BY Types DEF RefsOf, Where, WithDp, Ref
<1> QED BY <1>1, PointerAt DEF WithDp

\* The end of open() with an inode that ilock() was called for.
LEMMA LockedOpenedInv ==
    ASSUME InodesInv, NEW p \in Proc, pc[p] \in {"open", "create old"}, CanLock(my[p].ip),
           Opened(p, [slot EXCEPT ![my[p].ip] = Read(my[p].ip)]), dinode' = dinode
    PROVE  InodesInv'
<1> DEFINE s == my[p].ip
           f == Relocked(s, NoProc)
<1>1. my[p]["ip"] # Null /\ "ip" \in Ref /\ NoProc \in Proc \cup {NoProc} /\ CanLock(my[p]["ip"])
      /\ s = my[p]["ip"]
  BY IpAt DEF WithIp
<1>2. Opened(p, f)
  BY DEF Relocked, Read
<1> HIDE DEF s, f
<1>3. /\ f \in [Slot -> Inode] /\ Counted(f, my) /\ Valid(f, dinode) /\ s # Null
      /\ \A t \in Slot : t # s => f[t] = slot[t]
      /\ slot[s].holder = NoProc
  <2>1. my[p]["ip"] # Null /\ "ip" \in Ref /\ NoProc \in Proc \cup {NoProc} /\ CanLock(my[p]["ip"])
    BY <1>1
  <2>2. s = my[p]["ip"] /\ s # Null
    BY <1>1
  <2>3. /\ f \in [Slot -> Inode] /\ Counted(f, my) /\ Valid(f, dinode)
    BY <2>1, <2>2, LockStep DEF f
  <2>4. \A t \in Slot : t # s => f[t] = slot[t]
    BY Types DEF f, Relocked
  <2>5. slot[s].holder = NoProc
    BY <2>1, <2>2 DEF CanLock, Unlocked
  <2> QED BY <2>2, <2>3, <2>4, <2>5
<1> QED BY <1>2, <1>3, OpenedInv DEF s

LEMMA OpenInv == ASSUME InodesInv, NEW p \in Proc, Open(p) PROVE InodesInv'
<1>1. pc[p] = "open" /\ CanLock(my[p].ip) /\ dinode' = dinode
  BY DEF Open, At
<1>2. my[p]["ip"] # Null /\ CanLock(my[p]["ip"])
  BY <1>1, IpAt DEF WithIp
<1>3. CASE Read(my[p].ip).type = "dir"
  BY <1>1, <1>2, <1>3, FailsInv DEF Open
<1>4. CASE Read(my[p].ip).type # "dir"
  BY <1>1, <1>4, LockedOpenedInv DEF Open
<1> QED BY <1>3, <1>4

LEMMA CreateOldInv == ASSUME InodesInv, NEW p \in Proc, CreateOld(p) PROVE InodesInv'
<1>1. pc[p] = "create old" /\ CanLock(my[p].ip) /\ dinode' = dinode
  BY DEF CreateOld, At
<1>2. my[p]["ip"] # Null /\ CanLock(my[p]["ip"])
  BY <1>1, IpAt DEF WithIp
<1>3. CASE ~(TypeOf(p) = "file" /\ Read(my[p].ip).type = "file")
  BY <1>1, <1>2, <1>3, FailsInv DEF CreateOld
<1>4. CASE TypeOf(p) = "file" /\ Read(my[p].ip).type = "file"
  BY <1>1, <1>4, LockedOpenedInv DEF CreateOld
<1> QED BY <1>3, <1>4

LEMMA CreatedInv == ASSUME InodesInv, NEW p \in Proc, Created(p) PROVE InodesInv'
<1> DEFINE s == my[p].ip
<1>1. pc[p] = "created" /\ dinode' = dinode
  BY DEF Created, At
<1>2. s # Null /\ s \in Slot /\ slot[s].ref > 0 /\ Where(p) = pc[p] /\ "ip" \in Ref
  BY <1>1, IpAt DEF WithIp
<1>3. Holds(p) = s /\ slot[s].holder = p
  <2>1. Holds(p) = s
    BY <1>1, <1>2 DEF Holds
  <2> QED BY <1>2, <2>1 DEF InodesInv, LockInv
<1>4. CASE TypeOf(p) = "file"
  BY <1>1, <1>2, <1>3, <1>4, Types, OpenedInv DEF Created
<1>5. CASE TypeOf(p) # "file"
  <2>1. /\ slot' = Unheld(slot, s) /\ Iput(p, "ip", "user") /\ UNCHANGED <<call, path>>
        /\ "user" \in Label \ {"put", "drop"}
    BY <1>5 DEF Created, Unheld, Label
  <2>2. RefsOf(p)' /\ CallOf(p)' /\ Holds(p)' = Null
    BY <1>1, <2>1, IpPut
  <2>3. /\ slot' \in [Slot -> Inode] /\ Counted(slot', my) /\ Valid(slot', dinode')
        /\ slot'[s].holder = NoProc /\ \A t \in Slot : t # s => slot'[t] = slot[t]
    BY <1>1, <1>2, <2>1, Types, UnheldIs
  <2>4. LocksOf(p)
    BY <1>2, <1>3, <2>2, <2>3, Unlocks
  <2>5. dinode' \in [Inum -> Dinode]
    BY <1>1, Types
  <2> QED BY <1>1, <1>2, <2>1, <2>2, <2>3, <2>4, <2>5, IputEnd
<1> QED BY <1>4, <1>5

LEMMA CloseInv == ASSUME InodesInv, NEW p \in Proc, Close(p) PROVE InodesInv'
<1>1. /\ pc[p] = "user" /\ my[p]["fd"] # Null /\ Iput(p, "fd", "user")
      /\ call' = [call EXCEPT ![p] = [NoCall EXCEPT !.op = "close"]]
      /\ UNCHANGED <<dinode, slot, path>>
      /\ "fd" \in Ref /\ "user" \in Label \ {"put", "drop"}
  BY DEF Close, At, Ref, Label
<1>2. /\ my[p].at = Null /\ my[p].dp = Null /\ my[p].ip = Null /\ my[p].cwd # Null
      /\ Where(p) = pc[p]
  BY <1>1, Types DEF RefsOf, WithDp, WithIp, Where
<1>3. /\ my' \in Pointers /\ \A t \in Slot : Count(my', t) = Count(my, t)
      /\ my'[p].put # Null /\ pc'[p] = "put" /\ Where(p)' = "user"
      /\ \A j \in Ref : j # "fd" /\ j # "put" => my'[p][j] = my[p][j]
      /\ \A q \in Proc : q # p => my'[q] = my[q] /\ pc'[q] = pc[q] /\ ret'[q] = ret[q]
      /\ pc' \in [Proc -> Label] /\ ret' \in [Proc -> Label \ {"put", "drop"}]
  BY <1>1, IputIs
<1>4. my'[p].at = Null /\ my'[p].dp = Null /\ my'[p].ip = Null /\ my'[p].cwd # Null
  BY <1>2, <1>3 DEF Ref
<1>5. RefsOf(p)' /\ CallOf(p)' /\ Holds(p)' = Null /\ Holds(p) = Null
  BY <1>1, <1>2, <1>3, <1>4 DEF RefsOf, CallOf, Holds, WithDp, WithIp
<1>6. Counted(slot', my') /\ Valid(slot', dinode')
  <2>1. Counted(slot, my') /\ Valid(slot, dinode)
    BY <1>3, Types, Recounted
  <2> QED BY <1>1, <2>1
<1>7. call' \in [Proc -> Calls] /\ \A q \in Proc : q # p => call'[q] = call[q]
  BY <1>1, Types DEF Calls
<1>8. TypeOK' /\ Alone(p)
  BY <1>1, <1>3, <1>7, Types DEF TypeOK, Pointers, Alone
<1> QED BY <1>1, <1>5, <1>6, <1>8, LocksSame, StepInv

LEMMA ChdirInv == ASSUME InodesInv, NEW p \in Proc, Chdir(p) PROVE InodesInv'
<1> DEFINE s == my[p].ip
           w == my[p].cwd
           dir == Read(s).type = "dir"
<1>1. /\ pc[p] = "chdir" /\ CanLock(s) /\ slot' = Relocked(s, NoProc)
      /\ my' = [my EXCEPT ![p].ip = Null, ![p].cwd = IF dir THEN s ELSE w,
                          ![p].put = IF dir THEN w ELSE s]
      /\ ret' = [ret EXCEPT ![p] = "user"] /\ Goto(p, "put")
      /\ UNCHANGED <<dinode, call, path>>
  BY DEF Chdir, At, Relocked, Read
<1>2. /\ s # Null /\ w # Null /\ my[p].at = Null /\ my[p].dp = Null /\ my[p].put = Null
      /\ Where(p) = pc[p]
  BY <1>1, Types DEF RefsOf, WithDp, WithIp, Where
<1>3. /\ "ip" \in Ref /\ "cwd" \in Ref /\ "put" \in Ref /\ "put" \in Label
      /\ "user" \in Label \ {"put", "drop"} /\ NoProc \in Proc \cup {NoProc}
  BY DEF Ref, Label
<1> HIDE DEF dir
<1>4. /\ my' \in Pointers /\ \A t \in Slot : Count(my', t) = Count(my, t)
      /\ my'[p].ip = Null /\ my'[p].cwd # Null /\ my'[p].put # Null
      /\ my'[p].at = Null /\ my'[p].dp = Null
      /\ \A q \in Proc : q # p => my'[q] = my[q]
  <2>1. CASE dir
    <3> DEFINE m == Move(my, p, "cwd", "put")
    <3>1. /\ m \in Pointers /\ \A t \in Slot : Count(m, t) = Count(my, t)
          /\ m[p]["cwd"] = Null /\ m[p].put = w
          /\ \A j \in Ref : j # "cwd" /\ j # "put" => m[p][j] = my[p][j]
          /\ \A q \in Proc : q # p => m[q] = my[q]
      <4>1. my[p]["put"] = Null /\ my \in Pointers
        BY <1>2, Types
      <4> QED BY <1>3, <4>1, MoveIs
    <3>2. my' = Move(m, p, "ip", "cwd")
      BY <1>1, <2>1, <1>3, Types DEF Move, Put, Pointers
    <3>3. m[p].ip = s /\ m[p].at = Null /\ m[p].dp = Null
      BY <1>2, <3>1 DEF Ref
    <3> HIDE DEF m
    <3>4. /\ my' \in Pointers /\ \A t \in Slot : Count(my', t) = Count(m, t)
          /\ my'[p].ip = Null /\ my'[p].cwd = m[p].ip
          /\ \A j \in Ref : j # "ip" /\ j # "cwd" => my'[p][j] = m[p][j]
          /\ \A q \in Proc : q # p => my'[q] = m[q]
      BY <1>3, <3>1, <3>2, MoveIs
    <3>5. my'[p].at = Null /\ my'[p].dp = Null /\ my'[p].put = w
      BY <3>1, <3>3, <3>4 DEF Ref
    <3> QED BY <1>2, <3>1, <3>3, <3>4, <3>5
  <2>2. CASE ~dir
    <3>1. my' = Move(my, p, "ip", "put") /\ my[p]["put"] = Null /\ my[p]["ip"] = s
      BY <1>1, <1>2, <2>2, <1>3, Types DEF Move, Put, Pointers
    <3>2. /\ my' \in Pointers /\ \A t \in Slot : Count(my', t) = Count(my, t)
          /\ my'[p].ip = Null /\ my'[p].put = my[p]["ip"]
          /\ \A j \in Ref : j # "ip" /\ j # "put" => my'[p][j] = my[p][j]
          /\ \A q \in Proc : q # p => my'[q] = my[q]
      BY <1>3, <3>1, Moved
    <3>3. my'[p].at = Null /\ my'[p].dp = Null /\ my'[p].cwd # Null
      BY <1>2, <3>2 DEF Ref
    <3> QED BY <1>2, <3>1, <3>2, <3>3
  <2> QED BY <2>1, <2>2
<1>5. /\ slot' \in [Slot -> Inode] /\ Counted(slot', my) /\ Valid(slot', dinode')
      /\ \A t \in Slot : slot'[t].holder = slot[t].holder
  <2>1. s = my[p]["ip"] /\ CanLock(my[p]["ip"]) /\ my[p]["ip"] # Null
    BY <1>1, <1>2
  <2> HIDE DEF s
  <2> QED BY <1>1, <1>3, <2>1, LockStep
<1>6. /\ pc' \in [Proc -> Label] /\ pc'[p] = "put" /\ Where(p)' = "user"
      /\ ret' \in [Proc -> Label \ {"put", "drop"}]
      /\ \A q \in Proc : q # p => pc'[q] = pc[q] /\ ret'[q] = ret[q]
  BY <1>1, <1>3, Types, GotoIs
<1>7. RefsOf(p)' /\ CallOf(p)' /\ Holds(p)' = Null /\ Holds(p) = Null
  BY <1>1, <1>2, <1>4, <1>6 DEF RefsOf, CallOf, Holds, WithDp, WithIp
<1>8. Counted(slot', my')
  BY <1>4, <1>5, Recounted
<1>9. TypeOK' /\ Alone(p)
  BY <1>1, <1>4, <1>5, <1>6, Types DEF TypeOK, Pointers, Alone
<1> QED BY <1>5, <1>7, <1>8, <1>9, LocksSame, StepInv

-----------------------------------------------------------------------------
(* unlink() and link(), what fails and what ends. *)

LEMMA UnlinkNothingInv == ASSUME InodesInv, NEW p \in Proc, UnlinkNothing(p) PROVE InodesInv'
<1>1. /\ pc[p] = "unlink" /\ CanLock(my[p]["dp"]) /\ Iput(p, "dp", "user")
      /\ slot' = [slot EXCEPT ![my[p]["dp"]] = Read(my[p]["dp"])]
      /\ UNCHANGED <<dinode, call, path>>
  BY DEF UnlinkNothing, At
<1>2. my[p]["dp"] # Null /\ my[p].ip = Null
  BY <1>1, Types DEF RefsOf, WithDp, WithIp, Where
<1> QED BY <1>1, <1>2, FailsInv

LEMMA LinkRefusedInv == ASSUME InodesInv, NEW p \in Proc, LinkRefused(p) PROVE InodesInv'
<1>1. /\ pc[p] = "link old" /\ CanLock(my[p]["ip"]) /\ Iput(p, "ip", "user")
      /\ slot' = [slot EXCEPT ![my[p]["ip"]] = Read(my[p]["ip"])]
      /\ UNCHANGED <<dinode, call, path>>
  BY DEF LinkRefused, At
<1>2. my[p]["ip"] # Null
  BY <1>1, IpAt DEF WithIp
<1> QED BY <1>1, <1>2, FailsInv

LEMMA UnlinkRefusedInv == ASSUME InodesInv, NEW p \in Proc, UnlinkRefused(p) PROVE InodesInv'
<1>1. /\ pc[p] = "unlink ip" /\ CanLock(my[p]["ip"]) /\ Iput(p, "ip", "unlock dp")
      /\ slot' = [slot EXCEPT ![my[p]["ip"]] = Read(my[p]["ip"])]
      /\ UNCHANGED <<dinode, call, path>>
      /\ "ip" \in Ref /\ "unlock dp" \in Label \ {"put", "drop"}
  BY DEF UnlinkRefused, At, Ref, Label
<1>2. /\ my[p]["ip"] # Null /\ my[p].dp # Null /\ my[p].at = Null /\ my[p].cwd # Null
      /\ Where(p) = pc[p] /\ pc[p] \notin {"put", "drop"} /\ call[p] \in Call
  BY <1>1, Types DEF RefsOf, CallOf, WithDp, WithIp, Where
<1>3. /\ my'[p].ip = Null /\ my'[p].put # Null /\ pc'[p] = "put" /\ Where(p)' = "unlock dp"
      /\ my'[p].at = Null /\ my'[p].dp = my[p].dp /\ my'[p].cwd # Null
  BY <1>1, <1>2, IputMy
<1>4. RefsOf(p)' /\ CallOf(p)' /\ Holds(p)' = Holds(p)
  BY <1>1, <1>2, <1>3 DEF RefsOf, CallOf, Holds, WithDp, WithIp
<1> QED BY <1>1, <1>2, <1>4, ReadPut

LEMMA UnlockParentInv == ASSUME InodesInv, NEW p \in Proc, UnlockParent(p) PROVE InodesInv'
<1> DEFINE d == my[p].dp
<1>1. /\ pc[p] = "unlock dp" /\ slot' = Unheld(slot, d) /\ Iput(p, "dp", Failed(p))
      /\ UNCHANGED <<dinode, call, path>>
  BY DEF UnlockParent, At, Unheld
<1>2. /\ my[p]["dp"] # Null /\ my[p].at = Null /\ my[p].cwd # Null
      /\ Where(p) = pc[p] /\ pc[p] \notin {"put", "drop"} /\ call[p] \in Call
      /\ my[p].ip # Null => call[p].op = "link"
  BY <1>1, Types DEF RefsOf, CallOf, WithDp, WithIp, Where
<1>3. d # Null /\ d \in Slot /\ slot[d].ref > 0 /\ "dp" \in Ref
  BY <1>1, DpAt DEF WithDp
<1>4. Failed(p) \in {"link undo", "user"} /\ (Failed(p) = "link undo" <=> my[p].ip # Null)
      /\ Failed(p) \in Label \ {"put", "drop"}
  BY <1>2 DEF Failed, Label
<1>5. /\ my'[p].dp = Null /\ my'[p].put # Null /\ pc'[p] = "put" /\ Where(p)' = Failed(p)
      /\ \A j \in Ref : j # "dp" /\ j # "put" => my'[p][j] = my[p][j]
  BY <1>1, <1>2, <1>3, <1>4, IputIs
<1>6. my'[p].at = Null /\ my'[p].ip = my[p].ip /\ my'[p].cwd # Null
  BY <1>2, <1>5 DEF Ref
<1>7. RefsOf(p)' /\ CallOf(p)' /\ Holds(p)' = Null /\ Holds(p) = d
  BY <1>1, <1>2, <1>4, <1>5, <1>6 DEF RefsOf, CallOf, Holds, WithDp, WithIp
<1>8. slot[d].holder = p
  BY <1>3, <1>7 DEF InodesInv, LockInv
<1> HIDE DEF d
<1>9. /\ slot' \in [Slot -> Inode] /\ Counted(slot', my) /\ Valid(slot', dinode')
      /\ slot'[d].holder = NoProc /\ \A t \in Slot : t # d => slot'[t] = slot[t]
  BY <1>1, <1>3, Types, UnheldIs
<1>10. LocksOf(p)
  BY <1>3, <1>7, <1>8, <1>9, Unlocks
<1>11. dinode' \in [Inum -> Dinode]
  BY <1>1, Types
<1> QED BY <1>1, <1>2, <1>3, <1>4, <1>7, <1>9, <1>10, <1>11, IputEnd

LEMMA LinkedInv == ASSUME InodesInv, NEW p \in Proc, Linked(p) PROVE InodesInv'
<1>1. /\ pc[p] = "linked" /\ Iput(p, "ip", "user") /\ UNCHANGED <<dinode, slot, call, path>>
      /\ "user" \in Label \ {"put", "drop"}
  BY DEF Linked, At, Label
<1>2. my[p]["ip"] # Null /\ "ip" \in Ref /\ pc[p] \notin {"put", "drop"} /\ Where(p) = pc[p]
  BY <1>1, IpAt DEF WithIp
<1>3. RefsOf(p)' /\ CallOf(p)' /\ Holds(p)' = Null
  BY <1>1, IpPut
<1>4. Holds(p)' = Holds(p)
  BY <1>1, <1>2, <1>3 DEF Holds
<1>5. LocksOf(p)
  BY <1>1, <1>4, LocksSame
<1>6. /\ slot' \in [Slot -> Inode] /\ Counted(slot', my) /\ Valid(slot', dinode')
      /\ dinode' \in [Inum -> Dinode]
  BY <1>1, Types
<1> QED BY <1>1, <1>2, <1>3, <1>5, <1>6, IputEnd

-----------------------------------------------------------------------------
(* Link counts. *)

\* One or two slots and their inodes change together.
LEMMA ValidStep ==
    ASSUME NEW f \in [Slot -> Inode], NEW m, Counted(f, m), NEW d, Valid(f, d), NEW g, NEW e,
           NEW s \in Slot, f[s].ref > 0, ValidAt(g, e, s),
           NEW t \in Slot, f[t].ref > 0, ValidAt(g, e, t),
           \A u \in Slot : u # s /\ u # t => g[u] = f[u],
           \A i \in Inum : i # f[s].inum /\ i # f[t].inum => e[i] = d[i]
    PROVE  Valid(g, e)
<1> SUFFICES ASSUME NEW u \in Slot, u # s, u # t
             PROVE  ValidAt(g, e, u)
  BY DEF Valid
<1>1. g[u] = f[u] /\ ValidAt(f, d, u)
  BY DEF Valid
<1>2. CASE f[u].valid
  <2>1. f[u].inum # f[s].inum /\ f[u].inum # f[t].inum /\ f[u].inum \in Inum
    BY <1>2, Apart
  <2> QED BY <1>1, <2>1 DEF ValidAt
<1>3. CASE ~f[u].valid
  BY <1>1, <1>3 DEF ValidAt
<1> QED BY <1>2, <1>3

LEMMA LinksIs ==
    ASSUME InodesInv, NEW f \in [Slot -> Inode], Counted(f, my), Valid(f, dinode),
           NEW s \in Slot, f[s].ref > 0, NEW n \in Int, Links(s, f, n)
    PROVE  /\ slot' \in [Slot -> Inode] /\ Counted(slot', my) /\ Valid(slot', dinode')
           /\ dinode' \in [Inum -> Dinode] /\ slot'[s].holder = NoProc
           /\ \A t \in Slot : t # s => slot'[t] = f[t]
<1> DEFINE i == f[s].inum
<1>1. i \in Inum /\ dinode[i] \in Dinode /\ f[s] \in Inode
  BY Types DEF Counted
<1>2. /\ dinode' = [dinode EXCEPT ![i].nlink = dinode[i].nlink + n]
      /\ slot' = [f EXCEPT ![s].nlink = f[s].nlink + n, ![s].holder = NoProc]
  BY DEF Links
<1> HIDE DEF i
<1>3. /\ dinode'[i] = [dinode[i] EXCEPT !.nlink = dinode[i].nlink + n]
      /\ \A j \in Inum : j # i => dinode'[j] = dinode[j]
  BY <1>1, <1>2, Types
<1>4. dinode'[i].type = dinode[i].type /\ dinode'[i].nlink = dinode[i].nlink + n
      /\ dinode'[i] \in Dinode
  BY <1>1, <1>3 DEF Dinode
<1>5. dinode' \in [Inum -> Dinode]
  BY <1>1, <1>2, <1>3, <1>4, Types
<1>6. /\ slot'[s] = [f[s] EXCEPT !.nlink = f[s].nlink + n, !.holder = NoProc]
      /\ \A t \in Slot : t # s => slot'[t] = f[t]
  BY <1>2
<1>7. /\ slot'[s] \in Inode /\ slot'[s].ref = f[s].ref /\ slot'[s].inum = f[s].inum
      /\ slot'[s].valid = f[s].valid /\ slot'[s].type = f[s].type
      /\ slot'[s].nlink = f[s].nlink + n /\ slot'[s].holder = NoProc
  <2>1. f[s].nlink + n \in Int
    BY <1>1 DEF Inode
  <2> DEFINE k == f[s].nlink + n
  <2>2. slot'[s] = [f[s] EXCEPT !.nlink = k, !.holder = NoProc] /\ k \in Int
    BY <1>6, <2>1
  <2> HIDE DEF k
  <2>3. slot'[s] \in Inode /\ slot'[s].nlink = k /\ slot'[s].holder = NoProc
    BY <1>1, <2>2 DEF Inode
  <2> QED BY <1>1, <2>2, <2>3 DEF Inode, k
<1>8. slot' \in [Slot -> Inode]
  BY <1>2, <1>6, <1>7
<1>9. Counted(slot', my)
  <2>1. f[s].ref # 0
    BY <1>1 DEF Inode
  <2>2. \A t \in Slot : /\ slot'[t].ref = f[t].ref /\ slot'[t].inum = f[t].inum
                        /\ f[t].ref = 0 => slot'[t] = f[t]
    BY <1>6, <1>7, <2>1
  <2> QED BY <2>2, SameCount
<1>10. ValidAt(slot', dinode', s)
  <2>1. ValidAt(f, dinode, s)
    BY DEF Valid
  <2> QED BY <1>4, <1>7, <2>1 DEF ValidAt, i
<1>11. Valid(slot', dinode')
  <2>1. \A j \in Inum : j # f[s].inum => dinode'[j] = dinode[j]
    BY <1>3 DEF i
  <2> QED BY <1>6, <1>10, <2>1, ValidStep
<1> QED BY <1>5, <1>6, <1>7, <1>8, <1>9, <1>11

LEMMA UnlinkedInv == ASSUME InodesInv, NEW p \in Proc, Unlinked(p) PROVE InodesInv'
<1> DEFINE s == my[p].ip
<1>1. /\ pc[p] = "unlinked" /\ Links(s, slot, -1) /\ Iput(p, "ip", "user")
      /\ UNCHANGED <<call, path>> /\ "user" \in Label \ {"put", "drop"} /\ -1 \in Int
  BY DEF Unlinked, At, Label
<1>2. s # Null /\ s \in Slot /\ slot[s].ref > 0 /\ Where(p) = pc[p] /\ "ip" \in Ref
      /\ pc[p] \notin {"put", "drop"}
  BY <1>1, IpAt DEF WithIp
<1>3. my[p]["ip"] # Null
  BY <1>2
<1>4. Holds(p) = s
  BY <1>1, <1>2 DEF Holds
<1>5. slot[s].holder = p
  BY <1>2, <1>4 DEF InodesInv, LockInv
<1>6. RefsOf(p)' /\ CallOf(p)' /\ Holds(p)' = Null
  BY <1>1, IpPut
<1> HIDE DEF s
<1>7. /\ slot' \in [Slot -> Inode] /\ Counted(slot', my) /\ Valid(slot', dinode')
      /\ dinode' \in [Inum -> Dinode] /\ slot'[s].holder = NoProc
      /\ \A t \in Slot : t # s => slot'[t] = slot[t]
  BY <1>1, <1>2, Types, LinksIs
<1>8. LocksOf(p)
  BY <1>2, <1>4, <1>5, <1>6, <1>7, Unlocks
<1> QED BY <1>1, <1>2, <1>3, <1>6, <1>7, <1>8, IputEnd

LEMMA LinkUndoInv == ASSUME InodesInv, NEW p \in Proc, LinkUndo(p) PROVE InodesInv'
<1> DEFINE s == my[p].ip
           f == Relocked(s, NoProc)
<1>1. /\ pc[p] = "link undo" /\ CanLock(s) /\ Links(s, f, -1) /\ Iput(p, "ip", "user")
      /\ UNCHANGED <<call, path>> /\ "user" \in Label \ {"put", "drop"} /\ -1 \in Int
      /\ NoProc \in Proc \cup {NoProc}
  <2>1. Links(s, [slot EXCEPT ![s] = Read(s)], -1)
    BY DEF LinkUndo
  <2>2. [slot EXCEPT ![s] = Read(s)] = f
    BY DEF Relocked, Read
  <2>3. Links(s, f, -1)
    BY <2>1, <2>2
  <2> HIDE DEF f
  <2>4. /\ pc[p] = "link undo" /\ CanLock(s) /\ Iput(p, "ip", "user")
        /\ UNCHANGED <<call, path>>
    BY DEF LinkUndo, At
  <2>5. "user" \in Label \ {"put", "drop"} /\ -1 \in Int
    BY DEF Label
  <2> QED BY <2>3, <2>4, <2>5
<1>2. s # Null /\ s \in Slot /\ slot[s].ref > 0 /\ Where(p) = pc[p] /\ "ip" \in Ref
      /\ pc[p] \notin {"put", "drop"}
  BY <1>1, IpAt DEF WithIp
<1>3. my[p]["ip"] # Null /\ CanLock(my[p]["ip"]) /\ s = my[p]["ip"]
  BY <1>1, <1>2
<1>4. Holds(p) = Null
  BY <1>1, <1>2 DEF Holds
<1>5. RefsOf(p)' /\ CallOf(p)' /\ Holds(p)' = Null
  BY <1>1, IpPut
<1> HIDE DEF s, f
<1>6. /\ f \in [Slot -> Inode] /\ Counted(f, my) /\ Valid(f, dinode)
  BY <1>1, <1>2, <1>3, LockStep DEF f
<1>7. /\ f[s].ref > 0 /\ slot[s].holder = NoProc
      /\ \A t \in Slot : t # s => f[t] = slot[t]
  <2>1. f[s] = Locked(s, NoProc) /\ \A t \in Slot : t # s => f[t] = slot[t]
    BY <1>1, <1>2, LockedSlots DEF f
  <2>2. Locked(s, NoProc).ref = slot[s].ref /\ slot[s].holder = NoProc
    BY <1>1, <1>2, LockIs
  <2> QED BY <1>2, <2>1, <2>2
<1>8. /\ slot' \in [Slot -> Inode] /\ Counted(slot', my) /\ Valid(slot', dinode')
      /\ dinode' \in [Inum -> Dinode] /\ slot'[s].holder = NoProc
      /\ \A t \in Slot : t # s => slot'[t] = f[t]
  BY <1>1, <1>2, <1>6, <1>7, LinksIs
<1>9. LocksOf(p)
  BY <1>2, <1>4, <1>5, <1>7, <1>8, Unlocks
<1> QED BY <1>1, <1>2, <1>3, <1>5, <1>8, <1>9, IputEnd

LEMMA LinkOldInv == ASSUME InodesInv, NEW p \in Proc, LinkOld(p) PROVE InodesInv'
<1> DEFINE s == my[p].ip
           f == [slot EXCEPT ![s] = [Read(s) EXCEPT !.nlink = Read(s).nlink + 1]]
           d == [dinode EXCEPT ![slot[s].inum].nlink = dinode[slot[s].inum].nlink + 1]
<1>1. /\ pc[p] = "link old" /\ CanLock(s) /\ dinode' = d /\ Start(p, f, call[p])
      /\ path' = [path EXCEPT ![p] = call[p].path] /\ Goto(p, "walk")
      /\ UNCHANGED <<ret, call>>
  BY DEF LinkOld, At
<1>2. /\ s # Null /\ my[p].at = Null /\ my[p].dp = Null /\ my[p].put = Null
      /\ my[p].cwd # Null /\ Where(p) = pc[p] /\ call[p] \in Call /\ call[p].op = "link"
  BY <1>1, Types DEF RefsOf, CallOf, WithDp, WithIp, Where
<1>3. s \in Slot /\ slot[s].ref > 0 /\ slot[s].inum \in Inum /\ On(s) \in Dinode
  <2>1. my[p]["ip"] # Null /\ "ip" \in Ref
    BY <1>2 DEF Ref
  <2> QED BY <2>1, PointerAt
<1>4. /\ Read(s) \in Inode /\ Read(s).ref = slot[s].ref /\ Read(s).inum = slot[s].inum
      /\ Read(s).holder = NoProc /\ Read(s).type = On(s).type /\ Read(s).type # "free"
      /\ Read(s).nlink = On(s).nlink /\ slot[s].holder = NoProc
  BY <1>1, <1>3, LockIs DEF Read
<1>5. /\ f[s] = [Read(s) EXCEPT !.nlink = Read(s).nlink + 1]
      /\ \A t \in Slot : t # s => f[t] = slot[t]
  BY <1>3, Types
<1>6. /\ f[s] \in Inode /\ f[s].ref = slot[s].ref /\ f[s].inum = slot[s].inum
      /\ f[s].holder = NoProc /\ f[s].type = On(s).type /\ f[s].type # "free"
      /\ f[s].nlink = On(s).nlink + 1
  BY <1>4, <1>5 DEF Inode
<1>7. f \in [Slot -> Inode]
  BY <1>3, <1>5, <1>6, Types
<1>8. /\ d[slot[s].inum] = [On(s) EXCEPT !.nlink = On(s).nlink + 1]
      /\ \A j \in Inum : j # slot[s].inum => d[j] = dinode[j]
  BY <1>3, Types DEF On
<1>9. /\ d[slot[s].inum].type = On(s).type /\ d[slot[s].inum].nlink = On(s).nlink + 1
      /\ d[slot[s].inum] \in Dinode
  <2>1. On(s) \in Dinode /\ On(s).nlink + 1 \in Int
    BY <1>3 DEF Dinode
  <2> DEFINE k == On(s).nlink + 1
  <2>2. d[slot[s].inum] = [On(s) EXCEPT !.nlink = k]
    BY <1>8
  <2>3. k \in Int
    BY <2>1
  <2> HIDE DEF k, d
  <2>4. /\ d[slot[s].inum].type = On(s).type /\ d[slot[s].inum].nlink = k
        /\ d[slot[s].inum] \in Dinode
    BY <2>1, <2>2, <2>3 DEF Dinode
  <2> QED BY <2>4 DEF k
<1>10. d \in [Inum -> Dinode]
  BY <1>3, <1>8, <1>9, Types
<1> HIDE DEF f, d, s
<1>11. Counted(f, my)
  <2>1. slot[s].ref # 0 /\ Counted(slot, my)
    BY <1>3, Types DEF Inode
  <2>2. \A t \in Slot : /\ f[t].ref = slot[t].ref /\ f[t].inum = slot[t].inum
                        /\ slot[t].ref = 0 => f[t] = slot[t]
    BY <1>5, <1>6, <2>1
  <2> QED BY <2>1, <2>2, SameCount
<1>12. Valid(f, d)
  <2>1. ValidAt(f, d, s)
    BY <1>6, <1>9 DEF ValidAt
  <2> QED BY <1>3, <1>5, <1>8, <2>1, Types, ValidStep
<1>13. /\ slot' \in [Slot -> Inode] /\ Counted(slot', my') /\ Valid(slot', dinode')
       /\ \A t \in Slot : slot'[t].holder = f[t].holder
       /\ my' \in Pointers /\ my'[p].at # Null
       /\ \A j \in Ref : j # "at" => my'[p][j] = my[p][j]
       /\ \A q \in Proc : q # p => my'[q] = my[q]
  <2>1. Valid(f, d) /\ Start(p, f, call[p]) /\ my[p].at = Null
    BY <1>1, <1>2, <1>12
  <2> QED BY <1>1, <1>7, <1>11, <2>1, StartIs
<1>14. /\ my'[p].ip = s /\ my'[p].dp = Null /\ my'[p].put = Null /\ my'[p].cwd # Null
  BY <1>2, <1>13 DEF Ref, s
<1>15. /\ pc' \in [Proc -> Label] /\ pc'[p] = "walk" /\ Where(p)' = "walk"
       /\ \A q \in Proc : q # p => pc'[q] = pc[q]
  <2>1. "walk" \in Label
    BY DEF Label
  <2> QED BY <1>1, <2>1, GotoIs
<1>16. /\ path' \in [Proc -> Path] /\ path'[p] = call[p].path /\ call[p].path # <<>>
       /\ \A q \in Proc : q # p => path'[q] = path[q]
  <2>1. call[p].path \in Path /\ call[p].path # <<>>
    BY <1>2, InodesAssumption
  <2> QED BY <1>1, <2>1, Types
<1>17. RefsOf(p)' /\ CallOf(p)' /\ Holds(p)' = Null /\ Holds(p) = Null
  BY <1>1, <1>2, <1>13, <1>14, <1>15, <1>16 DEF RefsOf, CallOf, Holds, WithDp, WithIp
<1>18. \A t \in Slot : slot'[t].holder = slot[t].holder
  BY <1>4, <1>5, <1>6, <1>13
<1>19. TypeOK' /\ Alone(p)
  BY <1>1, <1>10, <1>13, <1>15, <1>16, Types DEF TypeOK, Pointers, Alone
<1> QED BY <1>13, <1>17, <1>18, <1>19, LocksSame, StepInv

-----------------------------------------------------------------------------
(* Names that are found or made. *)

\* The parent that nameiparent() has returned; what the last name stands for in it.
LEMMA ParentAt ==
    ASSUME InodesInv, NEW p \in Proc, pc[p] \in {"create", "mkdir", "unlink", "link"},
           CanLock(my[p].dp)
    PROVE  /\ my[p]["dp"] # Null /\ CanLock(my[p]["dp"]) /\ "dp" \in Ref /\ Where(p) = pc[p]
           /\ my[p].dp \in Slot /\ slot[my[p].dp].ref > 0
           /\ my[p].at = Null /\ my[p].put = Null /\ my[p].cwd # Null
           /\ my[p].ip # Null <=> pc[p] = "link"
           /\ call[p] \in Call /\ path[p] # <<>> /\ Holds(p) = Null
           /\ NewName(p) \in Name \cup {UpName}
           /\ Lookup(my[p].dp, NewName(p)) # Null => Lookup(my[p].dp, NewName(p)) \in Inum
<1> DEFINE d == my[p].dp
<1>1. pc[p] \in WithDp /\ CanLock(d)
  BY DEF WithDp
<1>2. d # Null /\ d \in Slot /\ slot[d].ref > 0 /\ Where(p) = pc[p] /\ "dp" \in Ref /\ d = my[p]["dp"]
  BY <1>1, DpAt
<1>3. On(d) \in Dinode
  BY <1>2, PointerAt
<1>4. RefsOf(p) /\ CallOf(p)
  BY Types
<1>5. my[p].at = Null /\ my[p].put = Null /\ my[p].cwd # Null /\ (my[p].ip # Null <=> pc[p] = "link")
  BY <1>2, <1>4 DEF RefsOf, WithDp, WithIp
<1>6. call[p] \in Call /\ path[p] # <<>> /\ Holds(p) = Null
  BY <1>2, <1>4 DEF CallOf, WithDp, Holds
<1>7. NewName(p) \in Name \cup {UpName}
  <2>1. path[p] \in Seq(Name \cup {UpName})
    BY Types DEF Path
  <2>2. Len(path[p]) \in Nat \ {0}
    BY <1>6, <2>1, EmptySeq
  <2>3. 1 \in 1 .. Len(path[p])
    BY <2>2
  <2> HIDE DEF d
  <2> QED BY <2>1, <2>3, ElementOfSeq DEF NewName
<1> HIDE DEF d
<1>8. Lookup(d, NewName(p)) # Null => Lookup(d, NewName(p)) \in Inum
  BY <1>3, <1>7, LookupIs
<1> QED BY <1>1, <1>2, <1>5, <1>6, <1>7, <1>8 DEF d

LEMMA CreateFindsInv == ASSUME InodesInv, NEW p \in Proc, CreateFinds(p) PROVE InodesInv'
<1> DEFINE s == my[p].dp
           i == Lookup(s, NewName(p))
           f == Relocked(s, NoProc)
           m == Move(my, p, "dp", "put")
<1>1. /\ pc[p] \in {"create", "mkdir"} /\ CanLock(s) /\ i # Null /\ Iget(f, i)
      /\ my' = [my EXCEPT ![p].ip = SlotOf(f, i), ![p].dp = Null, ![p].put = s]
      /\ ret' = [ret EXCEPT ![p] = "create old"] /\ Goto(p, "put")
      /\ UNCHANGED <<dinode, call, path>>
  BY DEF CreateFinds, At, Relocked, Read
<1>2. /\ my[p]["dp"] # Null /\ CanLock(my[p]["dp"]) /\ "dp" \in Ref /\ Where(p) = pc[p]
      /\ s \in Slot /\ slot[s].ref > 0 /\ my[p].at = Null /\ my[p].put = Null
      /\ my[p].cwd # Null /\ my[p].ip = Null /\ call[p] \in Call /\ Holds(p) = Null
      /\ i \in Inum
  BY <1>1, ParentAt
<1>3. /\ "ip" \in Ref /\ "put" \in Ref /\ "put" \in Label /\ "create old" \in Label \ {"put", "drop"}
      /\ NoProc \in Proc \cup {NoProc}
  BY DEF Ref, Label
<1>4. /\ m \in Pointers /\ \A t \in Slot : Count(m, t) = Count(my, t)
      /\ m[p].dp = Null /\ m[p].put = s
      /\ \A j \in Ref : j # "dp" /\ j # "put" => m[p][j] = my[p][j]
      /\ \A q \in Proc : q # p => m[q] = my[q]
  <2>1. my \in Pointers /\ my[p]["put"] = Null /\ "dp" \in Ref /\ "put" \in Ref
    BY <1>2, <1>3, Types
  <2> QED BY <2>1, MoveIs
<1>5. my' = Put(m, p, "ip", SlotOf(f, i))
  BY <1>1, Types DEF Move, Put, Pointers, Ref
<1>6. m[p]["ip"] = Null /\ m[p].at = Null /\ m[p].cwd # Null
  BY <1>2, <1>4 DEF Ref
<1> HIDE DEF f, i, m
<1>7. /\ f \in [Slot -> Inode] /\ Counted(f, my) /\ Valid(f, dinode)
      /\ \A t \in Slot : f[t].holder = slot[t].holder
  <2>1. s = my[p]["dp"]
    OBVIOUS
  <2> HIDE DEF s
  <2>2. my[p]["dp"] # Null /\ CanLock(my[p]["dp"]) /\ "dp" \in Ref
    BY <1>2
  <2>3. f \in [Slot -> Inode] /\ Counted(f, my) /\ Valid(f, dinode)
    BY <1>3, <2>1, <2>2, LockStep DEF f
  <2>4. slot[s].holder = NoProc
    BY <2>1, <2>2 DEF CanLock, Unlocked
  <2>5. f[s] = Locked(s, NoProc) /\ \A t \in Slot : t # s => f[t] = slot[t]
    BY <1>2, Types DEF f, Relocked
  <2>6. Locked(s, NoProc).holder = NoProc
    BY <1>2, <1>3, <2>1, <2>2, LockIs
  <2> QED BY <2>3, <2>4, <2>5, <2>6
<1>8. Counted(f, m)
  BY <1>4, <1>7, Recounted
<1>9. /\ slot' \in [Slot -> Inode] /\ Counted(slot', my') /\ Valid(slot', dinode')
      /\ \A t \in Slot : slot'[t].holder = f[t].holder
      /\ my' \in Pointers /\ my'[p].ip # Null
      /\ \A j \in Ref : j # "ip" => my'[p][j] = m[p][j]
      /\ \A q \in Proc : q # p => my'[q] = m[q]
  <2>1. Iget(f, i) /\ i \in Inum /\ dinode' = dinode
    BY <1>1, <1>2
  <2>2. m \in Pointers /\ m[p]["ip"] = Null /\ "ip" \in Ref
    BY <1>3, <1>4, <1>6
  <2> QED BY <1>5, <1>7, <1>8, <2>1, <2>2, GetStep, Facts
<1>10. my'[p].put # Null /\ my'[p].at = Null /\ my'[p].dp = Null /\ my'[p].cwd # Null
  BY <1>2, <1>4, <1>6, <1>9 DEF Ref
<1>11. /\ pc' \in [Proc -> Label] /\ pc'[p] = "put" /\ Where(p)' = "create old"
       /\ ret' \in [Proc -> Label \ {"put", "drop"}]
       /\ \A q \in Proc : q # p => pc'[q] = pc[q] /\ ret'[q] = ret[q]
  BY <1>1, <1>3, Types, GotoIs
<1>12. RefsOf(p)' /\ CallOf(p)' /\ Holds(p)' = Holds(p)
  BY <1>1, <1>2, <1>9, <1>10, <1>11 DEF RefsOf, CallOf, Holds, WithDp, WithIp
<1>13. \A t \in Slot : slot'[t].holder = slot[t].holder
  BY <1>7, <1>9
<1>14. TypeOK' /\ Alone(p)
  BY <1>1, <1>4, <1>9, <1>11, Types DEF TypeOK, Pointers, Alone
<1> QED BY <1>9, <1>12, <1>13, <1>14, LocksSame, StepInv

\* p locks the parent and gets a pointer to an inode; d is the disk after that.
LEMMA LockGet ==
    ASSUME InodesInv, NEW p \in Proc, pc[p] \in {"create", "mkdir", "unlink", "link"},
           CanLock(my[p].dp), NEW i \in Inum, Valid(Relocked(my[p].dp, p), dinode'),
           Iget(Relocked(my[p].dp, p), i), NEW k \in Ref, k # "dp", my[p][k] = Null,
           my' = Put(my, p, k, SlotOf(Relocked(my[p].dp, p), i))
    PROVE  /\ slot' \in [Slot -> Inode] /\ Counted(slot', my') /\ Valid(slot', dinode')
           /\ my' \in Pointers /\ my'[p][k] # Null
           /\ \A j \in Ref : j # k => my'[p][j] = my[p][j]
           /\ \A q \in Proc : q # p => my'[q] = my[q]
           /\ Holds(p)' = my[p].dp => LocksOf(p)
<1> DEFINE s == my[p].dp
           f == Relocked(s, p)
<1>1. /\ my[p]["dp"] # Null /\ CanLock(my[p]["dp"]) /\ "dp" \in Ref /\ s \in Slot
      /\ Holds(p) = Null
  BY ParentAt
<1>2. s = my[p]["dp"] /\ p \in Proc \cup {NoProc} /\ Valid(f, dinode') /\ Iget(f, i)
      /\ my' = Put(my, p, k, SlotOf(f, i))
  OBVIOUS
<1> HIDE DEF s, f
<1>3. f \in [Slot -> Inode] /\ Counted(f, my) /\ slot[s].holder = NoProc
  BY <1>1, <1>2, LockStep DEF f
<1>4. \A t \in Slot : f[t].holder = IF t = s THEN p ELSE slot[t].holder
  BY <1>1, <1>2, LockStep DEF f
<1>5. /\ slot' \in [Slot -> Inode] /\ Counted(slot', my') /\ Valid(slot', dinode')
      /\ \A t \in Slot : slot'[t].holder = f[t].holder
      /\ my' \in Pointers /\ my'[p][k] # Null
      /\ \A j \in Ref : j # k => my'[p][j] = my[p][j]
      /\ \A q \in Proc : q # p => my'[q] = my[q]
  <2>1. my \in Pointers
    BY Types
  <2> QED BY <1>2, <1>3, <2>1, GetStep, Facts
<1>6. Holds(p)' = s => LocksOf(p)
  BY <1>1, <1>3, <1>4, <1>5, Takes
<1> QED BY <1>5, <1>6 DEF s

LEMMA UnlinkFindsInv == ASSUME InodesInv, NEW p \in Proc, UnlinkFinds(p) PROVE InodesInv'
<1> DEFINE s == my[p].dp
           i == Lookup(s, NewName(p))
           f == Relocked(s, p)
<1>1. /\ pc[p] = "unlink" /\ CanLock(s) /\ i # Null /\ Iget(f, i)
      /\ my' = Put(my, p, "ip", SlotOf(f, i)) /\ Goto(p, "unlink ip")
      /\ UNCHANGED <<dinode, ret, call, path>>
  BY DEF UnlinkFinds, At, Relocked, Put
<1>2. /\ my[p]["dp"] # Null /\ CanLock(my[p]["dp"]) /\ "dp" \in Ref /\ Where(p) = pc[p]
      /\ my[p].at = Null /\ my[p].put = Null /\ my[p].cwd # Null /\ my[p].ip = Null
      /\ call[p] \in Call /\ path[p] # <<>> /\ i \in Inum
  BY <1>1, ParentAt
<1>3. Valid(f, dinode')
  <2>1. s = my[p]["dp"] /\ p \in Proc \cup {NoProc} /\ dinode' = dinode
    BY <1>1
  <2> HIDE DEF s
  <2> QED BY <1>2, <2>1, LockStep DEF f
<1> HIDE DEF i
<1>4. /\ slot' \in [Slot -> Inode] /\ Counted(slot', my') /\ Valid(slot', dinode')
      /\ my' \in Pointers /\ my'[p]["ip"] # Null
      /\ \A j \in Ref : j # "ip" => my'[p][j] = my[p][j]
      /\ \A q \in Proc : q # p => my'[q] = my[q]
      /\ Holds(p)' = s => LocksOf(p)
  <2>1. "ip" \in Ref /\ my[p]["ip"] = Null
    BY <1>2 DEF Ref
  <2> QED BY <1>1, <1>2, <1>3, <2>1, LockGet
<1>5. my'[p].put = Null /\ my'[p].at = Null /\ my'[p].dp = s /\ my'[p].cwd # Null
  BY <1>2, <1>4 DEF Ref
<1>6. /\ pc' \in [Proc -> Label] /\ pc'[p] = "unlink ip" /\ Where(p)' = "unlink ip"
      /\ \A q \in Proc : q # p => pc'[q] = pc[q]
  <2>1. "unlink ip" \in Label
    BY DEF Label
  <2> QED BY <1>1, <2>1, GotoIs
<1>7. RefsOf(p)' /\ CallOf(p)' /\ Holds(p)' = s
  BY <1>1, <1>2, <1>4, <1>5, <1>6 DEF RefsOf, CallOf, Holds, WithDp, WithIp
<1>8. TypeOK' /\ Alone(p)
  BY <1>1, <1>4, <1>6, Types DEF TypeOK, Pointers, Alone
<1> QED BY <1>4, <1>7, <1>8, StepInv

LEMMA CreateAllocsInv == ASSUME InodesInv, NEW p \in Proc, CreateAllocs(p) PROVE InodesInv'
<1> DEFINE s == my[p].dp
           f == Relocked(s, p)
<1>1. /\ pc[p] \in {"create", "mkdir"} /\ CanLock(s) /\ Goto(p, "create new")
      /\ UNCHANGED <<ret, call, path>>
  BY DEF CreateAllocs, At
<1>2. PICK i \in FreeInodes :
        /\ dinode' = [dinode EXCEPT ![i] = [Free EXCEPT !.type = TypeOf(p)]]
        /\ Iget(f, i) /\ my' = Put(my, p, "ip", SlotOf(f, i))
  BY DEF CreateAllocs, Relocked, Put
<1>3. /\ my[p]["dp"] # Null /\ CanLock(my[p]["dp"]) /\ "dp" \in Ref /\ Where(p) = pc[p]
      /\ my[p].at = Null /\ my[p].put = Null /\ my[p].cwd # Null /\ my[p].ip = Null
      /\ call[p] \in Call /\ path[p] # <<>>
  BY <1>1, ParentAt
<1>4. i \in Inum /\ dinode[i].type = "free"
  BY DEF FreeInodes
<1>5. dinode' \in [Inum -> Dinode] /\ \A j \in Inum : j # i => dinode'[j] = dinode[j]
  <2>1. [Free EXCEPT !.type = TypeOf(p)] \in Dinode
    <3>1. TypeOf(p) \in Type
      BY DEF TypeOf, Type
    <3>2. [Free EXCEPT !.type = TypeOf(p)] =
            [type |-> TypeOf(p), nlink |-> 0, ents |-> [n \in Name |-> Null], up |-> Null]
      BY DEF Free
    <3>3. [n \in Name |-> Null] \in [Name -> Link] /\ Null \in Link
      BY DEF Link
    <3> QED BY <3>1, <3>2, <3>3 DEF Dinode
  <2> QED BY <1>2, <1>4, <2>1, Types
<1>6. Valid(f, dinode')
  <2>1. Valid(f, dinode) /\ Counted(f, my) /\ f \in [Slot -> Inode]
    <3>1. s = my[p]["dp"] /\ p \in Proc \cup {NoProc}
      OBVIOUS
    <3> HIDE DEF s
    <3> QED BY <1>3, <3>1, LockStep DEF f
  <2> HIDE DEF f
  <2>2. ASSUME NEW t \in Slot, f[t].valid
        PROVE  f[t].inum \in Inum /\ f[t].inum # i
    <3>1. f[t].type = dinode[f[t].inum].type /\ f[t].type # "free"
      BY <2>1, <2>2 DEF Valid, ValidAt
    <3>2. f[t].inum \in Inum
      BY <2>1, <2>2 DEF Counted, NoInode
    <3> QED BY <1>4, <3>1, <3>2
  <2> QED BY <1>5, <2>1, <2>2 DEF Valid, ValidAt
<1>7. /\ slot' \in [Slot -> Inode] /\ Counted(slot', my') /\ Valid(slot', dinode')
      /\ my' \in Pointers /\ my'[p]["ip"] # Null
      /\ \A j \in Ref : j # "ip" => my'[p][j] = my[p][j]
      /\ \A q \in Proc : q # p => my'[q] = my[q]
      /\ Holds(p)' = s => LocksOf(p)
  <2>1. "ip" \in Ref /\ my[p]["ip"] = Null
    BY <1>3 DEF Ref
  <2> QED BY <1>1, <1>2, <1>3, <1>4, <1>6, <2>1, LockGet
<1>8. my'[p].put = Null /\ my'[p].at = Null /\ my'[p].dp = s /\ my'[p].cwd # Null
  BY <1>3, <1>7 DEF Ref
<1>9. /\ pc' \in [Proc -> Label] /\ pc'[p] = "create new" /\ Where(p)' = "create new"
      /\ \A q \in Proc : q # p => pc'[q] = pc[q]
  <2>1. "create new" \in Label
    BY DEF Label
  <2> QED BY <1>1, <2>1, GotoIs
<1>10. RefsOf(p)' /\ CallOf(p)' /\ Holds(p)' = s
  BY <1>1, <1>3, <1>7, <1>8, <1>9 DEF RefsOf, CallOf, Holds, WithDp, WithIp
<1>11. TypeOK' /\ Alone(p)
  BY <1>1, <1>5, <1>7, <1>9, Types DEF TypeOK, Pointers, Alone
<1> QED BY <1>7, <1>10, <1>11, StepInv

\* The slots of an inode and of a directory where it gets or loses its name, and
\* the two on the disk.
Entered(f, s, d, x, k) == [f EXCEPT ![s] = x, ![d].nlink = k, ![d].holder = NoProc]

EntryDisk(f, s, d, x, k, e) ==
    /\ e \in [Inum -> Dinode]
    /\ \A j \in Inum : j # f[s].inum /\ j # f[d].inum => e[j] = dinode[j]
    /\ x.type = e[f[s].inum].type /\ x.type # "free" /\ x.nlink = e[f[s].inum].nlink
    /\ e[f[d].inum].type = dinode[f[d].inum].type /\ e[f[d].inum].nlink = k

LEMMA EnteredIs ==
    ASSUME NEW f \in [Slot -> Inode], NEW m, Counted(f, m), NEW s \in Slot, f[s].ref > 0,
           NEW d \in Slot, f[d].ref > 0, s # d, NEW x \in Inode, NEW k \in Int,
           x.ref = f[s].ref, x.inum = f[s].inum
    PROVE  LET g == Entered(f, s, d, x, k)
           IN  /\ g \in [Slot -> Inode] /\ Counted(g, m)
               /\ g[s] = x /\ \A t \in Slot : t # s /\ t # d => g[t] = f[t]
               /\ g[d].inum = f[d].inum /\ g[d].valid = f[d].valid /\ g[d].type = f[d].type
               /\ g[d].nlink = k /\ g[d].holder = NoProc
<1> DEFINE g == Entered(f, s, d, x, k)
<1>1. /\ g[s] = x /\ g[d] = [f[d] EXCEPT !.nlink = k, !.holder = NoProc]
      /\ \A t \in Slot : t # s /\ t # d => g[t] = f[t]
      /\ g = [t \in Slot |-> g[t]]
  BY DEF Entered
<1> HIDE DEF g
<1>2. f[d] \in Inode
  OBVIOUS
<1>3. /\ g[d] \in Inode /\ g[d].ref = f[d].ref /\ g[d].inum = f[d].inum
      /\ g[d].valid = f[d].valid /\ g[d].type = f[d].type
      /\ g[d].nlink = k /\ g[d].holder = NoProc
  BY <1>1, <1>2 DEF Inode
<1>4. g \in [Slot -> Inode]
  <2>1. \A t \in Slot : g[t] \in Inode
    BY <1>1, <1>3
  <2> QED BY <1>1, <2>1
<1>5. Counted(g, m)
  <2>1. f[s].ref # 0 /\ f[d].ref # 0
    BY <1>2 DEF Inode
  <2>2. \A t \in Slot : /\ g[t].ref = f[t].ref /\ g[t].inum = f[t].inum
                        /\ f[t].ref = 0 => g[t] = f[t]
    BY <1>1, <1>3, <2>1
  <2> QED BY <2>2, SameCount
<1> QED BY <1>1, <1>3, <1>4, <1>5 DEF g

LEMMA EnteredValid ==
    ASSUME NEW f \in [Slot -> Inode], NEW m, Counted(f, m), NEW s \in Slot, f[s].ref > 0,
           NEW d \in Slot, f[d].ref > 0, s # d, NEW x \in Inode, NEW k \in Int,
           x.ref = f[s].ref, x.inum = f[s].inum, Valid(f, dinode), NEW e, EntryDisk(f, s, d, x, k, e)
    PROVE  Valid(Entered(f, s, d, x, k), e)
<1> DEFINE g == Entered(f, s, d, x, k)
<1>1. /\ g[s] = x /\ \A t \in Slot : t # s /\ t # d => g[t] = f[t]
      /\ g[d].inum = f[d].inum /\ g[d].valid = f[d].valid /\ g[d].type = f[d].type
      /\ g[d].nlink = k
  BY EnteredIs
<1> HIDE DEF g
<1>2. ValidAt(g, e, s)
  BY <1>1 DEF ValidAt, EntryDisk
<1>3. ValidAt(g, e, d)
  <2>1. ValidAt(f, dinode, d)
    BY DEF Valid
  <2> QED BY <1>1, <2>1 DEF ValidAt, EntryDisk
<1>4. \A i \in Inum : i # f[s].inum /\ i # f[d].inum => e[i] = dinode[i]
  BY DEF EntryDisk
<1>5. Valid(g, e)
  BY <1>1, <1>2, <1>3, <1>4, ValidStep
<1> QED BY <1>5 DEF g

\* The two are apart: p has one locked and nobody the other.
LEMMA EntryApart ==
    ASSUME InodesInv, NEW p \in Proc, pc[p] \in {"create new", "unlink ip"}, CanLock(my[p].ip)
    PROVE  LET s == my[p].ip
               d == my[p].dp
           IN  /\ s # Null /\ s \in Slot /\ slot[s].ref > 0 /\ slot[s].holder = NoProc
               /\ d # Null /\ d \in Slot /\ slot[d].ref > 0 /\ slot[d].holder = p
               /\ s # d /\ Holds(p) = d /\ Where(p) = pc[p]
<1> DEFINE s == my[p].ip
           d == my[p].dp
<1>1. /\ s # Null /\ s \in Slot /\ slot[s].ref > 0 /\ Where(p) = pc[p]
      /\ d # Null /\ d \in Slot /\ slot[d].ref > 0
  BY IpAt, DpAt DEF WithIp, WithDp
<1>2. Holds(p) = d
  BY <1>1 DEF Holds
<1>3. slot[d].holder = p
  BY <1>1, <1>2 DEF InodesInv, LockInv
<1>4. slot[s].holder = NoProc
  BY DEF CanLock, Unlocked
<1> QED BY <1>1, <1>2, <1>3, <1>4, Facts

LEMMA DpPut ==
    ASSUME InodesInv, NEW p \in Proc, pc[p] \in {"create new", "unlink ip"},
           NEW l \in {"created", "unlinked"}, Iput(p, "dp", l), UNCHANGED <<call, path>>
    PROVE  RefsOf(p)' /\ CallOf(p)' /\ Holds(p)' = my[p].ip
<1>1. /\ my[p].at = Null /\ my[p].ip # Null /\ my[p].cwd # Null /\ my[p]["dp"] # Null
      /\ Where(p) = pc[p] /\ pc[p] \notin {"put", "drop"} /\ call[p] \in Call
  BY Types DEF RefsOf, CallOf, WithDp, WithIp, Where
<1>2. "dp" \in Ref /\ l \in Label \ {"put", "drop"}
  BY DEF Ref, Label
<1>3. /\ my'[p].dp = Null /\ my'[p].put # Null /\ pc'[p] = "put" /\ Where(p)' = l
      /\ my'[p].at = Null /\ my'[p].ip = my[p].ip /\ my'[p].cwd # Null
  BY <1>1, <1>2, IputMy
<1> QED BY <1>1, <1>3 DEF RefsOf, CallOf, Holds, WithDp, WithIp

\* The directory is let go and given back, the inode stays locked.
LEMMA EntryInv ==
    ASSUME InodesInv, NEW p \in Proc, pc[p] \in {"create new", "unlink ip"},
           CanLock(my[p].ip), NEW x \in Inode, NEW k \in Int,
           x.ref = slot[my[p].ip].ref /\ x.inum = slot[my[p].ip].inum /\ x.holder = p,
           slot' = Entered(slot, my[p].ip, my[p].dp, x, k),
           EntryDisk(slot, my[p].ip, my[p].dp, x, k, dinode'),
           NEW l \in {"created", "unlinked"}, Iput(p, "dp", l), UNCHANGED <<call, path>>
    PROVE  InodesInv'
<1> DEFINE s == my[p].ip
           d == my[p].dp
<1>1. /\ s # Null /\ s \in Slot /\ slot[s].ref > 0 /\ slot[s].holder = NoProc
      /\ d # Null /\ d \in Slot /\ slot[d].ref > 0 /\ slot[d].holder = p
      /\ s # d /\ Holds(p) = d /\ Where(p) = pc[p] /\ "dp" \in Ref
  BY EntryApart DEF Ref
<1>2. l \in Label \ {"put", "drop"}
  BY DEF Label
<1>3. RefsOf(p)' /\ CallOf(p)' /\ Holds(p)' = s
  BY DpPut
<1>4. slot \in [Slot -> Inode] /\ Counted(slot, my) /\ Valid(slot, dinode)
  BY Types
<1>5. slot' = Entered(slot, s, d, x, k) /\ EntryDisk(slot, s, d, x, k, dinode')
      /\ x.ref = slot[s].ref /\ x.inum = slot[s].inum
  OBVIOUS
<1> HIDE DEF s, d
<1>6. /\ slot' \in [Slot -> Inode] /\ Counted(slot', my)
      /\ slot'[s] = x /\ \A t \in Slot : t # s /\ t # d => slot'[t] = slot[t]
      /\ slot'[d].holder = NoProc
  <2> DEFINE g == Entered(slot, s, d, x, k)
  <2>1. g \in [Slot -> Inode] /\ Counted(g, my)
    BY <1>1, <1>4, <1>5, EnteredIs
  <2>2. /\ g[s] = x /\ \A t \in Slot : t # s /\ t # d => g[t] = slot[t]
        /\ g[d] = [slot[d] EXCEPT !.nlink = k, !.holder = NoProc] /\ slot[d] \in Inode
    BY <1>1, <1>4 DEF Entered
  <2> HIDE DEF g
  <2>3. g[d].holder = NoProc
    BY <2>2 DEF Inode
  <2> QED BY <1>5, <2>1, <2>2, <2>3 DEF g
<1>7. Valid(slot', dinode')
  BY <1>1, <1>4, <1>5, EnteredValid
<1>8. dinode' \in [Inum -> Dinode]
  BY <1>5 DEF EntryDisk
<1>9. LocksOf(p)
  <2>1. \A t \in Slot : slot'[t].holder = IF t = s THEN p ELSE IF t = d THEN NoProc ELSE slot[t].holder
    BY <1>6
  <2> QED BY <1>1, <1>3, <2>1 DEF LocksOf
<1>10. my[p]["dp"] # Null /\ pc[p] \notin {"put", "drop"}
  BY <1>1 DEF d
<1> QED BY <1>1, <1>2, <1>3, <1>6, <1>7, <1>8, <1>9, <1>10, IputEnd

LEMMA InumApart ==
    ASSUME NEW f \in [Slot -> Inode], NEW m, Counted(f, m), NEW s \in Slot, f[s].ref > 0,
           NEW d \in Slot, f[d].ref > 0, s # d
    PROVE  f[s].inum \in Inum /\ f[d].inum \in Inum /\ f[d].inum # f[s].inum
<1>1. f[s].ref \in Nat /\ f[d].ref \in Nat
  BY DEF Inode
<1>2. f[s].ref # 0 /\ f[d].ref # 0
  BY <1>1
<1> QED BY <1>2 DEF Counted

\* The slots of the two, and what is in them.
LEMMA EntryAt ==
    ASSUME InodesInv, NEW p \in Proc, pc[p] \in {"create new", "unlink ip"}, CanLock(my[p].ip)
    PROVE  LET s == my[p].ip
               d == my[p].dp
           IN  /\ slot[s].inum \in Inum /\ slot[d].inum \in Inum /\ slot[d].inum # slot[s].inum
               /\ dinode[slot[s].inum] \in Dinode /\ dinode[slot[d].inum] \in Dinode
               /\ slot[d].nlink \in Int
               /\ Locked(s, p) \in Inode /\ Locked(s, p).holder = p
               /\ Locked(s, p).ref = slot[s].ref /\ Locked(s, p).inum = slot[s].inum
               /\ Locked(s, p).type = dinode[slot[s].inum].type /\ Locked(s, p).type # "free"
               /\ Locked(s, p).nlink = dinode[slot[s].inum].nlink
<1> DEFINE s == my[p].ip
           d == my[p].dp
<1>1. s \in Slot /\ slot[s].ref > 0 /\ d \in Slot /\ slot[d].ref > 0 /\ s # d
  BY EntryApart
<1> HIDE DEF d
<1>2. slot[s].inum \in Inum /\ slot[d].inum \in Inum /\ slot[d].inum # slot[s].inum
  <2>1. slot \in [Slot -> Inode] /\ Counted(slot, my)
    BY Types
  <2> HIDE DEF s
  <2> QED BY <1>1, <2>1, InumApart
<1>3. slot[d].nlink \in Int
  BY <1>1, Types DEF Inode
<1>4. dinode[slot[s].inum] \in Dinode /\ dinode[slot[d].inum] \in Dinode
  BY <1>2, Types
<1>5. CanLock(s)
  OBVIOUS
<1> HIDE DEF s
<1>6. /\ Locked(s, p) \in Inode /\ Locked(s, p).holder = p
      /\ Locked(s, p).ref = slot[s].ref /\ Locked(s, p).inum = slot[s].inum
      /\ Locked(s, p).type = On(s).type /\ Locked(s, p).type # "free"
      /\ Locked(s, p).nlink = On(s).nlink
  BY <1>1, <1>5, LockIs
<1> QED BY <1>2, <1>3, <1>4, <1>6 DEF On, s, d

LEMMA UnlinkInv == ASSUME InodesInv, NEW p \in Proc, Unlink(p) PROVE InodesInv'
<1> DEFINE s == my[p].ip
           d == my[p].dp
           i == slot[s].inum
           j == slot[d].inum
           k == slot[d].nlink - (IF Read(s).type = "dir" THEN 1 ELSE 0)
<1>1. /\ pc[p] = "unlink ip" /\ CanLock(s)
      /\ dinode' = [dinode EXCEPT ![j].nlink = k, ![j].ents[NewName(p)] = Null]
      /\ slot' = Entered(slot, s, d, Locked(s, p), k)
      /\ Iput(p, "dp", "unlinked") /\ UNCHANGED <<call, path>>
  BY DEF Unlink, At, Entered
<1>2. /\ i \in Inum /\ j \in Inum /\ j # i /\ dinode[i] \in Dinode /\ dinode[j] \in Dinode
      /\ slot[d].nlink \in Int
      /\ Locked(s, p) \in Inode /\ Locked(s, p).holder = p
      /\ Locked(s, p).ref = slot[s].ref /\ Locked(s, p).inum = i
      /\ Locked(s, p).type = dinode[i].type /\ Locked(s, p).type # "free"
      /\ Locked(s, p).nlink = dinode[i].nlink
  BY <1>1, EntryAt
<1>3. k \in Int
  BY <1>2
<1> HIDE DEF i, j, k
<1>4. /\ dinode'[j] = [dinode[j] EXCEPT !.nlink = k, !.ents = [dinode[j].ents EXCEPT ![NewName(p)] = Null]]
      /\ \A h \in Inum : h # j => dinode'[h] = dinode[h]
      /\ dinode' = [h \in Inum |-> dinode'[h]]
  BY <1>1, <1>2, Types DEF Dinode
<1>5. dinode'[j] \in Dinode /\ dinode'[j].type = dinode[j].type /\ dinode'[j].nlink = k
  <2>1. [dinode[j].ents EXCEPT ![NewName(p)] = Null] \in [Name -> Link]
    BY <1>2 DEF Dinode, Link
  <2> QED BY <1>2, <1>3, <1>4, <2>1 DEF Dinode
<1>6. dinode' \in [Inum -> Dinode]
  <2>1. \A h \in Inum : dinode'[h] \in Dinode
    BY <1>4, <1>5, Types
  <2> QED BY <1>4, <2>1
<1>7. \A h \in Inum : h # i /\ h # j => dinode'[h] = dinode[h]
  BY <1>4
<1>8. dinode'[i] = dinode[i]
  BY <1>2, <1>4
<1>9. EntryDisk(slot, s, d, Locked(s, p), k, dinode')
  BY <1>2, <1>5, <1>6, <1>7, <1>8 DEF EntryDisk, i, j
<1> QED BY <1>1, <1>2, <1>3, <1>9, EntryInv DEF i

LEMMA CreateNewInv == ASSUME InodesInv, NEW p \in Proc, CreateNew(p) PROVE InodesInv'
<1> DEFINE s == my[p].ip
           d == my[p].dp
           i == slot[s].inum
           j == slot[d].inum
           dir == TypeOf(p) = "dir"
           k == slot[d].nlink + (IF dir THEN 1 ELSE 0)
           x == [Locked(s, p) EXCEPT !.nlink = 1]
           u == IF dir THEN j ELSE dinode[i].up
<1>1. /\ pc[p] = "create new" /\ CanLock(s)
      /\ dinode' = [dinode EXCEPT ![i].nlink = 1, ![i].up = IF dir THEN j ELSE @,
                                  ![j].nlink = k, ![j].ents[NewName(p)] = i]
      /\ slot' = Entered(slot, s, d, x, k)
      /\ Iput(p, "dp", "created") /\ UNCHANGED <<call, path>>
  BY DEF CreateNew, At, Entered
<1>2. /\ i \in Inum /\ j \in Inum /\ j # i /\ dinode[i] \in Dinode /\ dinode[j] \in Dinode
      /\ slot[d].nlink \in Int
      /\ Locked(s, p) \in Inode /\ Locked(s, p).holder = p
      /\ Locked(s, p).ref = slot[s].ref /\ Locked(s, p).inum = i
      /\ Locked(s, p).type = dinode[i].type /\ Locked(s, p).type # "free"
  BY <1>1, EntryAt
<1>3. /\ x \in Inode /\ x.holder = p /\ x.ref = slot[s].ref /\ x.inum = i
      /\ x.type = dinode[i].type /\ x.type # "free" /\ x.nlink = 1
  BY <1>2 DEF Inode
<1>4. k \in Int
  BY <1>2
<1>5. u \in Link
  BY <1>2 DEF Dinode, Link
<1> HIDE DEF i, j, k, dir, x
<1>6. /\ dinode'[i] = [dinode[i] EXCEPT !.nlink = 1, !.up = u]
      /\ dinode'[j] = [dinode[j] EXCEPT !.nlink = k, !.ents = [dinode[j].ents EXCEPT ![NewName(p)] = i]]
      /\ \A h \in Inum : h # i /\ h # j => dinode'[h] = dinode[h]
      /\ dinode' = [h \in Inum |-> dinode'[h]]
  BY <1>1, <1>2, Types DEF Dinode
<1> HIDE DEF u
<1>7. dinode'[i] \in Dinode /\ dinode'[i].type = dinode[i].type /\ dinode'[i].nlink = 1
  <2>1. dinode[i] \in Dinode /\ u \in Link /\ 1 \in Int
    BY <1>2, <1>5
  <2>2. dinode'[i] = [dinode[i] EXCEPT !.nlink = 1, !.up = u]
    BY <1>6
  <2> QED BY <2>1, <2>2 DEF Dinode
<1>8. dinode'[j] \in Dinode /\ dinode'[j].type = dinode[j].type /\ dinode'[j].nlink = k
  <2>1. [dinode[j].ents EXCEPT ![NewName(p)] = i] \in [Name -> Link]
    BY <1>2 DEF Dinode, Link
  <2> QED BY <1>2, <1>4, <1>6, <2>1 DEF Dinode
<1>9. dinode' \in [Inum -> Dinode]
  <2>1. \A h \in Inum : dinode'[h] \in Dinode
    BY <1>6, <1>7, <1>8, Types
  <2> QED BY <1>6, <2>1
<1>10. EntryDisk(slot, s, d, x, k, dinode')
  BY <1>3, <1>6, <1>7, <1>8, <1>9 DEF EntryDisk, i, j
<1> QED BY <1>1, <1>3, <1>4, <1>10, EntryInv DEF i

LEMMA LinkNewInv == ASSUME InodesInv, NEW p \in Proc, LinkNew(p) PROVE InodesInv'
<1> DEFINE d == my[p].dp
           i == Lookup(d, NewName(p))
           f == Relocked(d, p)
           g == Relocked(d, NoProc)
           j == slot[d].inum
           v == slot[my[p].ip].inum
<1>1. pc[p] = "link" /\ CanLock(d) /\ UNCHANGED <<call, path>>
  BY DEF LinkNew, At
<1>2. /\ my[p]["dp"] # Null /\ CanLock(my[p]["dp"]) /\ "dp" \in Ref /\ Where(p) = pc[p]
      /\ d \in Slot /\ slot[d].ref > 0 /\ pc[p] \notin {"put", "drop"}
      /\ my[p].at = Null /\ my[p].put = Null /\ my[p].cwd # Null /\ my[p].ip # Null
      /\ call[p] \in Call /\ path[p] # <<>> /\ Holds(p) = Null
      /\ i # Null => i \in Inum
  BY <1>1, ParentAt
<1>3. call[p].op = "link" /\ my[p].dp # Null
  BY <1>1, <1>2, Types DEF RefsOf
<1>4. "put" \in Ref /\ "put" \in Label /\ {"unlock dp", "linked"} \subseteq Label \ {"put", "drop"}
      /\ NoProc \in Proc \cup {NoProc}
  BY DEF Ref, Label
<1>5. d = my[p]["dp"] /\ v \in Inum /\ j \in Inum
  <2>1. my[p]["ip"] # Null /\ "ip" \in Ref
    BY <1>2 DEF Ref
  <2> QED BY <1>2, <2>1, PointerAt
<1>6. CASE /\ i = Null /\ dinode' = [dinode EXCEPT ![j].ents[NewName(p)] = v]
           /\ slot' = g /\ Iput(p, "dp", "linked")
  <2>1. /\ my'[p].dp = Null /\ my'[p].put # Null /\ pc'[p] = "put" /\ Where(p)' = "linked"
        /\ \A l \in Ref : l # "dp" /\ l # "put" => my'[p][l] = my[p][l]
    <3>1. "linked" \in Label \ {"put", "drop"} /\ my[p]["dp"] # Null /\ "dp" \in Ref
          /\ pc[p] \notin {"put", "drop"} /\ Iput(p, "dp", "linked")
      BY <1>2, <1>4, <1>6
    <3>2. my'[p]["dp"] = Null /\ my'[p].put = my[p]["dp"] /\ pc'[p] = "put" /\ Where(p)' = "linked"
          /\ \A l \in Ref : l # "dp" /\ l # "put" => my'[p][l] = my[p][l]
      BY <3>1, IputIs
    <3> QED BY <3>1, <3>2
  <2>2. my'[p].at = Null /\ my'[p].ip = my[p].ip /\ my'[p].cwd # Null
    BY <1>2, <2>1 DEF Ref
  <2>3. RefsOf(p)' /\ CallOf(p)' /\ Holds(p)' = Holds(p)
    BY <1>1, <1>2, <2>1, <2>2 DEF RefsOf, CallOf, Holds, WithDp, WithIp
  <2> HIDE DEF g, i, j, v, d
  <2>4. g \in [Slot -> Inode] /\ Counted(g, my) /\ Valid(g, dinode)
    BY <1>2, <1>4, <1>5, LockStep DEF g
  <2>5. \A t \in Slot : g[t].holder = slot[t].holder
    <3>1. g[d] = Locked(d, NoProc) /\ \A t \in Slot : t # d => g[t] = slot[t]
      BY <1>2, <1>4, <1>1, LockedSlots DEF g
    <3>2. Locked(d, NoProc).holder = NoProc /\ slot[d].holder = NoProc
      BY <1>1, <1>2, <1>4, LockIs
    <3> QED BY <3>1, <3>2
  <2>6. /\ dinode'[j] = [dinode[j] EXCEPT !.ents = [dinode[j].ents EXCEPT ![NewName(p)] = v]]
        /\ \A h \in Inum : h # j => dinode'[h] = dinode[h]
        /\ dinode' = [h \in Inum |-> dinode'[h]] /\ dinode[j] \in Dinode
    BY <1>5, <1>6, Types DEF Dinode
  <2>7. /\ dinode'[j] \in Dinode /\ dinode'[j].type = dinode[j].type
        /\ dinode'[j].nlink = dinode[j].nlink
    <3>1. [dinode[j].ents EXCEPT ![NewName(p)] = v] \in [Name -> Link]
      BY <1>5, <2>6 DEF Dinode, Link
    <3> QED BY <2>6, <3>1 DEF Dinode
  <2>8. dinode' \in [Inum -> Dinode]
    <3>1. \A h \in Inum : dinode'[h] \in Dinode
      BY <2>6, <2>7, Types
    <3> QED BY <2>6, <3>1
  <2>9. Valid(slot', dinode')
    <3>1. ASSUME NEW t \in Slot, g[t].valid
          PROVE  g[t].inum \in Inum
      BY <2>4, <3>1 DEF Counted, NoInode
    <3>2. \A h \in Inum : dinode'[h].type = dinode[h].type /\ dinode'[h].nlink = dinode[h].nlink
      BY <2>6, <2>7
    <3>3. Valid(g, dinode')
      BY <2>4, <3>1, <3>2 DEF Valid, ValidAt
    <3> QED BY <1>6, <3>3
  <2>10. LocksOf(p)
    BY <1>6, <2>3, <2>5, LocksSame
  <2>11. slot' \in [Slot -> Inode] /\ Counted(slot', my)
    BY <1>6, <2>4
  <2>12. "linked" \in Label \ {"put", "drop"} /\ Iput(p, "dp", "linked")
    BY <1>4, <1>6
  <2> QED BY <1>1, <1>2, <2>3, <2>8, <2>9, <2>10, <2>11, <2>12, IputEnd
<1>7. CASE /\ i # Null /\ Iget(f, i) /\ my' = Put(my, p, "put", SlotOf(f, i))
           /\ ret' = [ret EXCEPT ![p] = "unlock dp"] /\ Goto(p, "put") /\ UNCHANGED dinode
  <2>1. Valid(f, dinode')
    <3>1. p \in Proc \cup {NoProc} /\ dinode' = dinode
      BY <1>7
    <3> HIDE DEF d
    <3> QED BY <1>2, <1>5, <3>1, LockStep DEF f
  <2> HIDE DEF i
  <2>2. /\ slot' \in [Slot -> Inode] /\ Counted(slot', my') /\ Valid(slot', dinode')
        /\ my' \in Pointers /\ my'[p]["put"] # Null
        /\ \A l \in Ref : l # "put" => my'[p][l] = my[p][l]
        /\ \A q \in Proc : q # p => my'[q] = my[q]
        /\ Holds(p)' = d => LocksOf(p)
    <3>1. "put" \in Ref /\ my[p]["put"] = Null /\ i \in Inum
      BY <1>2, <1>4, <1>7
    <3> QED BY <1>1, <1>7, <2>1, <3>1, LockGet
  <2>3. my'[p].at = Null /\ my'[p].dp = d /\ my'[p].cwd # Null /\ my'[p].ip # Null
    BY <1>2, <2>2 DEF Ref
  <2>4. /\ pc' \in [Proc -> Label] /\ pc'[p] = "put" /\ Where(p)' = "unlock dp"
        /\ ret' \in [Proc -> Label \ {"put", "drop"}]
        /\ \A q \in Proc : q # p => pc'[q] = pc[q] /\ ret'[q] = ret[q]
    BY <1>4, <1>7, Types, GotoIs
  <2>5. RefsOf(p)' /\ CallOf(p)' /\ Holds(p)' = d
    BY <1>1, <1>2, <1>3, <2>2, <2>3, <2>4 DEF RefsOf, CallOf, Holds, WithDp, WithIp
  <2>6. TypeOK' /\ Alone(p)
    BY <1>1, <1>7, <2>2, <2>4, Types DEF TypeOK, Pointers, Alone
  <2> QED BY <2>2, <2>5, <2>6, StepInv
<1>8. \/ /\ i = Null
         /\ dinode' = [dinode EXCEPT ![j].ents[NewName(p)] = v]
         /\ slot' = g /\ Iput(p, "dp", "linked")
      \/ /\ i # Null /\ Iget(f, i) /\ my' = Put(my, p, "put", SlotOf(f, i))
         /\ ret' = [ret EXCEPT ![p] = "unlock dp"] /\ Goto(p, "put") /\ UNCHANGED dinode
  BY DEF LinkNew, Relocked, Read, Put
<1> QED BY <1>6, <1>7, <1>8

-----------------------------------------------------------------------------
(* How the system starts, and starts again after a crash. *)

LEMMA StartCount ==
    /\ My0 \in Pointers /\ Slot0 \in [Slot -> Inode] /\ Counted(Slot0, My0)
    /\ \A d : Valid(Slot0, d)
    /\ \A s \in Slot : Slot0[s].holder = NoProc
    /\ \A p \in Proc : /\ My0[p].cwd # Null /\ My0[p].put = Null /\ My0[p].at = Null
                       /\ My0[p].dp = Null /\ My0[p].ip = Null
<1>1. \A p \in Proc : My0[p] = [at |-> Null, ip |-> Null, dp |-> Null, put |-> Null, cwd |-> 1,
                                fd |-> Null]
  BY DEF My0, NoRefs
<1>2. \A p \in Proc, k \in Ref : My0[p][k] = IF k = "cwd" THEN 1 ELSE Null
  BY <1>1 DEF Ref
<1>3. My0 \in Pointers
  <2>1. \A p \in Proc : My0[p] \in [Ref -> Slot \cup {Null}]
    <3> SUFFICES ASSUME NEW p \in Proc
                 PROVE  My0[p] \in [Ref -> Slot \cup {Null}]
      OBVIOUS
    <3>1. My0[p] = [k \in Ref |-> IF k = "cwd" THEN 1 ELSE Null]
      BY <1>1 DEF Ref
    <3> QED BY <3>1, Facts
  <2> QED BY <2>1 DEF My0, Pointers
<1>4. Cardinality(Proc) \in Nat /\ Cardinality(Proc) > 0
  <2>1. Cardinality(Proc) \in Nat /\ Cardinality(Proc) # 0
    BY Facts, FS_CardinalityType, FS_EmptySet
  <2> QED BY <2>1
<1>5. Slot0[1] = [inum |-> ROOTINO, ref |-> Cardinality(Proc), valid |-> FALSE, type |-> "free",
                  nlink |-> 0, holder |-> NoProc]
  BY Facts DEF Slot0, NoInode
<1>6. \A s \in Slot : s # 1 => Slot0[s] = NoInode
  BY DEF Slot0
<1>7. NoInode \in Inode /\ NoInode.ref = 0 /\ NoInode.holder = NoProc /\ ~NoInode.valid
  BY DEF NoInode, Inode, Type, Link
<1>8. Slot0 \in [Slot -> Inode]
  <2>1. Slot0[1] \in Inode
    BY <1>4, <1>5, Facts DEF Inode, Type, Link
  <2>2. \A s \in Slot : Slot0[s] \in Inode
    BY <1>6, <1>7, <2>1
  <2>3. Slot0 = [s \in Slot |-> Slot0[s]]
    BY DEF Slot0
  <2> QED BY <2>2, <2>3
<1>9. Count(My0, 1) = Cardinality(Proc)
  <2>1. Ptr(My0, 1) = Proc \X {"cwd"}
    <3>1. \A x \in Proc \X Ref : My0[x[1]][x[2]] = 1 <=> x[2] = "cwd"
      BY <1>2 DEF Null
    <3>2. "cwd" \in Ref
      BY DEF Ref
    <3> QED BY <3>1, <3>2 DEF Ptr
  <2>2. IsFiniteSet({"cwd"}) /\ Cardinality({"cwd"}) = 1
    BY FS_Singleton
  <2>3. Cardinality(Proc \X {"cwd"}) = Cardinality(Proc) * Cardinality({"cwd"})
    BY <2>2, Facts, FS_Product
  <2>4. Cardinality(Proc) * 1 = Cardinality(Proc)
    BY <1>4
  <2> QED BY <2>1, <2>2, <2>3, <2>4 DEF Count
<1>10. \A s \in Slot : s # 1 => Count(My0, s) = 0
  <2> SUFFICES ASSUME NEW s \in Slot, s # 1
               PROVE  Count(My0, s) = 0
    OBVIOUS
  <2>1. s # Null
    BY Facts
  <2>2. Ptr(My0, s) = {}
    BY <1>2, <2>1 DEF Ptr
  <2> QED BY <2>2, FS_EmptySet DEF Count
<1>11. Counted(Slot0, My0)
  <2>1. ASSUME NEW s \in Slot
        PROVE  /\ Slot0[s].ref = Count(My0, s)
               /\ IF Slot0[s].ref = 0 THEN Slot0[s] = NoInode ELSE Slot0[s].inum \in Inum
    <3>1. CASE s = 1
      BY <1>4, <1>5, <1>9, <3>1, Facts
    <3>2. CASE s # 1
      BY <1>6, <1>7, <1>10, <3>2
    <3> QED BY <3>1, <3>2
  <2>2. \A s \in Slot : Slot0[s].ref > 0 => s = 1
    BY <1>6, <1>7
  <2> QED BY <2>1, <2>2 DEF Counted
<1>12. \A s \in Slot : ~Slot0[s].valid /\ Slot0[s].holder = NoProc
  BY <1>5, <1>6, <1>7
<1>13. \A d : Valid(Slot0, d)
  BY <1>12 DEF Valid, ValidAt
<1>14. \A p \in Proc : /\ My0[p].cwd # Null /\ My0[p].put = Null /\ My0[p].at = Null
                       /\ My0[p].dp = Null /\ My0[p].ip = Null
  BY <1>1 DEF Null
<1> QED BY <1>3, <1>8, <1>11, <1>12, <1>13, <1>14

LEMMA InitInv == ASSUME Init PROVE InodesInv
<1>1. slot = Slot0 /\ my = My0
  BY DEF Init
<1>2. \A p \in Proc : pc[p] = "user" /\ ret[p] = "user" /\ call[p] = NoCall /\ path[p] = <<>>
                      /\ Where(p) = "user"
  BY DEF Init, Where
<1>3. dinode \in [Inum -> Dinode]
  <2>1. [n \in Name |-> Null] \in [Name -> Link] /\ Null \in Link /\ ROOTINO \in Link
    BY Facts DEF Link
  <2>2. Free \in Dinode
    BY <2>1 DEF Free, Dinode, Type
  <2>3. [Free EXCEPT !.type = "dir", !.nlink = 1, !.up = ROOTINO] \in Dinode
    <3> DEFINE a == [Free EXCEPT !.type = "dir"]
               b == [a EXCEPT !.nlink = 1]
    <3>1. a \in Dinode
      BY <2>2 DEF Dinode, Type
    <3> HIDE DEF a
    <3>2. b \in Dinode
      BY <3>1 DEF Dinode
    <3> HIDE DEF b
    <3>3. [b EXCEPT !.up = ROOTINO] \in Dinode
      BY <2>1, <3>2 DEF Dinode
    <3> QED BY <3>3 DEF a, b
  <2> QED BY <2>2, <2>3 DEF Init
<1>4. TypeOK
  <2>1. "user" \in Label /\ "user" \in Label \ {"put", "drop"} /\ NoCall \in Calls /\ <<>> \in Path
    BY DEF Label, Calls, Path
  <2>2. pc \in [Proc -> Label] /\ ret \in [Proc -> Label \ {"put", "drop"}]
        /\ call \in [Proc -> Calls] /\ path \in [Proc -> Path]
    BY <2>1 DEF Init
  <2> QED BY <1>1, <1>3, <2>2, StartCount DEF TypeOK, Pointers
<1>5. \A p \in Proc : RefsOf(p) /\ CallOf(p) /\ Holds(p) = Null
  BY <1>1, <1>2, StartCount DEF RefsOf, CallOf, Holds, WithDp, WithIp
<1>6. LockInv
  BY <1>1, <1>5, StartCount, Facts DEF LockInv
<1> QED BY <1>1, <1>4, <1>5, <1>6, StartCount DEF InodesInv, ProcInv

LEMMA CrashInv == ASSUME InodesInv, Crash PROVE InodesInv'
<1>1. slot' = Slot0 /\ my' = My0 /\ UNCHANGED <<dinode, pc, ret, call, path>>
  BY DEF Crash
<1>2. \A p \in Proc : pc'[p] = "user" /\ Where(p)' = "user"
  BY DEF Crash, Where
<1>3. TypeOK'
  BY <1>1, Types, StartCount DEF TypeOK, Pointers
<1>4. \A p \in Proc : RefsOf(p)' /\ CallOf(p)' /\ Holds(p)' = Null
  BY <1>1, <1>2, StartCount DEF RefsOf, CallOf, Holds, WithDp, WithIp
<1>5. LockInv'
  BY <1>1, <1>4, StartCount, Facts DEF LockInv
<1>6. Counted(slot', my') /\ Valid(slot', dinode')
  BY <1>1, StartCount
<1> QED BY <1>3, <1>4, <1>5, <1>6 DEF InodesInv, ProcInv

-----------------------------------------------------------------------------
(* Every step. *)

LEMMA ProcStepInv == ASSUME InodesInv, NEW p \in Proc, Step(p) PROVE InodesInv'
<1>1. CASE IputCheck(p) \/ IputDrop(p)
  BY <1>1, IputCheckInv, IputDropInv
<1>2. CASE \E c \in Call : CallStart(p, c)
  BY <1>2, CallStartInv
<1>3. CASE WalkFails(p) \/ WalkParent(p) \/ Walk(p) \/ WalkEnd(p)
  BY <1>3, WalkFailsInv, WalkParentInv, WalkInv, WalkEndInv
<1>4. CASE Open(p) \/ Chdir(p) \/ Close(p)
  BY <1>4, OpenInv, ChdirInv, CloseInv
<1>5. CASE CreateFinds(p) \/ CreateOld(p) \/ CreateAllocs(p) \/ CreateNew(p) \/ Created(p)
  BY <1>5, CreateFindsInv, CreateOldInv, CreateAllocsInv, CreateNewInv, CreatedInv
<1>6. CASE UnlinkNothing(p) \/ UnlinkFinds(p) \/ UnlinkRefused(p) \/ UnlockParent(p)
  BY <1>6, UnlinkNothingInv, UnlinkFindsInv, UnlinkRefusedInv, UnlockParentInv
<1>7. CASE Unlink(p) \/ Unlinked(p)
  BY <1>7, UnlinkInv, UnlinkedInv
<1>8. CASE LinkRefused(p) \/ LinkOld(p) \/ LinkNew(p) \/ Linked(p) \/ LinkUndo(p)
  BY <1>8, LinkRefusedInv, LinkOldInv, LinkNewInv, LinkedInv, LinkUndoInv
<1> QED BY <1>1, <1>2, <1>3, <1>4, <1>5, <1>6, <1>7, <1>8 DEF Step

LEMMA NextInv == InodesInv /\ [Next]_vars => InodesInv'
<1> SUFFICES ASSUME InodesInv, [Next]_vars PROVE InodesInv'
  OBVIOUS
<1>1. CASE Next
  BY <1>1, ProcStepInv, CrashInv DEF Next
<1>2. CASE UNCHANGED vars
  <2>1. UNCHANGED <<dinode, slot, my, pc, ret, call, path>>
    BY <1>2 DEF vars
  <2>2. TypeOK'
    BY <2>1, Types DEF TypeOK, Pointers
  <2>3. \A p \in Proc : RefsOf(p)' /\ CallOf(p)'
    <3> SUFFICES ASSUME NEW p \in Proc PROVE RefsOf(p)' /\ CallOf(p)'
      OBVIOUS
    <3>1. RefsOf(p) /\ CallOf(p)
      BY Types
    <3>2. RefsOf(p)'
      BY <2>1, <3>1 DEF RefsOf, Where
    <3>3. CallOf(p)'
      BY <2>1, <3>1 DEF CallOf, WantsParent, Where
    <3> QED BY <3>2, <3>3
  <2>4. LockInv'
    <3>1. \A p \in Proc : Holds(p)' = Holds(p)
      BY <2>1 DEF Holds, Where
    <3> QED BY <2>1, <3>1 DEF InodesInv, LockInv
  <2>5. Counted(slot', my') /\ Valid(slot', dinode')
    BY <2>1, Types
  <2> QED BY <2>2, <2>3, <2>4, <2>5 DEF InodesInv, ProcInv
<1> QED BY <1>1, <1>2

\* The variables keep their types, a process has the pointers and the lock its place
\* in the code says, the references of a slot are the pointers to it, and what is
\* valid in the cache is what the disk says.
THEOREM InodesInvariant == Spec => []InodesInv
<1>1. Init => InodesInv
  BY InitInv
<1> QED BY <1>1, NextInv, PTL DEF Spec

LEMMA InvCoherent == ASSUME InodesInv PROVE CacheCoherent
<1>1. \A s \in Slot : References(s) = Ptr(my, s)
  BY DEF References, Ptr, NoRefs, Ref
<1>2. ASSUME NEW s \in Slot
      PROVE  slot[s].ref = Cardinality(References(s))
  BY <1>1, Types DEF Counted, Count
<1>3. ASSUME NEW s \in Slot, slot[s].holder # NoProc
      PROVE  \E k \in DOMAIN NoRefs : my[slot[s].holder][k] = s
  <2>1. slot[s].holder \in Proc
    BY <1>3, Types DEF Inode
  <2>2. Holds(slot[s].holder) = s
    BY <2>1 DEF InodesInv, LockInv
  <2>3. my[slot[s].holder]["dp"] = s \/ my[slot[s].holder]["ip"] = s
    BY <2>2, Facts DEF Holds
  <2>4. "dp" \in DOMAIN NoRefs /\ "ip" \in DOMAIN NoRefs
    BY DEF NoRefs
  <2> QED BY <2>3, <2>4
<1>4. ASSUME NEW s \in Slot, slot[s].valid
      PROVE  /\ slot[s].type = On(s).type /\ slot[s].type # "free"
             /\ slot[s].nlink = On(s).nlink
  BY <1>4, Types DEF Valid, ValidAt, On
<1>5. \A s, t \in Slot :
        slot[s].ref > 0 /\ slot[t].ref > 0 /\ slot[s].inum = slot[t].inum => s = t
  BY Types DEF Counted
<1> QED BY <1>2, <1>3, <1>4, <1>5 DEF CacheCoherent

\* An inode has one slot, whose count is the number of pointers to it; who holds its
\* lock has such a pointer, and a valid slot says what the disk says, through every
\* iget(), ilock(), iput() and iupdate(): the promise of fs.c about the inode cache.
THEOREM Coherent == Spec => []CacheCoherent
BY InodesInvariant, InvCoherent, PTL
=============================================================================
