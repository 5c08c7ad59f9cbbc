---------------------------- MODULE InodesProps ----------------------------
(* What the inode cache and the directories must keep, and the tree of       *)
(* names they implement.                                                     *)
EXTENDS Inodes

-----------------------------------------------------------------------------
(* The tree on the disk. *)

IsDir(i) == dinode[i].type = "dir"
Below(D) ==
    D \cup ({dinode[d].ents[n] : d \in {e \in D : IsDir(e)}, n \in Name} \ {Null})

\* The inodes that have a path from the root.
Reached ==
    LET R[k \in 1 .. Cardinality(Inum)] == IF k = 1 THEN {ROOTINO} ELSE Below(R[k - 1])
    IN  R[Cardinality(Inum)]

Entries ==
    LET Used(d) == {n \in Name : dinode[d].ents[n] # Null}
    IN  UNION {{[dir |-> d, name |-> n, inum |-> dinode[d].ents[n],
                 type |-> dinode[dinode[d].ents[n]].type] : n \in Used(d)}
               : d \in {e \in Reached : IsDir(e)}}

Tree == INSTANCE NameTree WITH names <- Entries

(* Paths are walked with one directory locked at a time, names are made and  *)
(* removed in several steps, in directories that others may have removed or  *)
(* have as their current directory: programs see a tree of names that gets   *)
(* or loses one at a time, and loses no directory that has names in it.      *)
ImplementsNameTree == Tree!Spec

(* The order of link() (count first, name later) and unlink() (name first,   *)
(* count later), against calls under way and crashes: a name reached from    *)
(* the root is that of an allocated inode, which counts at least the names   *)
(* and the subdirectories it has, so that iput() frees no inode in use; a    *)
(* directory has one name, in the directory its ".." says.                   *)
TreeSound ==
    LET entries == Entries
    IN  /\ \A e \in entries : e.type # "free"
        /\ \A e \in entries :
             LET i == e.inum
                 named == {f \in entries : f.inum = i}
                 under == {f \in entries : f.dir = i /\ f.type = "dir"}
             IN  /\ dinode[i].nlink >= Cardinality(named) + Cardinality(under)
                 /\ e.type = "dir" => named = {e} /\ dinode[i].up = e.dir

-----------------------------------------------------------------------------
(* The cache. *)

References(s) == {x \in Proc \X DOMAIN NoRefs : my[x[1]][x[2]] = s}

(* The cache entry of an inode is found again by its number alone, may be    *)
(* freed and allocated anew while an iput() is on its way out, and is read   *)
(* from the disk only when it is not valid: an inode has one entry, which    *)
(* counts the pointers to it; who has the lock has a pointer; a valid entry  *)
(* says what the disk says.                                                  *)
CacheCoherent ==
    /\ \A s \in Slot :
         /\ slot[s].ref = Cardinality(References(s))
         /\ slot[s].holder # NoProc => \E k \in DOMAIN NoRefs : my[slot[s].holder][k] = s
         /\ slot[s].valid => /\ slot[s].type = On(s).type /\ slot[s].type # "free"
                             /\ slot[s].nlink = On(s).nlink
    /\ \A s, t \in Slot :
         slot[s].ref > 0 /\ slot[t].ref > 0 /\ slot[s].inum = slot[t].inum => s = t

(* Names of inodes outlive the lock under which they were read: between      *)
(* dirlookup() and ilock() only the reference keeps the inode.  No panic of  *)
(* ilock() or sys_unlink() is reached as long as no path has ".." in it.     *)
NoPanic == \A p \in Proc : ~Panics(p)

-----------------------------------------------------------------------------
(* Deadlocks. *)

WaitsFor(p, q) == Wants(p) # Null /\ slot[Wants(p)].holder = q
Deadlocked(D) == D # {} /\ \A p \in D : \E q \in D : WaitsFor(p, q)

\* In an iput() while a lock is held.
PutsWhileLocking(p) ==
    At(p, "put") /\ \E s \in Slot : slot[s].holder = p

(* Locks are taken from the parent to the child, except that iput() takes    *)
(* the lock of the parent again while create() and sys_unlink() have the     *)
(* child locked: every deadlock goes through such an iput().                 *)
OnlyIputDeadlocks == \A D \in SUBSET Proc : Deadlocked(D) => \E p \in D : PutsWhileLocking(p)

=============================================================================
