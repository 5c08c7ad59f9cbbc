------------------------------- MODULE Inodes -------------------------------
(***************************************************************************)
(* Inodes, their cache, directories and path names (fs.c) and the system   *)
(* calls on names (sysfile.c), the same in all four projects.              *)
(*                                                                         *)
(* An action goes from the acquisition of the sleep lock of an inode to    *)
(* the next one; what comes before it is done under a spin lock or belongs *)
(* to the process alone.  Only iput() has a step of its own after it let   *)
(* the lock go, where it counts the reference down.  A directory is a      *)
(* table of names; the contents of files and the blocks they are in are    *)
(* left out.  All calls happen inside a transaction of the log, so a crash *)
(* finds on the disk what was there between two calls, when none was under *)
(* way (module Log).                                                       *)
(*                                                                         *)
(* A definition marked "Slip" is no part of the specification: it is a     *)
(* plausible mistake in the definition below it, kept to show that the     *)
(* properties would see it.                                                *)
(***************************************************************************)
EXTENDS Integers, Sequences, FiniteSets, FiniteSetsExt

CONSTANTS
    Proc,
    Inum, ROOTINO,
    NINODE,        \* slots of the inode cache
    Name, UpName,  \* what entries are called, and ".."
    Call           \* the system calls programs make

Slot == 1 .. NINODE
Null == 0
NoProc == "none"
Path == Seq(Name \cup {UpName})

\* nameiparent() of the empty path fails at once: such a call does nothing.
ASSUME InodesAssumption ==
    /\ IsFiniteSet(Proc) /\ Proc # {} /\ NoProc \notin Proc
    /\ ROOTINO \in Inum /\ Null \notin Inum
    /\ NINODE \in Nat \ {0}
    /\ UpName \notin Name
    /\ \A c \in Call :
         /\ c.op \in {"open", "chdir", "create", "mkdir", "unlink", "link"}
         /\ c.path \in Path
         /\ c.op = "link" => c.old \in Path
         /\ c.op \in {"create", "mkdir", "unlink", "link"} => c.path # <<>>

NoCall == [op |-> "none", path |-> <<>>]

VARIABLES
    dinode,    \* the inodes on the disk, a directory with its entries
    slot,      \* icache.inode
    my,        \* the references of a process: struct inode pointers
    pc, ret,   \* where a process is, and where iput() returns to
    call, path \* its system call, and what is left of the path

vars == <<dinode, slot, my, pc, ret, call, path>>

Free == [type |-> "free", nlink |-> 0, ents |-> [n \in Name |-> Null], up |-> Null]
NoInode == [inum |-> Null, ref |-> 0, valid |-> FALSE, type |-> "free", nlink |-> 0,
            holder |-> NoProc]

\* namex() is at "at"; ip, dp as in the code; put is the argument of iput().
NoRefs == [at |-> Null, ip |-> Null, dp |-> Null, put |-> Null, cwd |-> Null, fd |-> Null]

At(p, l) == pc[p] = l
Goto(p, l) == pc' = [pc EXCEPT ![p] = l]

-----------------------------------------------------------------------------
(* The inode cache. *)

\* iget(): the slot an inode is in, or gets.
SlotOf(f, i) ==
    LET with == {s \in Slot : f[s].ref > 0 /\ f[s].inum = i}
    IN  IF with # {} THEN Min(with) ELSE Min({s \in Slot : f[s].ref = 0})

Gotten(f, i) ==
    LET s == SlotOf(f, i)
    IN  [f EXCEPT ![s] = IF f[s].ref > 0 THEN [f[s] EXCEPT !.ref = @ + 1]
                         ELSE [NoInode EXCEPT !.inum = i, !.ref = 1]]

\* Without a slot for it iget() panics.
Iget(f, i) ==
    /\ \E s \in Slot : f[s].ref = 0 \/ f[s].inum = i
    /\ slot' = Gotten(f, i)

\* The inode in a slot, on the disk.
On(s) == dinode[slot[s].inum]

Unlocked(s) == slot[s].holder = NoProc
\* ilock() can be had and does not panic.
CanLock(s) == Unlocked(s) /\ (slot[s].valid \/ On(s).type # "free")

\* A slot after ilock(), when p has it.
Locked(s, p) ==
    [slot[s] EXCEPT !.holder = p, !.valid = TRUE,
                    !.type = IF slot[s].valid THEN @ ELSE On(s).type,
                    !.nlink = IF slot[s].valid THEN @ ELSE On(s).nlink]
\* ... and when it was let go again.
Read(s) == Locked(s, NoProc)

Lookup(s, n) == IF n = UpName THEN On(s).up ELSE On(s).ents[n]

\* iput() of reference k is next, and goes to l after that.
Iput(p, k, l) ==
    /\ my' = [my EXCEPT ![p].put = my[p][k], ![p][k] = Null]
    /\ ret' = [ret EXCEPT ![p] = l]
    /\ Goto(p, "put")

\* Slip: the slot of the inode that was freed stays valid.
SlipIputCheck(p) ==
    LET s == my[p].put
        last == slot[s].valid /\ slot[s].nlink = 0 /\ slot[s].ref = 1
    IN  /\ At(p, "put") /\ Unlocked(s)
        /\ IF last
           THEN /\ dinode' = [dinode EXCEPT ![slot[s].inum] = Free]
                /\ slot' = [slot EXCEPT ![s].type = "free"]
           ELSE UNCHANGED <<dinode, slot>>
        /\ Goto(p, "drop")
        /\ UNCHANGED <<my, ret, call, path>>

\* Slip: ip->ref is not looked at.
SlipIputFree(p) ==
    LET s == my[p].put
    IN  /\ At(p, "put") /\ Unlocked(s)
        /\ IF slot[s].valid /\ slot[s].nlink = 0
           THEN /\ dinode' = [dinode EXCEPT ![slot[s].inum] = Free]
                /\ slot' = [slot EXCEPT ![s].type = "free", ![s].valid = FALSE]
           ELSE UNCHANGED <<dinode, slot>>
        /\ Goto(p, "drop")
        /\ UNCHANGED <<my, ret, call, path>>

\* iput() under the lock: without links and with no other reference the inode
\* is truncated and freed.
IputCheck(p) ==
    LET s == my[p].put
        last == slot[s].valid /\ slot[s].nlink = 0 /\ slot[s].ref = 1
    IN  /\ At(p, "put") /\ Unlocked(s)
        /\ IF last
           THEN /\ dinode' = [dinode EXCEPT ![slot[s].inum] = Free]
                /\ slot' = [slot EXCEPT ![s].type = "free", ![s].valid = FALSE]
           ELSE UNCHANGED <<dinode, slot>>
        /\ Goto(p, "drop")
        /\ UNCHANGED <<my, ret, call, path>>

\* Back to the program.
Return(p) ==
    /\ Goto(p, "user")
    /\ call' = [call EXCEPT ![p] = NoCall]
    /\ path' = [path EXCEPT ![p] = <<>>]

\* The rest of iput(); nobody looks at a slot without references.
IputDrop(p) ==
    LET s == my[p].put
    IN  /\ At(p, "drop")
        /\ slot' = [slot EXCEPT ![s] = IF slot[s].ref = 1 THEN NoInode
                                         ELSE [slot[s] EXCEPT !.ref = @ - 1]]
        /\ my' = [my EXCEPT ![p].put = Null]
        /\ ret' = [ret EXCEPT ![p] = "user"]
        /\ IF ret[p] = "user" THEN Return(p) ELSE Goto(p, ret[p]) /\ UNCHANGED <<call, path>>
        /\ UNCHANGED dinode

-----------------------------------------------------------------------------
(* namex() *)

\* Where a path starts.
Start(p, f, c) ==
    LET i == IF c.from = "root" THEN ROOTINO ELSE f[my[p].cwd].inum
    IN  /\ Iget(f, i)
        /\ my' = [my EXCEPT ![p].at = SlotOf(f, i)]

CallStart(p, c) ==
    /\ At(p, "user")
    /\ Start(p, slot, c)
    /\ call' = [call EXCEPT ![p] = c]
    /\ path' = [path EXCEPT ![p] = IF c.op = "link" THEN c.old ELSE c.path]
    /\ Goto(p, "walk")
    /\ UNCHANGED <<dinode, ret>>

\* nameiparent() rather than namei()
WantsParent(p) ==
    call[p].op \in {"create", "mkdir", "unlink"} \/ (call[p].op = "link" /\ my[p].ip # Null)

\* Where a call goes on when there is no such path.
Failed(p) == IF call[p].op = "link" /\ my[p].ip # Null THEN "link undo" ELSE "user"

\* One turn of the loop: no directory, or no such name.
WalkFails(p) ==
    LET s == my[p].at
        n == Head(path[p])
    IN  /\ At(p, "walk") /\ path[p] # <<>> /\ CanLock(s)
        /\ \/ Read(s).type # "dir"
           \/ ~(WantsParent(p) /\ Len(path[p]) = 1) /\ Lookup(s, n) = Null
        /\ slot' = [slot EXCEPT ![s] = Read(s)]
        /\ Iput(p, "at", Failed(p))
        /\ UNCHANGED <<dinode, call, path>>

\* Stop one level early.
WalkParent(p) ==
    LET s == my[p].at
    IN  /\ At(p, "walk") /\ Len(path[p]) = 1 /\ WantsParent(p) /\ CanLock(s)
        /\ Read(s).type = "dir"
        /\ slot' = [slot EXCEPT ![s] = Read(s)]
        /\ my' = [my EXCEPT ![p].dp = s, ![p].at = Null]
        /\ Goto(p, call[p].op)
        /\ UNCHANGED <<dinode, ret, call, path>>

Walk(p) ==
    LET s == my[p].at
        i == Lookup(s, Head(path[p]))
        f == [slot EXCEPT ![s] = Read(s)]
    IN  /\ At(p, "walk") /\ path[p] # <<>> /\ CanLock(s)
        /\ ~(WantsParent(p) /\ Len(path[p]) = 1)
        /\ Read(s).type = "dir" /\ i # Null
        /\ Iget(f, i)
        /\ my' = [my EXCEPT ![p].at = SlotOf(f, i), ![p].put = s]
        /\ path' = [path EXCEPT ![p] = Tail(@)]
        /\ ret' = [ret EXCEPT ![p] = "walk"]
        /\ Goto(p, "put")
        /\ UNCHANGED <<dinode, call>>

\* namei() has got to the end.
WalkEnd(p) ==
    /\ At(p, "walk") /\ path[p] = <<>>
    /\ my' = [my EXCEPT ![p].ip = my[p].at, ![p].at = Null]
    /\ Goto(p, IF call[p].op = "link" THEN "link old" ELSE call[p].op)
    /\ UNCHANGED <<dinode, slot, ret, call, path>>

-----------------------------------------------------------------------------
(* open() without O_CREATE, chdir(), close() *)

\* The end of sys_open(), with ip locked: a descriptor, or none is left.
Opened(p, f) ==
    LET s == my[p].ip
    IN  /\ slot' = [f EXCEPT ![s].holder = NoProc]
        /\ \/ /\ my[p].fd = Null
              /\ my' = [my EXCEPT ![p].fd = s, ![p].ip = Null]
              /\ Return(p) /\ UNCHANGED ret
           \/ /\ my[p].fd # Null
              /\ Iput(p, "ip", "user")
              /\ UNCHANGED <<call, path>>

\* For writing, which a directory cannot be opened for.
Open(p) ==
    LET s == my[p].ip
    IN  /\ At(p, "open") /\ CanLock(s)
        /\ IF Read(s).type = "dir"
           THEN /\ slot' = [slot EXCEPT ![s] = Read(s)]
                /\ Iput(p, "ip", "user")
                /\ UNCHANGED <<call, path>>
           ELSE Opened(p, [slot EXCEPT ![s] = Read(s)])
        /\ UNCHANGED dinode

Chdir(p) ==
    LET s == my[p].ip
    IN  /\ At(p, "chdir") /\ CanLock(s)
        /\ slot' = [slot EXCEPT ![s] = Read(s)]
        /\ my' = [my EXCEPT ![p].ip = Null,
                            ![p].cwd = IF Read(s).type = "dir" THEN s ELSE @,
                            ![p].put = IF Read(s).type = "dir" THEN my[p].cwd ELSE s]
        /\ ret' = [ret EXCEPT ![p] = "user"]
        /\ Goto(p, "put")
        /\ UNCHANGED <<dinode, call, path>>

Close(p) ==
    /\ At(p, "user") /\ my[p].fd # Null
    /\ Iput(p, "fd", "user")
    /\ call' = [call EXCEPT ![p] = [NoCall EXCEPT !.op = "close"]]
    /\ UNCHANGED <<dinode, slot, path>>

-----------------------------------------------------------------------------
(* create(): open() with O_CREATE, and mkdir() *)

FreeInodes == {i \in Inum : dinode[i].type = "free"}
NewName(p) == path[p][1]
TypeOf(p) == IF call[p].op = "mkdir" THEN "dir" ELSE "file"

\* The name is there.
CreateFinds(p) ==
    LET s == my[p].dp
        i == Lookup(s, NewName(p))
        f == [slot EXCEPT ![s] = Read(s)]
    IN  /\ At(p, "create") \/ At(p, "mkdir")
        /\ CanLock(s) /\ i # Null
        /\ Iget(f, i)
        /\ my' = [my EXCEPT ![p].ip = SlotOf(f, i), ![p].dp = Null, ![p].put = s]
        /\ ret' = [ret EXCEPT ![p] = "create old"]
        /\ Goto(p, "put")
        /\ UNCHANGED <<dinode, call, path>>

CreateOld(p) ==
    LET s == my[p].ip
    IN  /\ At(p, "create old") /\ CanLock(s)
        /\ IF TypeOf(p) = "file" /\ Read(s).type = "file"
           THEN Opened(p, [slot EXCEPT ![s] = Read(s)])
           ELSE /\ slot' = [slot EXCEPT ![s] = Read(s)]
                /\ Iput(p, "ip", "user")
                /\ UNCHANGED <<call, path>>
        /\ UNCHANGED dinode

\* ialloc() of a free inode, not always the first: the search takes time.  The
\* directory stays locked.
CreateAllocs(p) ==
    LET s == my[p].dp
        f == [slot EXCEPT ![s] = Locked(s, p)]
    IN  /\ At(p, "create") \/ At(p, "mkdir")
        /\ CanLock(s) /\ Lookup(s, NewName(p)) = Null
        /\ \E i \in FreeInodes :
             /\ dinode' = [dinode EXCEPT ![i] = [Free EXCEPT !.type = TypeOf(p)]]
             /\ Iget(f, i)
             /\ my' = [my EXCEPT ![p].ip = SlotOf(f, i)]
        /\ Goto(p, "create new")
        /\ UNCHANGED <<ret, call, path>>

\* The new inode is filled in and gets its name.
CreateNew(p) ==
    LET s == my[p].ip
        d == my[p].dp
        dir == TypeOf(p) = "dir"
        links == slot[d].nlink + (IF dir THEN 1 ELSE 0)
        i == slot[s].inum
    IN  /\ At(p, "create new") /\ CanLock(s)
        /\ dinode' = [dinode EXCEPT
                        ![i].nlink = 1,
                        ![i].up = IF dir THEN slot[d].inum ELSE @,
                        ![slot[d].inum].nlink = links,
                        ![slot[d].inum].ents[NewName(p)] = i]
        /\ slot' = [slot EXCEPT ![s] = [Locked(s, p) EXCEPT !.nlink = 1],
                                ![d].nlink = links, ![d].holder = NoProc]
        /\ Iput(p, "dp", "created")
        /\ UNCHANGED <<call, path>>

Created(p) ==
    /\ At(p, "created")
    /\ IF TypeOf(p) = "file" THEN Opened(p, slot)
       ELSE /\ slot' = [slot EXCEPT ![my[p].ip].holder = NoProc]
            /\ Iput(p, "ip", "user")
            /\ UNCHANGED <<call, path>>
    /\ UNCHANGED dinode

-----------------------------------------------------------------------------
(* unlink() *)

\* No such name, or one that cannot be removed.
UnlinkNothing(p) ==
    LET s == my[p].dp
    IN  /\ At(p, "unlink") /\ CanLock(s)
        /\ NewName(p) = UpName \/ Lookup(s, NewName(p)) = Null
        /\ slot' = [slot EXCEPT ![s] = Read(s)]
        /\ Iput(p, "dp", "user")
        /\ UNCHANGED <<dinode, call, path>>

UnlinkFinds(p) ==
    LET s == my[p].dp
        i == Lookup(s, NewName(p))
        f == [slot EXCEPT ![s] = Locked(s, p)]
    IN  /\ At(p, "unlink") /\ CanLock(s) /\ NewName(p) # UpName /\ i # Null
        /\ Iget(f, i)
        /\ my' = [my EXCEPT ![p].ip = SlotOf(f, i)]
        /\ Goto(p, "unlink ip")
        /\ UNCHANGED <<dinode, ret, call, path>>

\* isdirempty()
IsDirEmpty(i) == \A n \in Name : dinode[i].ents[n] = Null

\* A directory that is not empty; its parent is still locked during iput(ip).
UnlinkRefused(p) ==
    LET s == my[p].ip
    IN  /\ At(p, "unlink ip") /\ CanLock(s)
        /\ Read(s).nlink >= 1
        /\ Read(s).type = "dir" /\ ~IsDirEmpty(slot[s].inum)
        /\ slot' = [slot EXCEPT ![s] = Read(s)]
        /\ Iput(p, "ip", "unlock dp")
        /\ UNCHANGED <<dinode, call, path>>

\* iunlockput(dp) after a failure
UnlockParent(p) ==
    /\ At(p, "unlock dp")
    /\ slot' = [slot EXCEPT ![my[p].dp].holder = NoProc]
    /\ Iput(p, "dp", Failed(p))
    /\ UNCHANGED <<dinode, call, path>>

\* Slip: a directory need not be empty.
SlipUnlink(p) ==
    LET s == my[p].ip
        d == my[p].dp
        links == slot[d].nlink - (IF Read(s).type = "dir" THEN 1 ELSE 0)
    IN  /\ At(p, "unlink ip") /\ CanLock(s)
        /\ Read(s).nlink >= 1
        /\ dinode' = [dinode EXCEPT ![slot[d].inum].nlink = links,
                                    ![slot[d].inum].ents[NewName(p)] = Null]
        /\ slot' = [slot EXCEPT ![s] = Locked(s, p),
                                ![d].nlink = links, ![d].holder = NoProc]
        /\ Iput(p, "dp", "unlinked")
        /\ UNCHANGED <<call, path>>

\* The entry goes; ip stays locked during iput(dp).
Unlink(p) ==
    LET s == my[p].ip
        d == my[p].dp
        links == slot[d].nlink - (IF Read(s).type = "dir" THEN 1 ELSE 0)
    IN  /\ At(p, "unlink ip") /\ CanLock(s)
        /\ Read(s).nlink >= 1
        /\ Read(s).type = "dir" => IsDirEmpty(slot[s].inum)
        /\ dinode' = [dinode EXCEPT ![slot[d].inum].nlink = links,
                                    ![slot[d].inum].ents[NewName(p)] = Null]
        /\ slot' = [slot EXCEPT ![s] = Locked(s, p),
                                ![d].nlink = links, ![d].holder = NoProc]
        /\ Iput(p, "dp", "unlinked")
        /\ UNCHANGED <<call, path>>

\* One link more or less, with iupdate().
Links(s, f, n) ==
    /\ dinode' = [dinode EXCEPT ![f[s].inum].nlink = @ + n]
    /\ slot' = [f EXCEPT ![s].nlink = @ + n, ![s].holder = NoProc]

Unlinked(p) ==
    /\ At(p, "unlinked")
    /\ Links(my[p].ip, slot, -1)
    /\ Iput(p, "ip", "user")
    /\ UNCHANGED <<call, path>>

-----------------------------------------------------------------------------
(* link() *)

LinkRefused(p) ==
    LET s == my[p].ip
    IN  /\ At(p, "link old") /\ CanLock(s) /\ Read(s).type = "dir"
        /\ slot' = [slot EXCEPT ![s] = Read(s)]
        /\ Iput(p, "ip", "user")
        /\ UNCHANGED <<dinode, call, path>>

\* Slip: iupdate() is forgotten.
SlipLinkNoUpdate(p) ==
    LET s == my[p].ip
    IN  /\ At(p, "link old") /\ CanLock(s) /\ Read(s).type # "dir"
        /\ Start(p, [slot EXCEPT ![s] = [Read(s) EXCEPT !.nlink = @ + 1]], call[p])
        /\ path' = [path EXCEPT ![p] = call[p].path]
        /\ Goto(p, "walk")
        /\ UNCHANGED <<dinode, ret, call>>

\* Slip: ip stays locked until the link is there.
SlipLinkLocked(p) ==
    LET s == my[p].ip
    IN  /\ At(p, "link old") /\ CanLock(s) /\ Read(s).type # "dir"
        /\ dinode' = [dinode EXCEPT ![slot[s].inum].nlink = @ + 1]
        /\ Start(p, [slot EXCEPT ![s] = [Locked(s, p) EXCEPT !.nlink = @ + 1]], call[p])
        /\ path' = [path EXCEPT ![p] = call[p].path]
        /\ Goto(p, "walk")
        /\ UNCHANGED <<ret, call>>

\* The count goes up first, then the directory is looked for.
LinkOld(p) ==
    LET s == my[p].ip
    IN  /\ At(p, "link old") /\ CanLock(s) /\ Read(s).type # "dir"
        /\ dinode' = [dinode EXCEPT ![slot[s].inum].nlink = @ + 1]
        /\ Start(p, [slot EXCEPT ![s] = [Read(s) EXCEPT !.nlink = @ + 1]], call[p])
        /\ path' = [path EXCEPT ![p] = call[p].path]
        /\ Goto(p, "walk")
        /\ UNCHANGED <<ret, call>>

\* dirlink(); the iput() of what has the name already is under the lock of dp.
LinkNew(p) ==
    LET d == my[p].dp
        i == Lookup(d, NewName(p))
    IN  /\ At(p, "link") /\ CanLock(d)
        /\ \/ /\ i = Null
              /\ dinode' = [dinode EXCEPT ![slot[d].inum].ents[NewName(p)] = slot[my[p].ip].inum]
              /\ slot' = [slot EXCEPT ![d] = Read(d)]
              /\ Iput(p, "dp", "linked")
           \/ /\ i # Null
              /\ LET f == [slot EXCEPT ![d] = Locked(d, p)]
                 IN  Iget(f, i) /\ my' = [my EXCEPT ![p].put = SlotOf(f, i)]
              /\ ret' = [ret EXCEPT ![p] = "unlock dp"]
              /\ Goto(p, "put")
              /\ UNCHANGED dinode
        /\ UNCHANGED <<call, path>>

Linked(p) ==
    /\ At(p, "linked")
    /\ Iput(p, "ip", "user")
    /\ UNCHANGED <<dinode, slot, call, path>>

LinkUndo(p) ==
    LET s == my[p].ip
    IN  /\ At(p, "link undo") /\ CanLock(s)
        /\ Links(s, [slot EXCEPT ![s] = Read(s)], -1)
        /\ Iput(p, "ip", "user")
        /\ UNCHANGED <<call, path>>

-----------------------------------------------------------------------------
(* What ilock() and sys_unlink() do not expect. *)

\* The inode a process is about to lock.
Wants(p) ==
    CASE At(p, "put") -> my[p].put
      [] At(p, "walk") /\ path[p] # <<>> -> my[p].at
      [] pc[p] \in {"open", "chdir", "create old", "create new", "unlink ip",
                    "link old", "link undo"} -> my[p].ip
      [] pc[p] \in {"create", "mkdir", "unlink", "link"} -> my[p].dp
      [] OTHER -> Null

\* The next ilock() panics, or sys_unlink() does after it: p is stuck.
Panics(p) ==
    LET s == Wants(p)
    IN  /\ s # Null /\ ~At(p, "put") /\ Unlocked(s)
        /\ CanLock(s) => At(p, "unlink ip") /\ Read(s).nlink < 1

-----------------------------------------------------------------------------
Slot0 == [s \in Slot |-> IF s = 1 THEN [NoInode EXCEPT !.inum = ROOTINO, !.ref = Cardinality(Proc)]
                       ELSE NoInode]
My0 == [p \in Proc |-> [NoRefs EXCEPT !.cwd = 1]]

Init ==
    /\ slot = Slot0 /\ my = My0
    /\ dinode = [i \in Inum |-> IF i = ROOTINO
                                THEN [Free EXCEPT !.type = "dir", !.nlink = 1, !.up = ROOTINO]
                                ELSE Free]
    /\ pc = [p \in Proc |-> "user"]
    /\ ret = [p \in Proc |-> "user"]
    /\ call = [p \in Proc |-> NoCall]
    /\ path = [p \in Proc |-> <<>>]

\* A crash; the programs that start again are in the root.
Crash ==
    /\ \A p \in Proc : pc[p] = "user"
    /\ slot' = Slot0 /\ my' = My0
    /\ UNCHANGED <<dinode, pc, ret, call, path>>

Step(p) ==
    \/ IputCheck(p) \/ IputDrop(p)
    \/ \E c \in Call : CallStart(p, c)
    \/ WalkFails(p) \/ WalkParent(p) \/ Walk(p) \/ WalkEnd(p)
    \/ Open(p) \/ Chdir(p) \/ Close(p)
    \/ CreateFinds(p) \/ CreateOld(p) \/ CreateAllocs(p) \/ CreateNew(p) \/ Created(p)
    \/ UnlinkNothing(p) \/ UnlinkFinds(p) \/ UnlinkRefused(p) \/ UnlockParent(p)
    \/ Unlink(p) \/ Unlinked(p)
    \/ LinkRefused(p) \/ LinkOld(p) \/ LinkNew(p) \/ Linked(p) \/ LinkUndo(p)

Next == (\E p \in Proc : Step(p)) \/ Crash

Spec == Init /\ [][Next]_vars
=============================================================================
