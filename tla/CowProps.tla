------------------------------ MODULE CowProps ------------------------------
(***************************************************************************)
(* What copy-on-write has to keep true, over the state of CowMemory.       *)
(***************************************************************************)
EXTENDS CowMemory

Kind(l) == l[1]

LocRecord == [child : Proc \cup {NoProc}, va : 0 .. MaxVa, to : 0 .. MaxVa,
              cnt : Nat,
              ret : {"none", "user", "unfork", "reaped", "sbrk", "exec",
                     "rollback", "halt"}]

\* The state is well formed: pointers point at pages, locals at slots.
TypeOK ==
    /\ ptr \in [Loc -> Page \cup {NoPage}]
    /\ writable \subseteq {l \in Loc : Kind(l) = "pte"}
    /\ refc \in [Page -> Nat]
    /\ free \subseteq Page
    /\ data \in [Page -> Val \cup {Junk}]
    /\ tlb \in [Proc -> [Va -> [pg : Page \cup {NoPage}, w : BOOLEAN]]]
    /\ state \in [Proc -> PState]
    /\ parent \in [Proc -> Proc \cup {NoProc}]
    /\ killed \in [Proc -> BOOLEAN]
    /\ sz \in [Proc -> 0 .. MaxVa]
    /\ pc \in [Proc -> Label]
    /\ loc \in [Proc -> LocRecord]
    /\ halted \in BOOLEAN

\* The pointers of f that point at page pg.
Refs(f, pg) == {l \in Loc : f[l] = pg}

\* kmem.refc never runs behind the pointers the kernel holds, and a page is on
\* the free list exactly when its count is zero.  So kfree never recycles a
\* page that a page table, a kernel stack or a directory still points at, no
\* page enters the free list twice, and kalloc's "page already allocated"
\* panic is never reached.
RefcCoversPointers ==
    /\ \A pg \in Page : Cardinality(Refs(ptr, pg)) <= refc[pg]
    /\ free = {pg \in Page : refc[pg] = 0}

\* A page that some page table maps writable has one reference, that entry:
\* between fork's incr_refc, Cow_handler's get_refc and kfree no order of steps
\* leaves a writable page shared.
WritablePageUnshared ==
    \A l \in writable : ptr[l] \in Page /\ refc[ptr[l]] = 1

\* What a CPU has cached while it runs user code leads to the page the table
\* names, and what it may write through the cache no other page table maps: no
\* flush is missing after shareuvm, growproc, exec or Cow_handler changed the
\* table.  (A fork that fails leaves writable cache entries for pages its table
\* has read-only; they are harmless because nobody shares those pages.)
TlbSafe ==
    \A p \in Proc, va \in Va :
      LET e == tlb[p][va]
          own == Pte(ptr[Pgdir(p)], va)
      IN  InUser(p) /\ e # NoEntry =>
            /\ e.pg = ptr[own]
            /\ e.w => Refs(ptr, e.pg) = {own}

\* The memory user code of p sees: through its CPU's cache while it runs, else
\* through its page table.  A shrinking process has given its tail up already.
Seen(p, va) ==
    IF pc[p] = "user" /\ tlb[p][va] # NoEntry
    THEN data[tlb[p][va].pg]
    ELSE data[ptr[Pte(ptr[Pgdir(p)], va)]]

UserMemory(p) ==
    IF state[p] # "RUNNABLE" \/ ptr[Pgdir(p)] = NoPage
    THEN <<>>
    ELSE [va \in 0 .. (IF pc[p] = "shrink" THEN loc[p].to ELSE sz[p]) - 1
            |-> Seen(p, va)]

Private == INSTANCE PrivateMemory WITH mem <- [p \in Proc |-> UserMemory(p)]

\* Copy-on-write is invisible: the shared pages, the counts, the faults and the
\* caches together implement one private memory per process.
ImplementsPrivateMemory == Private!Spec

\* A user store that faults on a read-only page is resolved: Cow_handler brings
\* the process back to user code with that page writable, or the machine ran
\* out of memory for the copy.
StoreResolved ==
    \A p \in Proc, va \in Va :
      pc[p] = "cow" /\ loc[p].va = va
        ~> halted \/ (pc[p] = "user" /\ Pte(ptr[Pgdir(p)], va) \in writable)

\* Every fork, wait, sbrk and exec returns to user code, whatever step of it
\* runs out of memory, so none ends in a panic of kfree or incr_refc.
SystemCallReturns ==
    \A p \in Proc :
      pc[p] \notin {"user", "none", "zombie", "kfault"}
        ~> halted \/ pc[p] = "user"

\* trap.c:81 says the handler also serves write faults of kernel mode (error
\* code 3): then a system call that stores to a shared page goes on.
KernelStoreResolved ==
    \A p \in Proc : pc[p] = "kfault" ~> halted \/ pc[p] = "user"

-----------------------------------------------------------------------------
(* The inductive invariant: the properties above and what they rest on. *)

Forking(p) ==
    \/ pc[p] \in {"kstack", "setupkvm", "share", "map", "unfork"}
    \/ pc[p] = "freevm" /\ loc[p].ret = "unfork"

Reaping(p) ==
    \/ pc[p] = "reaped"
    \/ pc[p] = "freevm" /\ loc[p].ret = "reaped"

\* A slot in the making belongs to one fork, a zombie to one wait, and a
\* process inside the kernel is a live one.
SlotsOwned ==
    /\ \A p \in Proc : pc[p] \notin {"none", "zombie"} => state[p] = "RUNNABLE"
    /\ \A p \in Proc : Forking(p) =>
         loc[p].child \in Proc /\ state[loc[p].child] = "EMBRYO"
    /\ \A p, q \in Proc :
         Forking(p) /\ Forking(q) /\ loc[p].child = loc[q].child => p = q
    /\ \A p \in Proc : Reaping(p) =>
         loc[p].child \in Proc /\ state[loc[p].child] = "ZOMBIE"
    /\ \A p, q \in Proc : Reaping(p) /\ Reaping(q) => p = q

\* Where a system call returns to fits where it is.
ReturnsMatch ==
    \A p \in Proc :
      /\ pc[p] = "freevm" => loc[p].ret \in {"user", "unfork", "reaped", "halt"}
      /\ pc[p] \in {"grow", "growmap"} => loc[p].ret \in {"sbrk", "exec"}
      /\ loc[p].ret = "halt" => pc[p] \in {"freevm", "halt"}
      /\ pc[p] \in {"map", "growmap", "cow", "copy", "remap"} => loc[p].va \in Va

\* The directories a kernel thread works on exist.
DirsPresent ==
    \A p \in Proc :
      /\ state[p] = "RUNNABLE" /\ loc[p].ret # "halt" => ptr[Pgdir(p)] # NoPage
      /\ pc[p] \in {"share", "map"} => ptr[Dir(p)] # NoPage
      /\ pc[p] \in {"grow", "growmap"} /\ loc[p].ret = "exec" => ptr[Dir(p)] # NoPage

\* A page table entry is found through the page of its table.
EntriesHaveTable ==
    \A d \in Page, va \in Va : ptr[Pte(d, va)] # NoPage => ptr[Ptab(d)] # NoPage

\* A kernel page and a page about to be mapped writable have one reference.
UniqueLoc(l) == Kind(l) \in {"kstack", "pgdir", "dir", "ptab"}
FreshLoc(p) == pc[p] \in {"growmap", "remap"}
KernelPagesUnshared ==
    /\ \A l \in Loc : UniqueLoc(l) /\ ptr[l] # NoPage => refc[ptr[l]] = 1
    /\ \A p \in Proc : FreshLoc(p) =>
         ptr[Local(p)] # NoPage /\ refc[ptr[Local(p)]] = 1

\* The page Cow_handler works on stays mapped, and a count of one it has read
\* stays true: nobody can raise it who does not hold the page.
CountStaysTrue ==
    \A p \in Proc :
      LET pg == ptr[Pte(ptr[Pgdir(p)], loc[p].va)]
      IN  pc[p] \in {"copy", "remap"} =>
            /\ pg # NoPage
            /\ pc[p] = "copy" /\ loc[p].cnt = 1 => refc[pg] = 1

CowInv ==
    /\ TypeOK
    /\ RefcCoversPointers
    /\ WritablePageUnshared
    /\ SlotsOwned
    /\ ReturnsMatch
    /\ DirsPresent
    /\ EntriesHaveTable
    /\ KernelPagesUnshared
    /\ CountStaysTrue

\* Whose cache is bound to agree with the page table: no fork has shared a page
\* of it, and no sbrk() unmapped one, that has not flushed it yet.
Tracked(p) ==
    /\ state[p] = "RUNNABLE" /\ loc[p].ret # "halt"
    /\ pc[p] \in {"share", "map"} => ptr[Ptab(ptr[Dir(p)])] = NoPage
    /\ pc[p] = "shrink" => loc[p].ret = "rollback"

\* The pointers there may be to a page p caches as writable: its own entry, and
\* the local variable of a fork that may still find no page for the child's table.
Holders(p, va) ==
    {Pte(ptr[Pgdir(p)], va)} \cup (IF pc[p] = "map" THEN {Local(p)} ELSE {})

\* A cached translation is the table's, below the size of the process.
EntryOK(p, va) ==
    LET e == tlb[p][va]
    IN  e # NoEntry =>
          /\ va < sz[p] /\ e.pg \in Page /\ e.pg = ptr[Pte(ptr[Pgdir(p)], va)]
          /\ e.w => Refs(ptr, e.pg) \subseteq Holders(p, va)

\* Every cache that has to agree does, one that has not been flushed since
\* belongs to a process inside fork() or sbrk(), and a free slot has none.
TlbOf(p) ==
    /\ state[p] # "RUNNABLE" => tlb[p] = NoTlb
    /\ Tracked(p) => \A va \in Va : EntryOK(p, va)
    /\ pc[p] = "shrink" =>
         /\ loc[p].ret \in {"sbrk", "rollback"}
         /\ loc[p].ret = "rollback" => loc[p].to = sz[p]

TlbInv == \A p \in Proc : TlbOf(p)
-----------------------------------------------------------------------------
(* What the refinement of PrivateMemory rests on. *)

\* A process that runs or is inside a system call, its directory still there.
Alive(q) == state[q] = "RUNNABLE" /\ loc[q].ret # "halt"

\* The entry of the page table p runs on, and of the one a fork builds.
Own(p, va) == Pte(ptr[Pgdir(p)], va)
Childs(p, va) == Pte(ptr[Dir(p)], va)

\* How many pages of its memory p still has.
Limit(p) == IF pc[p] = "shrink" THEN loc[p].to ELSE sz[p]

\* Where allocuvm started.
First(p) == IF loc[p].ret = "exec" THEN 0 ELSE sz[p]

\* Every page below the size of a process is mapped, and one whose directory is
\* gone has none; a call of shareuvm starts at page zero.
MappedOK(p) ==
    /\ Alive(p) => /\ Limit(p) \in 1 .. MaxVa
                   /\ \A va \in 0 .. Limit(p) - 1 : ptr[Own(p, va)] \in Page
    /\ state[p] = "RUNNABLE" /\ ~Alive(p) => ptr[Pgdir(p)] = NoPage
    /\ pc[p] \in {"user", "none", "zombie", "kstack", "setupkvm"} => loc[p].va = 0
    /\ pc[p] = "shrink" => loc[p].to \in 1 .. sz[p]

\* What shareuvm has mapped for the child are the pages of the parent.
ShareOK(p) ==
    pc[p] \in {"share", "map"} =>
      /\ loc[p].va \in 0 .. sz[p]
      /\ \A va \in 0 .. loc[p].va - 1 : ptr[Childs(p, va)] = ptr[Own(p, va)]
      /\ pc[p] = "map" => loc[p].va < sz[p] /\ ptr[Local(p)] = ptr[Own(p, loc[p].va)]

\* What allocuvm has mapped holds zeros.
GrowOK(p) ==
    pc[p] \in {"grow", "growmap"} =>
      /\ loc[p].va \in First(p) .. loc[p].to /\ loc[p].to \in 1 .. MaxVa
      /\ \A va \in First(p) .. loc[p].va - 1 :
           LET pg == ptr[Pte(Target(p), va)] IN pg \in Page /\ data[pg] = Zero
      /\ pc[p] = "growmap" => loc[p].va < loc[p].to /\ data[ptr[Local(p)]] = Zero

MemOf(p) == MappedOK(p) /\ ShareOK(p) /\ GrowOK(p)
MemInv == \A p \in Proc : MemOf(p)
=============================================================================
