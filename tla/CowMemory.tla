----------------------------- MODULE CowMemory -----------------------------
(***************************************************************************)
(* Copy-on-write user memory of project 4: the reference-counted page      *)
(* allocator (kalloc.c), the page tables fork shares (vm.c), the write     *)
(* fault handler (Cow_handler, entered from trap.c) and the system calls   *)
(* that create and destroy address spaces (fork, exit, wait, growproc,     *)
(* exec).                                                                  *)
(*                                                                         *)
(* Every kernel thread runs on its own between two acquisitions of         *)
(* kmem.lock or ptable.lock, so one action is one critical section of such *)
(* a lock together with the thread-local code that follows it.             *)
(*                                                                         *)
(* A definition marked "Slip" is no part of the specification: it is a     *)
(* plausible mistake in the definition below it, kept to show that the     *)
(* properties would see it.                                                *)
(***************************************************************************)
EXTENDS Integers, FiniteSets

CONSTANTS
    Proc,           \* the slots of ptable.proc
    initproc,       \* the slot of the first process, which never exits
    NoProc,
    Page,           \* the physical pages the allocator manages
    NoPage,         \* the null pointer
    Heads(_),       \* the free pages that may be at the head of the list
    MaxVa,          \* user pages an address space may have
    Val, Zero,      \* contents of a user page, and that of a fresh one
    Junk,           \* what kfree fills a page with
    MaxRefc,        \* bound on the reference counts a fork may start from
    MaxBusy         \* bound on the system calls and faults under way at once

ASSUME CowAssumption ==
    /\ initproc \in Proc /\ NoProc \notin Proc
    /\ NoPage \notin Page
    /\ \A S \in SUBSET Page : Heads(S) \subseteq S /\ (S # {} => Heads(S) # {})
    /\ MaxVa \in Nat \ {0} /\ MaxRefc \in Nat \ {0} /\ MaxBusy \in Nat \ {0}
    /\ Zero \in Val /\ Junk \notin Val

ASSUME CowFinite == IsFiniteSet(Proc) /\ IsFiniteSet(Page)

Va == 0 .. MaxVa - 1

(***************************************************************************)
(* The pointers to a physical page that the kernel holds.  "kstack" and    *)
(* "pgdir" are fields of struct proc; "dir" is the local variable of a     *)
(* kernel thread for a page directory being built or torn down; "page" its *)
(* local variable for a page between two of its homes.  "ptab" is the      *)
(* directory entry of the user half, "pte" a page table entry, both found  *)
(* through the directory's own page.                                       *)
(***************************************************************************)
Kstack(p)  == <<"kstack", p, 0>>
Pgdir(p)   == <<"pgdir", p, 0>>
Dir(p)     == <<"dir", p, 0>>
Local(p)   == <<"page", p, 0>>
Ptab(d)    == <<"ptab", d, 0>>
Pte(d, va) == <<"pte", d, va>>

Loc == ({"kstack", "pgdir", "dir", "page"} \X Proc \X {0})
       \cup ({"ptab"} \X Page \X {0})
       \cup ({"pte"} \X Page \X Va)

VARIABLES
    ptr,        \* [Loc -> Page \cup {NoPage}]: the pointers above
    writable,   \* the page table entries with PTE_W set
    refc,       \* kmem.refc
    free,       \* the pages on kmem.freelist
    data,       \* the contents of each page, as far as user code sees it
    tlb,        \* per process, the translations its CPU may have cached
    state,      \* p->state
    parent,     \* p->parent
    killed,     \* p->killed
    sz,         \* p->sz, in pages
    pc,         \* where the kernel thread of p is; "user" when it runs user code
    loc,        \* the other local variables of that kernel thread
    halted      \* a CPU runs on a page directory that was freed: undefined

memVars  == <<refc, free, data>>
procVars == <<state, parent, killed, sz>>
vars == <<ptr, writable, refc, free, data, tlb, state, parent, killed, sz,
          pc, loc, halted>>

PState == {"UNUSED", "EMBRYO", "RUNNABLE", "ZOMBIE"}

\* Where a kernel thread can be between two critical sections.
Label == {"user", "zombie", "none",
          "kstack", "setupkvm", "share", "map", "unfork",   \* fork
          "freevm", "reaped",                               \* freevm, wait
          "grow", "growmap", "shrink",                      \* growproc, exec
          "cow", "copy", "remap", "release", "halt",        \* Cow_handler
          "kfault"}                                         \* a kernel store

NoLoc == [child |-> NoProc, va |-> 0, to |-> 0, cnt |-> 0, ret |-> "none"]
NoEntry == [pg |-> NoPage, w |-> FALSE]
NoTlb == [va \in Va |-> NoEntry]

InUser(p) == state[p] = "RUNNABLE" /\ pc[p] = "user"
Busy == {p \in Proc : pc[p] \notin {"user", "none", "zombie"}}
EnterKernel(p) == InUser(p) /\ Cardinality(Busy) < MaxBusy

\* wait() holds ptable.lock from the zombie it found until it has freed it.
PtableLocked ==
    \E p \in Proc : /\ pc[p] \in {"freevm", "reaped"}
                    /\ pc[p] = "reaped" \/ loc[p].ret = "reaped"

Entry(d, va) == [pg |-> ptr[Pte(d, va)], w |-> Pte(d, va) \in writable]
Mapped(d) == {va \in Va : ptr[Pte(d, va)] # NoPage}

Goto(p, label) == pc' = [pc EXCEPT ![p] = label]
FlushTlb(p) == tlb' = [tlb EXCEPT ![p] = NoTlb]
ReturnToUser(p) == Goto(p, "user") /\ loc' = [loc EXCEPT ![p] = NoLoc]

-----------------------------------------------------------------------------
(* kalloc.c *)

\* kalloc() when the free list is not empty: pg is the page it returns.
Kalloc(pg) ==
    /\ pg \in Heads(free)
    /\ free' = free \ {pg}
    /\ refc' = [refc EXCEPT ![pg] = 1]

\* kfree(): the last reference puts the page back on the free list.  kfree
\* and incr_refc panic on what is not a page: there is no step.
Kfree(pg) ==
    /\ pg \in Page
    /\ refc' = [refc EXCEPT ![pg] = IF @ > 1 THEN @ - 1 ELSE 0]
    /\ IF refc[pg] > 1
       THEN UNCHANGED <<free, data>>
       ELSE /\ free' = free \cup {pg}
            /\ data' = [data EXCEPT ![pg] = Junk]

\* incr_refc()
IncrRefc(pg) == pg \in Page /\ refc' = [refc EXCEPT ![pg] = @ + 1]

-----------------------------------------------------------------------------
(* fork(): allocproc, shareuvm, and the child made RUNNABLE. *)

\* allocproc() claims a slot; a full table makes fork return -1.
ForkAllocproc(p) ==
    /\ EnterKernel(p) /\ ~PtableLocked
    /\ \A pg \in Page : refc[pg] < MaxRefc
    /\ \E c \in Proc :
         /\ state[c] = "UNUSED"
         /\ state' = [state EXCEPT ![c] = "EMBRYO"]
         /\ loc' = [loc EXCEPT ![p].child = c]
    /\ Goto(p, "kstack")
    /\ UNCHANGED <<ptr, writable, memVars, tlb, parent, killed, sz, halted>>

\* allocproc() takes a kernel stack, or gives the slot back.
ForkKstack(p) ==
    /\ pc[p] = "kstack"
    /\ \/ \E pg \in Page :
            /\ Kalloc(pg)
            /\ ptr' = [ptr EXCEPT ![Kstack(loc[p].child)] = pg]
            /\ Goto(p, "setupkvm")
            /\ UNCHANGED <<state, loc>>
       \/ /\ free = {}
          /\ state' = [state EXCEPT ![loc[p].child] = "UNUSED"]
          /\ ReturnToUser(p)
          /\ UNCHANGED <<ptr, refc, free>>
    /\ UNCHANGED <<writable, data, tlb, parent, killed, sz, halted>>

\* shareuvm() builds the child's directory.  setupkvm's pages (the directory
\* and the tables of the kernel half) are one page here.
ForkSetupkvm(p) ==
    /\ pc[p] = "setupkvm"
    /\ \/ \E pg \in Page :
            /\ Kalloc(pg)
            /\ ptr' = [ptr EXCEPT ![Dir(p)] = pg]
            /\ Goto(p, "share")
       \/ /\ free = {}
          /\ Goto(p, "unfork")
          /\ UNCHANGED <<ptr, refc, free>>
    /\ UNCHANGED <<writable, data, tlb, procVars, loc, halted>>

\* Slip: the loop without its incr_refc.
ShareIncrUncounted(p) ==
    /\ pc[p] = "share" /\ loc[p].va < sz[p]
    /\ LET pte == Pte(ptr[Pgdir(p)], loc[p].va)
       IN  /\ ptr' = [ptr EXCEPT ![Local(p)] = ptr[pte]]
           /\ writable' = writable \ {pte}
    /\ Goto(p, "map")
    /\ UNCHANGED <<memVars, tlb, procVars, loc, halted>>

\* Slip: the parent's own entry keeps PTE_W.
ShareIncrWritable(p) ==
    /\ pc[p] = "share" /\ loc[p].va < sz[p]
    /\ IncrRefc(ptr[Pte(ptr[Pgdir(p)], loc[p].va)])
    /\ ptr' = [ptr EXCEPT ![Local(p)] = ptr[Pte(ptr[Pgdir(p)], loc[p].va)]]
    /\ Goto(p, "map")
    /\ UNCHANGED <<writable, free, data, tlb, procVars, loc, halted>>

\* One iteration of shareuvm's loop up to mappages: a reference for the child,
\* and the parent's entry made read-only.
ShareIncr(p) ==
    /\ pc[p] = "share" /\ loc[p].va < sz[p]
    /\ LET pte == Pte(ptr[Pgdir(p)], loc[p].va)
       IN  /\ IncrRefc(ptr[pte])
           /\ ptr' = [ptr EXCEPT ![Local(p)] = ptr[pte]]
           /\ writable' = writable \ {pte}
    /\ Goto(p, "map")
    /\ UNCHANGED <<free, data, tlb, procVars, loc, halted>>

\* mappages() on the child's directory, which panics over an entry in use.
\* The first entry needs a page table
\* page; when there is none, shareuvm frees the directory and gives up, and
\* the reference just taken stays counted.
ShareMap(p) ==
    /\ pc[p] = "map"
    /\ LET d == ptr[Dir(p)]
           pte == Pte(d, loc[p].va)
       IN  \/ /\ ptr[Ptab(d)] # NoPage /\ ptr[pte] = NoPage
              /\ ptr' = [ptr EXCEPT ![pte] = ptr[Local(p)], ![Local(p)] = NoPage]
              /\ loc' = [loc EXCEPT ![p].va = @ + 1]
              /\ Goto(p, "share")
              /\ UNCHANGED <<refc, free>>
           \/ /\ ptr[Ptab(d)] = NoPage
              /\ \E pg \in Page :
                   /\ Kalloc(pg)
                   /\ ptr' = [ptr EXCEPT ![pte] = ptr[Local(p)],
                                         ![Local(p)] = NoPage,
                                         ![Ptab(d)] = pg]
              /\ loc' = [loc EXCEPT ![p].va = @ + 1]
              /\ Goto(p, "share")
           \/ /\ ptr[Ptab(d)] = NoPage /\ free = {}
              /\ ptr' = [ptr EXCEPT ![Local(p)] = NoPage]
              /\ loc' = [loc EXCEPT ![p].ret = "unfork"]
              /\ Goto(p, "freevm")
              /\ UNCHANGED <<refc, free>>
    /\ UNCHANGED <<writable, data, tlb, procVars, halted>>

\* Slip: shareuvm without its lcr3.
ForkDoneUnflushed(p) ==
    /\ pc[p] = "share" /\ loc[p].va = sz[p] /\ ~PtableLocked
    /\ LET c == loc[p].child
       IN  /\ ptr' = [ptr EXCEPT ![Pgdir(c)] = ptr[Dir(p)], ![Dir(p)] = NoPage]
           /\ sz' = [sz EXCEPT ![c] = sz[p]]
           /\ parent' = [parent EXCEPT ![c] = p]
           /\ state' = [state EXCEPT ![c] = "RUNNABLE"]
           /\ pc' = [pc EXCEPT ![c] = "user", ![p] = "user"]
    /\ loc' = [loc EXCEPT ![p] = NoLoc]
    /\ UNCHANGED <<writable, memVars, tlb, killed, halted>>

\* shareuvm() reloads the parent's page table; fork() fills in the child and
\* makes it RUNNABLE under ptable.lock.
ForkDone(p) ==
    /\ pc[p] = "share" /\ loc[p].va = sz[p] /\ ~PtableLocked
    /\ LET c == loc[p].child
       IN  /\ ptr' = [ptr EXCEPT ![Pgdir(c)] = ptr[Dir(p)], ![Dir(p)] = NoPage]
           /\ sz' = [sz EXCEPT ![c] = sz[p]]
           /\ parent' = [parent EXCEPT ![c] = p]
           /\ state' = [state EXCEPT ![c] = "RUNNABLE"]
           /\ pc' = [pc EXCEPT ![c] = "user", ![p] = "user"]
    /\ FlushTlb(p)
    /\ loc' = [loc EXCEPT ![p] = NoLoc]
    /\ UNCHANGED <<writable, memVars, killed, halted>>

\* fork() after shareuvm failed: the kernel stack and the slot go back.
ForkUndo(p) ==
    /\ pc[p] = "unfork"
    /\ LET c == loc[p].child
       IN  /\ Kfree(ptr[Kstack(c)])
           /\ ptr' = [ptr EXCEPT ![Kstack(c)] = NoPage]
           /\ state' = [state EXCEPT ![c] = "UNUSED"]
    /\ ReturnToUser(p)
    /\ UNCHANGED <<writable, tlb, parent, killed, sz, halted>>

-----------------------------------------------------------------------------
(* freevm() on the directory in Dir(p): user pages, the table, the directory. *)

\* A null directory panics.
InFreevm(p) == pc[p] = "freevm" /\ ptr[Dir(p)] # NoPage

\* Slip: deallocuvm without *pte = 0.
FreevmPageKept(p) ==
    /\ InFreevm(p)
    /\ \E va \in Mapped(ptr[Dir(p)]) :
         /\ \A low \in Mapped(ptr[Dir(p)]) : va <= low
         /\ Kfree(ptr[Pte(ptr[Dir(p)], va)])
    /\ UNCHANGED <<ptr, writable, tlb, procVars, pc, loc, halted>>

FreevmPage(p) ==
    /\ InFreevm(p)
    /\ \E va \in Mapped(ptr[Dir(p)]) :
         LET pte == Pte(ptr[Dir(p)], va)
         IN  /\ \A low \in Mapped(ptr[Dir(p)]) : va <= low
             /\ Kfree(ptr[pte])
             /\ ptr' = [ptr EXCEPT ![pte] = NoPage]
             /\ writable' = writable \ {pte}
    /\ UNCHANGED <<tlb, procVars, pc, loc, halted>>

FreevmTable(p) ==
    /\ InFreevm(p) /\ Mapped(ptr[Dir(p)]) = {}
    /\ LET tab == Ptab(ptr[Dir(p)])
       IN  /\ ptr[tab] # NoPage
           /\ Kfree(ptr[tab])
           /\ ptr' = [ptr EXCEPT ![tab] = NoPage]
    /\ UNCHANGED <<writable, tlb, procVars, pc, loc, halted>>

\* The directory goes last.  When it is the one the CPU runs on (Cow_handler's
\* bad path) the machine is in no defined state any more.
FreevmDir(p) ==
    /\ InFreevm(p) /\ Mapped(ptr[Dir(p)]) = {}
    /\ ptr[Ptab(ptr[Dir(p)])] = NoPage
    /\ Kfree(ptr[Dir(p)])
    /\ ptr' = [ptr EXCEPT ![Dir(p)] = NoPage]
    /\ halted' = (loc[p].ret = "halt")
    /\ Goto(p, loc[p].ret)
    /\ loc' = IF loc[p].ret = "user" THEN [loc EXCEPT ![p] = NoLoc] ELSE loc
    /\ UNCHANGED <<writable, tlb, procVars>>

-----------------------------------------------------------------------------
(* exit() and wait() *)

\* exit(): the children go to initproc and the process becomes a zombie.
Exit(p) ==
    /\ InUser(p) /\ p # initproc /\ ~PtableLocked
    /\ parent' = [c \in Proc |-> IF parent[c] = p THEN initproc ELSE parent[c]]
    /\ state' = [state EXCEPT ![p] = "ZOMBIE"]
    /\ Goto(p, "zombie")
    /\ FlushTlb(p)
    /\ UNCHANGED <<ptr, writable, memVars, killed, sz, loc, halted>>

\* wait() finds a zombie child, frees its kernel stack and starts on its memory.
WaitReap(p) ==
    /\ EnterKernel(p) /\ ~PtableLocked
    /\ \E c \in Proc :
         /\ parent[c] = p /\ state[c] = "ZOMBIE"
         /\ Kfree(ptr[Kstack(c)])
         /\ ptr' = [ptr EXCEPT ![Kstack(c)] = NoPage,
                               ![Dir(p)] = ptr[Pgdir(c)],
                               ![Pgdir(c)] = NoPage]
         /\ loc' = [loc EXCEPT ![p] = [@ EXCEPT !.child = c, !.ret = "reaped"]]
    /\ Goto(p, "freevm")
    /\ UNCHANGED <<writable, tlb, procVars, halted>>

\* wait() clears the slot and returns.
WaitDone(p) ==
    /\ pc[p] = "reaped"
    /\ LET c == loc[p].child
       IN  /\ state' = [state EXCEPT ![c] = "UNUSED"]
           /\ parent' = [parent EXCEPT ![c] = NoProc]
           /\ killed' = [killed EXCEPT ![c] = FALSE]
           /\ pc' = [pc EXCEPT ![c] = "none", ![p] = "user"]
    /\ loc' = [loc EXCEPT ![p] = NoLoc]
    /\ UNCHANGED <<ptr, writable, memVars, tlb, sz, halted>>

-----------------------------------------------------------------------------
(* growproc() and exec(): allocuvm and deallocuvm. *)

\* Slip: allocuvm without its test for KERNBASE.
SbrkGrowPastEnd(p) ==
    /\ EnterKernel(p)
    /\ loc' = [loc EXCEPT ![p] = [@ EXCEPT !.va = sz[p], !.to = MaxVa + 1,
                                         !.ret = "sbrk"]]
    /\ Goto(p, "grow")
    /\ UNCHANGED <<ptr, writable, memVars, tlb, procVars, halted>>

\* growproc(n), n > 0: allocuvm from sz to sz + n.
SbrkGrow(p) ==
    /\ EnterKernel(p)
    /\ \E new \in sz[p] + 1 .. MaxVa :
         loc' = [loc EXCEPT ![p] = [@ EXCEPT !.va = sz[p], !.to = new, !.ret = "sbrk"]]
    /\ Goto(p, "grow")
    /\ UNCHANGED <<ptr, writable, memVars, tlb, procVars, halted>>

\* growproc(n), n < 0: deallocuvm from sz to sz + n.
SbrkShrink(p) ==
    /\ EnterKernel(p)
    /\ \E new \in 1 .. sz[p] - 1 :
         loc' = [loc EXCEPT ![p] = [@ EXCEPT !.to = new, !.ret = "sbrk"]]
    /\ Goto(p, "shrink")
    /\ UNCHANGED <<ptr, writable, memVars, tlb, procVars, halted>>

\* exec(): a new directory for an image of some pages; no page, no exec.
ExecSetupkvm(p) ==
    /\ EnterKernel(p)
    /\ \E pg \in Page :
         /\ Kalloc(pg)
         /\ ptr' = [ptr EXCEPT ![Dir(p)] = pg]
    /\ \E new \in 1 .. MaxVa :
         loc' = [loc EXCEPT ![p] = [@ EXCEPT !.va = 0, !.to = new, !.ret = "exec"]]
    /\ Goto(p, "grow")
    /\ UNCHANGED <<writable, data, tlb, procVars, halted>>

\* The directory allocuvm works on.
Target(p) == IF loc[p].ret = "exec" THEN ptr[Dir(p)] ELSE ptr[Pgdir(p)]

\* allocuvm() takes a zeroed page; without one growproc rolls back to the old
\* size and exec frees what it built.
AllocuvmPage(p) ==
    /\ pc[p] = "grow" /\ loc[p].va < loc[p].to
    /\ \/ \E pg \in Page :
            /\ Kalloc(pg)
            /\ data' = [data EXCEPT ![pg] = Zero]
            /\ ptr' = [ptr EXCEPT ![Local(p)] = pg]
            /\ Goto(p, "growmap")
            /\ UNCHANGED loc
       \/ /\ free = {}
          /\ IF loc[p].ret = "exec"
             THEN /\ loc' = [loc EXCEPT ![p].ret = "user"]
                  /\ Goto(p, "freevm")
             ELSE /\ loc' = [loc EXCEPT ![p] = [@ EXCEPT !.to = sz[p],
                                                     !.ret = "rollback"]]
                  /\ Goto(p, "shrink")
          /\ UNCHANGED <<ptr, refc, free, data>>
    /\ UNCHANGED <<writable, tlb, procVars, halted>>

\* mappages() of that page, writable.  Only exec's first page needs a page
\* table page; without one the page and the directory are freed.
AllocuvmMap(p) ==
    /\ pc[p] = "growmap"
    /\ LET d == Target(p)
           pte == Pte(d, loc[p].va)
       IN  \/ /\ ptr[Ptab(d)] # NoPage /\ ptr[pte] = NoPage
              /\ ptr' = [ptr EXCEPT ![pte] = ptr[Local(p)], ![Local(p)] = NoPage]
              /\ writable' = writable \cup {pte}
              /\ loc' = [loc EXCEPT ![p].va = @ + 1]
              /\ Goto(p, "grow")
              /\ UNCHANGED memVars
           \/ /\ ptr[Ptab(d)] = NoPage
              /\ \E pg \in Page :
                   /\ Kalloc(pg)
                   /\ ptr' = [ptr EXCEPT ![pte] = ptr[Local(p)],
                                         ![Local(p)] = NoPage,
                                         ![Ptab(d)] = pg]
              /\ writable' = writable \cup {pte}
              /\ loc' = [loc EXCEPT ![p].va = @ + 1]
              /\ Goto(p, "grow")
              /\ UNCHANGED data
           \/ /\ ptr[Ptab(d)] = NoPage /\ free = {}
              /\ Kfree(ptr[Local(p)])
              /\ ptr' = [ptr EXCEPT ![Local(p)] = NoPage]
              /\ loc' = [loc EXCEPT ![p].ret = "user"]
              /\ Goto(p, "freevm")
              /\ UNCHANGED writable
    /\ UNCHANGED <<tlb, procVars, halted>>

\* growproc() publishes the new size and reloads the page table.
SbrkGrown(p) ==
    /\ pc[p] = "grow" /\ loc[p].va = loc[p].to /\ loc[p].ret = "sbrk"
    /\ sz' = [sz EXCEPT ![p] = loc[p].to]
    /\ FlushTlb(p)
    /\ ReturnToUser(p)
    /\ UNCHANGED <<ptr, writable, memVars, state, parent, killed, halted>>

\* exec() commits to the new image and frees the old one.
ExecCommit(p) ==
    /\ pc[p] = "grow" /\ loc[p].va = loc[p].to /\ loc[p].ret = "exec"
    /\ ptr' = [ptr EXCEPT ![Pgdir(p)] = ptr[Dir(p)], ![Dir(p)] = ptr[Pgdir(p)]]
    /\ sz' = [sz EXCEPT ![p] = loc[p].to]
    /\ FlushTlb(p)
    /\ loc' = [loc EXCEPT ![p].ret = "user"]
    /\ Goto(p, "freevm")
    /\ UNCHANGED <<writable, memVars, state, parent, killed, halted>>

\* deallocuvm() frees the pages from loc.to up, one at a time.
DeallocuvmPage(p) ==
    /\ pc[p] = "shrink"
    /\ \E va \in Mapped(ptr[Pgdir(p)]) :
         LET pte == Pte(ptr[Pgdir(p)], va)
         IN  /\ loc[p].to <= va
             /\ \A low \in Mapped(ptr[Pgdir(p)]) : low < loc[p].to \/ va <= low
             /\ Kfree(ptr[pte])
             /\ ptr' = [ptr EXCEPT ![pte] = NoPage]
             /\ writable' = writable \ {pte}
    /\ UNCHANGED <<tlb, procVars, pc, loc, halted>>

\* growproc() reloads the page table on success only; a rollback returns -1.
SbrkShrunk(p) ==
    /\ pc[p] = "shrink"
    /\ \A va \in Mapped(ptr[Pgdir(p)]) : va < loc[p].to
    /\ sz' = [sz EXCEPT ![p] = loc[p].to]
    /\ IF loc[p].ret = "sbrk" THEN FlushTlb(p) ELSE UNCHANGED tlb
    /\ ReturnToUser(p)
    /\ UNCHANGED <<ptr, writable, memVars, state, parent, killed, halted>>

-----------------------------------------------------------------------------
(* User code, the MMU, and Cow_handler(). *)

\* A load fills the TLB from the page table.
Load(p, va) ==
    /\ InUser(p) /\ va < sz[p] /\ tlb[p][va] = NoEntry
    /\ tlb' = [tlb EXCEPT ![p][va] = Entry(ptr[Pgdir(p)], va)]
    /\ UNCHANGED <<ptr, writable, memVars, procVars, pc, loc, halted>>

\* What the MMU uses for a store: a cached writable translation, else the table.
StoreEntry(p, va) ==
    IF tlb[p][va].w THEN tlb[p][va] ELSE Entry(ptr[Pgdir(p)], va)

\* A store, by user code or by a system call filling a user buffer.
Store(p, va, v) ==
    /\ InUser(p) /\ va < sz[p] /\ StoreEntry(p, va).w
    /\ data' = [data EXCEPT ![StoreEntry(p, va).pg] = v]
    /\ tlb' = [tlb EXCEPT ![p][va] = StoreEntry(p, va)]
    /\ UNCHANGED <<ptr, writable, refc, free, procVars, pc, loc, halted>>

\* A user store to a read-only page: fault with tf->err == 7, Cow_handler.
StoreFault(p, va) ==
    /\ EnterKernel(p) /\ va < sz[p] /\ ~StoreEntry(p, va).w
    /\ tlb' = [tlb EXCEPT ![p][va] = NoEntry]
    /\ loc' = [loc EXCEPT ![p].va = va]
    /\ Goto(p, "cow")
    /\ UNCHANGED <<ptr, writable, memVars, procVars, halted>>

\* A system call's store to a read-only page: fault with tf->err == 3.
KernelStoreFault(p, va) ==
    /\ EnterKernel(p) /\ va < sz[p] /\ ~StoreEntry(p, va).w
    /\ tlb' = [tlb EXCEPT ![p][va] = NoEntry]
    /\ Goto(p, "kfault")
    /\ UNCHANGED <<ptr, writable, memVars, procVars, loc, halted>>

\* trap() marks the process and resumes the store, which faults again.
KernelFaultTrap(p) ==
    /\ pc[p] = "kfault" /\ ~killed[p]
    /\ killed' = [killed EXCEPT ![p] = TRUE]
    /\ UNCHANGED <<ptr, writable, memVars, tlb, state, parent, sz, pc, loc, halted>>

\* A process switched out and in again starts with an empty TLB (switchuvm).
\* A switch inside the kernel has the effect of one right after the return.
SwitchTlb(p) ==
    /\ InUser(p) /\ tlb[p] # NoTlb
    /\ FlushTlb(p)
    /\ UNCHANGED <<ptr, writable, memVars, procVars, pc, loc, halted>>

\* Cow_handler() reads the reference count and lets kmem.lock go; it panics
\* over a page that is not present.
CowGetRefc(p) ==
    /\ pc[p] = "cow"
    /\ LET pte == Pte(ptr[Pgdir(p)], loc[p].va)
       IN  /\ ptr[pte] # NoPage
           /\ loc' = [loc EXCEPT ![p].cnt = refc[ptr[pte]]]
    /\ Goto(p, "copy")
    /\ UNCHANGED <<ptr, writable, memVars, tlb, procVars, halted>>

\* Slip: a page nobody shares is left read-only.
CowReuseReadOnly(p) ==
    /\ pc[p] = "copy" /\ loc[p].cnt = 1
    /\ FlushTlb(p)
    /\ ReturnToUser(p)
    /\ UNCHANGED <<ptr, writable, memVars, procVars, halted>>

\* Not shared: the page is made writable in place.
CowReuse(p) ==
    /\ pc[p] = "copy" /\ loc[p].cnt = 1
    /\ writable' = writable \cup {Pte(ptr[Pgdir(p)], loc[p].va)}
    /\ FlushTlb(p)
    /\ ReturnToUser(p)
    /\ UNCHANGED <<ptr, memVars, procVars, halted>>

\* Shared: a page for the copy, or, without one, freevm on the page directory
\* the CPU is running on.
CowKalloc(p) ==
    /\ pc[p] = "copy" /\ loc[p].cnt # 1
    /\ \/ \E pg \in Page :
            /\ Kalloc(pg)
            /\ ptr' = [ptr EXCEPT ![Local(p)] = pg]
            /\ Goto(p, "remap")
            /\ UNCHANGED loc
       \/ /\ free = {}
          /\ ptr' = [ptr EXCEPT ![Dir(p)] = ptr[Pgdir(p)], ![Pgdir(p)] = NoPage]
          /\ loc' = [loc EXCEPT ![p].ret = "halt"]
          /\ Goto(p, "freevm")
          /\ UNCHANGED <<refc, free>>
    /\ UNCHANGED <<writable, data, tlb, procVars, halted>>

\* Slip: no memmove.
CowRemapUncopied(p) ==
    /\ pc[p] = "remap"
    /\ LET pte == Pte(ptr[Pgdir(p)], loc[p].va)
       IN  /\ ptr' = [ptr EXCEPT ![pte] = ptr[Local(p)], ![Local(p)] = ptr[pte]]
           /\ writable' = writable \cup {pte}
    /\ FlushTlb(p)
    /\ Goto(p, "release")
    /\ UNCHANGED <<memVars, procVars, loc, halted>>

\* memmove, the old entry cleared and flushed, the copy mapped writable.
CowRemap(p) ==
    /\ pc[p] = "remap"
    /\ LET pte == Pte(ptr[Pgdir(p)], loc[p].va)
       IN  /\ data' = [data EXCEPT ![ptr[Local(p)]] = data[ptr[pte]]]
           /\ ptr' = [ptr EXCEPT ![pte] = ptr[Local(p)], ![Local(p)] = ptr[pte]]
           /\ writable' = writable \cup {pte}
    /\ FlushTlb(p)
    /\ Goto(p, "release")
    /\ UNCHANGED <<refc, free, procVars, loc, halted>>

\* kfree drops the reference to the page that was shared; lcr3.
CowRelease(p) ==
    /\ pc[p] = "release"
    /\ Kfree(ptr[Local(p)])
    /\ ptr' = [ptr EXCEPT ![Local(p)] = NoPage]
    /\ FlushTlb(p)
    /\ ReturnToUser(p)
    /\ UNCHANGED <<writable, procVars, halted>>

-----------------------------------------------------------------------------
\* The pages userinit() takes for the first process.
InitPages(ks, d, tab, u) ==
    /\ ks \in Heads(Page)
    /\ d \in Heads(Page \ {ks})
    /\ tab \in Heads(Page \ {ks, d})
    /\ u \in Heads(Page \ {ks, d, tab})

\* The pointers it stores.
InitPtr(ks, d, tab, u) ==
    [l \in Loc |-> CASE l = Kstack(initproc) -> ks
                     [] l = Pgdir(initproc)  -> d
                     [] l = Ptab(d)          -> tab
                     [] l = Pte(d, 0)        -> u
                     [] OTHER                -> NoPage]

\* userinit(): one process with one writable page; the rest is free.
Init ==
    \E ks, d, tab, u \in Page :
      /\ InitPages(ks, d, tab, u)
      /\ ptr = InitPtr(ks, d, tab, u)
      /\ writable = {Pte(d, 0)}
      /\ refc = [pg \in Page |-> IF pg \in {ks, d, tab, u} THEN 1 ELSE 0]
      /\ free = Page \ {ks, d, tab, u}
      /\ data = [pg \in Page |-> IF pg = u THEN Zero ELSE Junk]
      /\ tlb = [p \in Proc |-> NoTlb]
      /\ state = [p \in Proc |-> IF p = initproc THEN "RUNNABLE" ELSE "UNUSED"]
      /\ parent = [p \in Proc |-> NoProc]
      /\ killed = [p \in Proc |-> FALSE]
      /\ sz = [p \in Proc |-> IF p = initproc THEN 1 ELSE 0]
      /\ pc = [p \in Proc |-> IF p = initproc THEN "user" ELSE "none"]
      /\ loc = [p \in Proc |-> NoLoc]
      /\ halted = FALSE

\* Steps user code asks for, and the MMU's.
UserStep(p) ==
    \/ ForkAllocproc(p) \/ Exit(p) \/ WaitReap(p)
    \/ SbrkGrow(p) \/ SbrkShrink(p) \/ ExecSetupkvm(p)
    \/ SwitchTlb(p)
    \/ \E va \in Va : \/ Load(p, va) \/ StoreFault(p, va) \/ KernelStoreFault(p, va)
                      \/ \E v \in Val : Store(p, va, v)

\* Steps of a system call or a trap under way.
KernelStep(p) ==
    \/ ForkKstack(p) \/ ForkSetupkvm(p) \/ ShareIncr(p) \/ ShareMap(p)
    \/ ForkDone(p) \/ ForkUndo(p)
    \/ FreevmPage(p) \/ FreevmTable(p) \/ FreevmDir(p)
    \/ WaitDone(p)
    \/ AllocuvmPage(p) \/ AllocuvmMap(p) \/ SbrkGrown(p) \/ ExecCommit(p)
    \/ DeallocuvmPage(p) \/ SbrkShrunk(p)
    \/ KernelFaultTrap(p)
    \/ CowGetRefc(p) \/ CowReuse(p) \/ CowKalloc(p) \/ CowRemap(p) \/ CowRelease(p)

Next == ~halted /\ \E p \in Proc : UserStep(p) \/ KernelStep(p)

Spec == Init /\ [][Next]_vars

\* The scheduler's loop serves every slot, and a kernel thread that spins for
\* ptable.lock gets it in the end: what a kernel thread can do again and again
\* it does.  User code owes nothing.
FairSpec == Spec /\ \A p \in Proc : SF_vars(~halted /\ KernelStep(p))
=============================================================================
