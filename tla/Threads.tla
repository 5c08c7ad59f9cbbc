------------------------------ MODULE Threads ------------------------------
(***************************************************************************)
(* Processes of several threads (project 3: proc.c, exec.c): the slots of  *)
(* ptable, the calls that make and end threads and processes, and the      *)
(* memory these own.                                                       *)
(*                                                                         *)
(* A critical section of ptable.lock is one action, and so is every call of *)
(* kalloc() made without it: the kernel is preempted in between.  A user   *)
(* address space is its page directory and its size, open files and the    *)
(* disk are left out.  What nobody reads any more is forgotten at once: the *)
(* channel of a thread that does not sleep, and the directory of a free    *)
(* slot.                                                                   *)
(*                                                                         *)
(* What programs may do is narrowed by four rules, named where they are   *)
(* used: init, after its exec(), only forks and waits and is not killed;   *)
(* only threads that thread_create() made call thread_exit(); a thread is  *)
(* joined by another thread of its process, and once; no sbrk() gives the  *)
(* user stack of a thread back.                                            *)
(*                                                                         *)
(* A definition marked "Slip" is no part of the specification: it is a     *)
(* plausible mistake in the definition below it, kept to show that the     *)
(* properties would see it.                                                *)
(***************************************************************************)
EXTENDS Integers, FiniteSets, FiniteSetsExt, Functions

CONSTANTS
    NPROC,
    Cpu,
    Page,             \* the physical pages kalloc() has for stacks and directories
    NoPage,           \* the null pointer
    Heads(_, _),      \* the free pages that may be at the head of the list; the second
                      \* argument is the use, so that an instance can choose among
                      \* pages that are all alike
    MaxPid, MaxTid,   \* bounds on nextpid and nexttid
    MaxSz             \* bound on the size of a process, in pages

ASSUME ThreadsAssumption ==
    /\ NPROC \in Nat \ {0} /\ MaxPid \in Nat \ {0} /\ MaxTid \in Nat \ {0}
    /\ MaxSz \in Nat \ {0}
    /\ NoPage \notin Page
    /\ \A S \in SUBSET Page : \A u \in 1 .. 2 * NPROC :
         Heads(S, u) \subseteq S /\ (S # {} => Heads(S, u) # {})

Slot == 1 .. NPROC
initproc == 1
Null == 0           \* no slot; no pid and no tid

VARIABLES
    thread,         \* ptable.thread
    free,           \* the pages on the free list
    cpu,            \* c->proc
    pc, arg,        \* where in the kernel a thread is, and its local variable there
    made,           \* the slots of threads that thread_create() made
    nextpid, nexttid

vars == <<thread, free, cpu, pc, arg, made, nextpid, nexttid>>

State == {"UNUSED", "EMBRYO", "SLEEPING", "RUNNABLE", "RUNNING", "ZOMBIE"}
\* What a thread sleeps on: a tid, or a slot of ptable.
TidChan(t) == <<"tid", t>>
SlotChan(s) == <<"slot", s>>
Awake == <<"none", Null>>
Chan == {Awake} \cup {TidChan(t) : t \in 1 .. MaxTid} \cup {SlotChan(s) : s \in Slot}

\* The uses of a page.
KstackOf(s) == s
PgdirOf(s) == NPROC + s

Zombies(S) == {s \in S : thread[s].state = "ZOMBIE"}
Unused == {s \in Slot : thread[s].state = "UNUSED"}
Of(p) == {s \in Slot \ Unused : thread[s].pid = thread[p].pid}   \* the threads of a process
Children(p) == {s \in Slot : thread[s].parent = p}

-----------------------------------------------------------------------------
(* Scheduling. *)

OnCpu(p) == \E c \in Cpu : cpu[c] = p
Sched(p) == cpu' = [c \in Cpu |-> IF cpu[c] = p THEN Null ELSE cpu[c]]
\* In user code; a killed thread does nothing there but exit at its next trap.
InUser(p) == OnCpu(p) /\ pc[p] = "user" /\ ~thread[p].killed
InProgram(p) == InUser(p) /\ p # initproc
In(p, l) == OnCpu(p) /\ pc[p] = l
Goto(p, l) == pc' = [pc EXCEPT ![p] = l]

\* Slip: sleepers on any channel.
WokenAll(th, chan) ==
    [s \in Slot |-> IF th[s].state = "SLEEPING"
                    THEN [th[s] EXCEPT !.state = "RUNNABLE", !.chan = Awake] ELSE th[s]]

\* wakeup1(): the table th without sleepers on a channel.
Woken(th, chan) ==
    [s \in Slot |-> IF th[s].state = "SLEEPING" /\ th[s].chan = chan
                    THEN [th[s] EXCEPT !.state = "RUNNABLE", !.chan = Awake] ELSE th[s]]

Scheduler(c, p) ==
    /\ cpu[c] = Null /\ thread[p].state = "RUNNABLE"
    /\ cpu' = [cpu EXCEPT ![c] = p]
    /\ thread' = [thread EXCEPT ![p].state = "RUNNING"]
    /\ UNCHANGED <<free, pc, arg, made, nextpid, nexttid>>

\* The timer interrupts user code, and the kernel where it holds no lock.
Yield(p) ==
    /\ OnCpu(p) /\ thread[p].state = "RUNNING"
    /\ thread' = [thread EXCEPT ![p].state = "RUNNABLE"]
    /\ Sched(p)
    /\ UNCHANGED <<free, pc, arg, made, nextpid, nexttid>>

-----------------------------------------------------------------------------
(* thread_create, thread_exit and thread_join. *)

\* The free slots of threads of the process that were joined: their user stacks
\* are there to be used again.
OldStacks(p) == {s \in Unused : thread[s].pid = thread[p].pid}

\* No stack left over: another page at the end of the address space, which all
\* threads of the process then have.
Grown(p, th) ==
    [s \in Slot |-> IF s \in Of(p) THEN [th[s] EXCEPT !.sz = th[p].sz + 1] ELSE th[s]]

\* Without a slot, a kernel stack or a user page it fails and leaves no trace.
ThreadCreate(p) ==
    /\ InProgram(p) /\ Unused # {} /\ nexttid <= MaxTid
    /\ LET t == Min(Unused)
           reuse == OldStacks(p) # {}
           th == IF reuse THEN thread ELSE Grown(p, thread)
           ustack == IF reuse THEN th[Min(OldStacks(p))].ustack ELSE th[p].sz
       IN /\ reuse \/ thread[p].sz < MaxSz
          /\ \E k \in Heads(free, KstackOf(t)) :
               /\ thread' = [th EXCEPT ![t] =
                                [@ EXCEPT !.state = "RUNNABLE", !.kstack = k, !.ustack = ustack,
                                          !.pgdir = th[p].pgdir, !.sz = th[p].sz,
                                          !.parent = th[p].parent, !.pid = th[p].pid,
                                          !.tid = nexttid]]
               /\ free' = free \ {k}
          /\ made' = made \cup {t}
          /\ pc' = [pc EXCEPT ![t] = "user"]
    /\ nexttid' = nexttid + 1
    /\ UNCHANGED <<cpu, arg, nextpid>>

Blank == [state |-> "UNUSED", pid |-> Null, tid |-> Null, parent |-> Null, killed |-> FALSE,
          chan |-> Awake, kstack |-> NoPage, ustack |-> Null, pgdir |-> NoPage, sz |-> 0]

\* Slip: nobody is woken up.
ThreadExitSilent(p) ==
    /\ InUser(p) /\ p \in made
    /\ thread' = [thread EXCEPT ![p].state = "ZOMBIE"]
    /\ Sched(p)
    /\ UNCHANGED <<free, pc, arg, made, nextpid, nexttid>>

\* thread_wait(), which thread_exit() ends in.
ThreadExit(p) ==
    /\ InUser(p) /\ p \in made
    /\ thread' = [Woken(thread, TidChan(thread[p].tid)) EXCEPT ![p].state = "ZOMBIE"]
    /\ Sched(p)
    /\ UNCHANGED <<free, pc, arg, made, nextpid, nexttid>>

Joiners(s) == {q \in Slot \ Unused : pc[q] = "join" /\ arg[q] = s}

\* The rest of thread_join(): what it resets of the slot th[s], pid not.
Joined(th, s) ==
    [th EXCEPT ![s] = [@ EXCEPT !.kstack = NoPage, !.state = "UNUSED", !.sz = 0,
                                !.parent = Null, !.tid = Null, !.killed = FALSE,
                                !.pgdir = NoPage, !.chan = Awake]]

JoinZombie(p) ==
    \E s \in Of(p) \cap made :
      /\ InProgram(p) /\ s # p /\ Joiners(s) = {}
      /\ thread[s].state = "ZOMBIE"
      /\ thread' = Joined(thread, s)
      /\ free' = free \cup {thread[s].kstack}
      /\ made' = made \ {s}
      /\ UNCHANGED <<cpu, pc, arg, nextpid, nexttid>>

JoinSleep(p) ==
    \E s \in Of(p) \cap made :
      /\ InProgram(p) /\ s # p /\ Joiners(s) = {}
      /\ thread[s].state # "ZOMBIE"
      /\ thread' = [thread EXCEPT ![p].state = "SLEEPING", ![p].chan = TidChan(thread[s].tid)]
      /\ Goto(p, "join")
      /\ arg' = [arg EXCEPT ![p] = s]
      /\ Sched(p)
      /\ UNCHANGED <<free, made, nextpid, nexttid>>

\* Whatever woke it up, it takes the thread for a zombie.
JoinWoken(p) ==
    /\ In(p, "join")
    /\ thread' = Joined(thread, arg[p])
    /\ free' = free \cup {thread[arg[p]].kstack}
    /\ made' = made \ {arg[p]}
    /\ pc' = [pc EXCEPT ![p] = "user", ![arg[p]] = "user"]
    /\ arg' = [arg EXCEPT ![p] = Null, ![arg[p]] = Null]
    /\ UNCHANGED <<cpu, nextpid, nexttid>>

-----------------------------------------------------------------------------
(* fork *)

\* allocproc() takes the first free slot; killed and chan stay what they were.
ForkSlot(p) ==
    /\ InUser(p) /\ Unused # {} /\ nextpid <= MaxPid /\ nexttid <= MaxTid
    /\ LET t == Min(Unused)
       IN /\ thread' = [thread EXCEPT ![t] = [@ EXCEPT !.state = "EMBRYO", !.pid = nextpid,
                                                        !.tid = nexttid, !.ustack = Null,
                                                        !.pgdir = NoPage]]
          /\ arg' = [arg EXCEPT ![p] = t]
    /\ nextpid' = nextpid + 1
    /\ nexttid' = nexttid + 1
    /\ Goto(p, "kstack")
    /\ UNCHANGED <<free, cpu, made>>

ForkKstack(p) ==
    /\ In(p, "kstack")
    /\ \/ \E k \in Heads(free, KstackOf(arg[p])) :
            /\ thread' = [thread EXCEPT ![arg[p]].kstack = k]
            /\ free' = free \ {k}
            /\ Goto(p, "copyuvm") /\ UNCHANGED arg
       \/ /\ free = {}
          /\ thread' = [thread EXCEPT ![arg[p]].kstack = NoPage, ![arg[p]].state = "UNUSED"]
          /\ Goto(p, "user")
          /\ arg' = [arg EXCEPT ![p] = Null]
          /\ UNCHANGED free
    /\ UNCHANGED <<cpu, made, nextpid, nexttid>>

\* copyuvm() fails for want of a directory or of any other page.
ForkCopyFails(p) ==
    /\ In(p, "copyuvm")
    /\ thread' = [thread EXCEPT ![arg[p]].kstack = NoPage, ![arg[p]].state = "UNUSED"]
    /\ free' = free \cup {thread[arg[p]].kstack}
    /\ Goto(p, "user")
    /\ arg' = [arg EXCEPT ![p] = Null]
    /\ UNCHANGED <<cpu, made, nextpid, nexttid>>

ForkCopy(p) ==
    /\ In(p, "copyuvm")
    /\ \E k \in Heads(free, PgdirOf(arg[p])) :
         /\ thread' = [thread EXCEPT ![arg[p]] = [@ EXCEPT !.pgdir = k, !.sz = thread[p].sz,
                                                            !.parent = p]]
         /\ free' = free \ {k}
    /\ Goto(p, "forked")
    /\ UNCHANGED <<cpu, arg, made, nextpid, nexttid>>

ForkDone(p) ==
    /\ In(p, "forked")
    /\ thread' = [thread EXCEPT ![arg[p]].state = "RUNNABLE"]
    /\ pc' = [pc EXCEPT ![arg[p]] = "user", ![p] = "user"]
    /\ arg' = [arg EXCEPT ![p] = Null]
    /\ UNCHANGED <<free, cpu, made, nextpid, nexttid>>

-----------------------------------------------------------------------------
(* exit, wait and kill *)

\* A system call, or trap() on the way back to the user code of a killed
\* thread.  The files are closed, with interrupts on.
ExitCall(p) ==
    /\ In(p, "user") /\ p # initproc
    /\ Goto(p, "exit")
    /\ UNCHANGED <<thread, free, cpu, arg, made, nextpid, nexttid>>

\* The children of this thread go to init, and all threads of its process end.
Exit(p) ==
    /\ In(p, "exit")
    /\ LET th == Woken(thread, SlotChan(thread[p].parent))
           orphans == Children(p)
           woken == IF Zombies(orphans) # {} THEN Woken(th, SlotChan(initproc)) ELSE th
       IN thread' = [s \in Slot |->
                       IF s \in Of(p) THEN [woken[s] EXCEPT !.state = "ZOMBIE", !.chan = Awake]
                       ELSE IF s \in orphans THEN [woken[s] EXCEPT !.parent = initproc]
                       ELSE woken[s]]
    /\ pc' = [s \in Slot |-> IF s \in Of(p) THEN "user" ELSE pc[s]]
    /\ arg' = [s \in Slot |-> IF s \in Of(p) THEN Null ELSE arg[s]]
    /\ Sched(p)
    /\ UNCHANGED <<free, made, nextpid, nexttid>>

\* What wait() resets of a slot, tid not.
Reaped(t) ==
    [t EXCEPT !.kstack = NoPage, !.ustack = Null, !.sz = 0, !.pid = Null, !.parent = Null,
              !.killed = FALSE, !.state = "UNUSED", !.pgdir = NoPage, !.chan = Awake]

\* Slip: it does not wait for the other threads of a process.
WaitReapEarly(p) ==
    LET kids == Zombies(Children(p)) IN
      /\ InUser(p) \/ In(p, "wait")
      /\ kids # {}
      /\ thread' = [s \in Slot |-> IF s \in kids THEN Reaped(thread[s]) ELSE thread[s]]
      /\ free' = free \cup {thread[s].kstack : s \in kids} \cup {thread[Min(kids)].pgdir}
      /\ made' = made \ kids
      /\ Goto(p, "user")
      /\ UNCHANGED <<cpu, arg, nextpid, nexttid>>

\* All the children are zombies: all are reaped, and the directory of the first
\* is freed.
WaitReap(p) ==
    LET kids == Children(p) IN
      /\ InUser(p) \/ In(p, "wait")
      /\ kids # {} /\ Zombies(kids) = kids
      /\ thread' = [s \in Slot |-> IF s \in kids THEN Reaped(thread[s])
                                   ELSE thread[s]]
      /\ free' = free \cup {thread[s].kstack : s \in kids} \cup {thread[Min(kids)].pgdir}
      /\ made' = made \ kids
      /\ Goto(p, "user")
      /\ UNCHANGED <<cpu, arg, nextpid, nexttid>>

\* No children, or killed.
WaitFail(p) ==
    /\ In(p, "wait")
    /\ Children(p) = {} \/ (thread[p].killed /\ Zombies(Children(p)) # Children(p))
    /\ Goto(p, "user")
    /\ UNCHANGED <<thread, free, cpu, arg, made, nextpid, nexttid>>

WaitSleep(p) ==
    /\ InUser(p) \/ (In(p, "wait") /\ ~thread[p].killed)
    /\ Children(p) # {} /\ Zombies(Children(p)) # Children(p)
    /\ thread' = [thread EXCEPT ![p].state = "SLEEPING", ![p].chan = SlotChan(p)]
    /\ Goto(p, "wait")
    /\ Sched(p)
    /\ UNCHANGED <<free, arg, made, nextpid, nexttid>>

\* All slots that have the pid, the free ones too.
Kill(p) ==
    /\ InProgram(p)
    /\ \E pid \in {thread[s].pid : s \in Slot \ Unused} \ {thread[initproc].pid} :
         thread' = [s \in Slot |->
                      IF thread[s].pid # pid THEN thread[s]
                      ELSE [thread[s] EXCEPT !.killed = TRUE,
                              !.state = IF @ = "SLEEPING" THEN "RUNNABLE" ELSE @,
                              !.chan = Awake]]
    /\ UNCHANGED <<free, cpu, pc, arg, made, nextpid, nexttid>>

-----------------------------------------------------------------------------
(* exec and growproc *)

\* The new directory; reading the program may take long.
ExecCall(p) ==
    /\ InProgram(p)
    /\ \E k \in Heads(free, PgdirOf(p)) :
         /\ free' = free \ {k}
         /\ arg' = [arg EXCEPT ![p] = k]
    /\ Goto(p, "exec")
    /\ UNCHANGED <<thread, cpu, made, nextpid, nexttid>>

ExecBad(p) ==
    /\ In(p, "exec")
    /\ free' = free \cup {arg[p]}
    /\ Goto(p, "user")
    /\ arg' = [arg EXCEPT ![p] = Null]
    /\ UNCHANGED <<thread, cpu, made, nextpid, nexttid>>

\* The other threads end, whatever they are doing.
ExecKill(p) ==
    /\ In(p, "exec")
    /\ LET others == {s \in Of(p) : thread[s].tid # thread[p].tid}
       IN /\ thread' = [s \in Slot |->
                          IF s \in others
                          THEN [Reaped(thread[s]) EXCEPT !.tid = Null]
                          ELSE thread[s]]
          /\ free' = free \cup {thread[s].kstack : s \in others}
          /\ made' = made \ Of(p)
          /\ pc' = [s \in Slot |-> IF s = p THEN "commit" ELSE IF s \in others THEN "user"
                                    ELSE pc[s]]
          /\ arg' = [s \in Slot |-> IF s \in others THEN Null ELSE arg[s]]
    /\ UNCHANGED <<cpu, nextpid, nexttid>>

ExecDone(p) ==
    /\ In(p, "commit")
    /\ thread' = [thread EXCEPT ![p] = [@ EXCEPT !.pgdir = arg[p], !.sz = 1, !.ustack = 1]]
    /\ free' = free \cup {thread[p].pgdir}
    /\ Goto(p, "user")
    /\ arg' = [arg EXCEPT ![p] = Null]
    /\ UNCHANGED <<cpu, made, nextpid, nexttid>>

Sizes(p) ==
    LET sz == thread[p].sz
    IN {sz - 1, sz + 1} \cap (1 .. MaxSz \ {thread[s].ustack - 1 : s \in Of(p)})

\* Slip: the other threads keep the old size.
SbrkAlone(p) ==
    /\ InProgram(p)
    /\ \E sz \in Sizes(p) :
         thread' = [thread EXCEPT ![p].sz = sz]
    /\ UNCHANGED <<free, cpu, pc, arg, made, nextpid, nexttid>>

\* growproc() by a page up or down, though not the page of a stack in use.
Sbrk(p) ==
    /\ InProgram(p)
    /\ \E sz \in Sizes(p) :
         thread' = [s \in Slot |-> IF s \in Of(p) THEN [thread[s] EXCEPT !.sz = sz]
                                   ELSE thread[s]]
    /\ UNCHANGED <<free, cpu, pc, arg, made, nextpid, nexttid>>

-----------------------------------------------------------------------------
\* userinit()
Init ==
    /\ \E k \in Heads(Page, KstackOf(initproc)) :
       \E d \in Heads(Page \ {k}, PgdirOf(initproc)) :
         /\ thread = [s \in Slot |->
                        IF s # initproc THEN Blank
                        ELSE [Blank EXCEPT !.state = "RUNNABLE", !.pid = 1, !.tid = 1,
                                           !.kstack = k, !.ustack = 1, !.pgdir = d, !.sz = 1]]
         /\ free = Page \ {k, d}
    /\ cpu = [c \in Cpu |-> Null]
    /\ pc = [s \in Slot |-> "user"]
    /\ arg = [s \in Slot |-> Null]
    /\ made = {}
    /\ nextpid = 2 /\ nexttid = 2

ThreadStep(p) ==
    \/ ThreadCreate(p) \/ ThreadExit(p) \/ JoinZombie(p) \/ JoinSleep(p) \/ JoinWoken(p)
    \/ ForkSlot(p) \/ ForkKstack(p) \/ ForkCopyFails(p) \/ ForkCopy(p) \/ ForkDone(p)
    \/ ExitCall(p) \/ Exit(p) \/ WaitReap(p) \/ WaitFail(p) \/ WaitSleep(p) \/ Kill(p)
    \/ ExecCall(p) \/ ExecBad(p) \/ ExecKill(p) \/ ExecDone(p) \/ Sbrk(p)

Next == \E p \in Slot : ThreadStep(p) \/ Yield(p) \/ \E c \in Cpu : Scheduler(c, p)

Spec == Init /\ [][Next]_vars
=============================================================================
