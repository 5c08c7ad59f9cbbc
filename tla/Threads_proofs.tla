--------------------------- MODULE Threads_proofs ---------------------------
(***************************************************************************)
(* Threads, proved for any number of slots, pages and pids, on one         *)
(* processor: ThreadsInv is inductive.                                     *)
(***************************************************************************)
EXTENDS ThreadsProps, WellFoundedInduction, TLAPS

Label == {"user", "join", "kstack", "copyuvm", "forked", "exit", "wait", "exec", "commit"}

Entry ==
    [state : State, pid : Nat, tid : Nat, parent : Slot \cup {Null}, killed : BOOLEAN,
     chan : Chan, kstack : Page \cup {NoPage}, ustack : Nat, pgdir : Page \cup {NoPage}, sz : Nat]

TypeOK ==
    /\ thread \in [Slot -> Entry]
    /\ free \in SUBSET Page
    /\ cpu \in [Cpu -> Slot \cup {Null}]
    /\ pc \in [Slot -> Label]
    /\ arg \in [Slot -> Slot \cup Page \cup {Null}]
    /\ made \in SUBSET Slot
    /\ nextpid \in Nat /\ nexttid \in Nat /\ nexttid <= MaxTid + 1

Used(s) == thread[s].state # "UNUSED"
Same(s, t) == thread[s].pid = thread[t].pid

\* Who is who: pids and tids of slots in use are below the counters, a tid has one
\* slot, and the pid of an EMBRYO is nobody else's yet.
IdInv ==
    /\ \A s \in Slot : thread[s].pid < nextpid
    /\ \A s \in Slot : Used(s) => thread[s].tid \in 1 .. nexttid - 1
    /\ \A s, t \in Slot : Used(s) /\ Used(t) /\ thread[s].tid = thread[t].tid => s = t
    /\ \A s, t \in Slot : Used(s) /\ Used(t) /\ Same(s, t) /\ thread[s].state = "EMBRYO" => s = t

\* init never ends, is never killed, and has no other thread.
InitInv ==
    /\ thread[initproc].state \notin {"UNUSED", "EMBRYO", "ZOMBIE"}
    /\ ~thread[initproc].killed
    /\ thread[initproc].parent = Null
    /\ pc[initproc] \in {"user", "kstack", "copyuvm", "forked", "wait"}
    /\ initproc \notin made
    /\ \A s \in Slot : Used(s) /\ Same(s, initproc) => s = initproc

\* A slot nobody runs in is in the middle of no call; a free one has no stack and no
\* parent.
IdleInv ==
    \A s \in Slot :
      /\ thread[s].state \in {"UNUSED", "EMBRYO", "ZOMBIE"} => pc[s] = "user"
      /\ pc[s] \in {"user", "exit", "wait"} => arg[s] = Null
      /\ thread[s].state \in {"UNUSED", "EMBRYO"} => s \notin made
      /\ ~Used(s) => thread[s].kstack = NoPage /\ thread[s].parent = Null

\* What a processor runs is RUNNING.
CpuInv == \A c \in Cpu : cpu[c] # Null => thread[cpu[c]].state = "RUNNING"

\* A fork() under way has an EMBRYO of its own, whose stack, directory and parent are
\* there as far as the call has come.
Forking(p) == pc[p] \in {"kstack", "copyuvm", "forked"}
ForkInv ==
    /\ \A p \in Slot : Forking(p) =>
         /\ arg[p] \in Slot /\ thread[arg[p]].state = "EMBRYO"
         /\ pc[p] = "kstack" => thread[arg[p]].kstack = NoPage
         /\ pc[p] # "kstack" => thread[arg[p]].kstack # NoPage
         /\ pc[p] # "forked" => thread[arg[p]].pgdir = NoPage /\ thread[arg[p]].parent = Null
         /\ pc[p] = "forked" => thread[arg[p]].pgdir # NoPage
    /\ \A p, q \in Slot : Forking(p) /\ Forking(q) /\ arg[p] = arg[q] => p = q

\* A thread in thread_join() has a made thread of its process to itself, and sleeps
\* for as long as that one has not ended and nobody has killed the process.
JoinInv ==
    /\ \A p \in Slot : pc[p] = "join" =>
         /\ arg[p] \in made /\ arg[p] # p /\ Same(arg[p], p)
         /\ IF thread[p].state = "SLEEPING"
            THEN thread[p].chan = TidChan(thread[arg[p]].tid) /\ thread[arg[p]].state # "ZOMBIE"
            ELSE thread[p].killed \/ thread[arg[p]].state = "ZOMBIE"
    /\ \A p, q \in Slot : pc[p] = "join" /\ pc[q] = "join" /\ arg[p] = arg[q] => p = q

\* Threads sleep in thread_join() and in wait() only, there while a child is left that
\* is no zombie.
WaitInv ==
    \A p \in Slot : thread[p].state = "SLEEPING" =>
      /\ pc[p] \in {"join", "wait"}
      /\ pc[p] = "wait" =>
           /\ thread[p].chan = SlotChan(p)
           /\ \E s \in Slot : thread[s].parent = p /\ thread[s].state # "ZOMBIE"

\* The main thread of the process of s: the one no thread_create() made, or the one
\* exec() has left.  Until then nothing ends it but exit(), with all the others.
IsMain(m, s) ==
    /\ m \notin made /\ Used(m) /\ Same(m, s)
    /\ thread[m].state = "ZOMBIE" => thread[s].state = "ZOMBIE"
MainInv == \A s \in Slot : Used(s) => \E m \in Slot : IsMain(m, s)

\* Threads of a process agree on their directory, size and parent; two processes have
\* two directories.
SpaceInv ==
    \A s, t \in Slot : Used(s) /\ Used(t) =>
      IF Same(s, t)
      THEN /\ thread[s].pgdir = thread[t].pgdir /\ thread[s].sz = thread[t].sz
           /\ thread[s].parent = thread[t].parent
      ELSE thread[s].pgdir # NoPage => thread[s].pgdir # thread[t].pgdir

\* Every page in use is off the free list and used for one thing.
PageInv ==
    /\ \A s \in Slot : Used(s) =>
         /\ thread[s].kstack \notin free /\ thread[s].pgdir \notin free
         /\ thread[s].state # "EMBRYO" => thread[s].kstack # NoPage /\ thread[s].pgdir # NoPage
    /\ \A s, t \in Slot : Used(s) /\ Used(t) /\ thread[s].kstack # NoPage =>
         /\ thread[t].pgdir # thread[s].kstack
         /\ s # t => thread[t].kstack # thread[s].kstack

\* An exec() under way holds a page for the new directory that nobody else has; having
\* ended the other threads, it is alone.
Execing(p) == pc[p] \in {"exec", "commit"}
ExecInv ==
    /\ \A p \in Slot : Execing(p) =>
         /\ arg[p] \in Page \ free
         /\ \A s \in Slot : Used(s) => thread[s].kstack # arg[p] /\ thread[s].pgdir # arg[p]
         /\ pc[p] = "commit" => \A s \in Slot : Used(s) /\ Same(s, p) => s = p
    /\ \A p, q \in Slot : Execing(p) /\ Execing(q) /\ arg[p] = arg[q] => p = q

ThreadsInv ==
    /\ TypeOK /\ IdInv /\ InitInv /\ IdleInv /\ CpuInv /\ ForkInv /\ JoinInv /\ WaitInv
    /\ MainInv /\ SpaceInv /\ PageInv /\ ExecInv

-----------------------------------------------------------------------------
(* Processors, pages and slots. *)

\* One processor.  With two, exit(), exec() and a killed thread_join() end
\* threads that run on the other one.
OneCpu == \A c, d \in Cpu : c = d

\* kalloc() hands out a page of the free list.
LEMMA Kalloc ==
    ASSUME TypeOK, NEW u \in 1 .. 2 * NPROC, NEW k \in Heads(free, u)
    PROVE  k \in free /\ k \in Page /\ k # NoPage
BY ThreadsAssumption DEF TypeOK

LEMMA Uses ==
    /\ NPROC \in Nat \ {0} /\ MaxTid \in Nat \ {0} /\ NoPage \notin Page
    /\ initproc \in Slot /\ Null \notin Slot /\ Slot \in SUBSET Nat /\ Null \in Nat
    /\ \A s \in Slot : KstackOf(s) \in 1 .. 2 * NPROC /\ PgdirOf(s) \in 1 .. 2 * NPROC
BY ThreadsAssumption DEF Slot, KstackOf, PgdirOf, initproc, Null

\* The first slot of a set of them is one.
LEMMA First == ASSUME NEW S \in SUBSET Slot, S # {} PROVE Min(S) \in S
<1>1. S \in SUBSET Nat
  BY Uses
<1>2. PICK x \in S : \A y \in S : <<y, x>> \notin OpToRel(<, Nat)
  BY <1>1, NatLessThanWellFounded, WFMin
<1>3. \A y \in S : ~(y < x)
  BY <1>1, <1>2 DEF OpToRel
<1>4. \A y \in S : x <= y
  BY <1>1, <1>3
<1> QED BY <1>4 DEF Min

LEMMA FirstUnused == ASSUME Unused # {} PROVE Min(Unused) \in Slot /\ ~Used(Min(Unused))
<1>1. Unused \in SUBSET Slot
  BY DEF Unused
<1> QED BY <1>1, First DEF Unused, Used

\* Whoever runs is the only one that does.
LEMMA Runs ==
    ASSUME OneCpu, CpuInv, NEW p \in Slot, OnCpu(p)
    PROVE  /\ thread[p].state = "RUNNING"
           /\ \A c \in Cpu : cpu[c] = p
BY Uses DEF OneCpu, CpuInv, OnCpu

-----------------------------------------------------------------------------
(* Scheduling. *)

\* A processor takes a thread up.
LEMMA SchedulerInv ==
    ASSUME OneCpu, ThreadsInv, NEW p \in Slot, NEW c \in Cpu, Scheduler(c, p)
    PROVE  ThreadsInv'
<1> USE DEF ThreadsInv
<1>1. /\ thread[p].state = "RUNNABLE"
      /\ cpu' = [cpu EXCEPT ![c] = p]
      /\ UNCHANGED <<free, pc, arg, made, nextpid, nexttid>>
  BY DEF Scheduler
<1>2. /\ thread'[p] = [thread[p] EXCEPT !.state = "RUNNING"]
      /\ \A s \in Slot \ {p} : thread'[s] = thread[s]
      /\ thread' \in [Slot -> Entry] /\ thread[p] \in Entry
  BY DEF Scheduler, TypeOK, Entry, State
<1>t. TypeOK'
  BY <1>1, <1>2 DEF TypeOK, Entry, State, Label
<1>a. IdInv'
  BY <1>1, <1>2 DEF IdInv, Used, Same, Entry
<1>b. InitInv'
  BY <1>1, <1>2, Uses DEF InitInv, Used, Same, Entry
<1>c. IdleInv'
  BY <1>1, <1>2 DEF IdleInv, Used, Entry
<1>d. CpuInv'
  BY <1>1, <1>2 DEF CpuInv, TypeOK, Entry, OneCpu
<1>e. ForkInv'
  BY <1>1, <1>2 DEF ForkInv, Forking, Entry
<1>f. JoinInv'
  BY <1>1, <1>2 DEF JoinInv, Same, TypeOK, Entry
<1>g. WaitInv'
  BY <1>1, <1>2 DEF WaitInv, Entry
<1>h. MainInv'
  BY <1>1, <1>2 DEF MainInv, IsMain, Used, Same, Entry
<1>i. SpaceInv'
  BY <1>1, <1>2 DEF SpaceInv, Used, Same, Entry
<1>j. PageInv'
  BY <1>1, <1>2 DEF PageInv, Used, Entry
<1>k. ExecInv'
  BY <1>1, <1>2 DEF ExecInv, Execing, Used, Same, Entry
<1> QED BY <1>t, <1>a, <1>b, <1>c, <1>d, <1>e, <1>f, <1>g, <1>h, <1>i, <1>j, <1>k

\* The timer takes the processor from it.
LEMMA YieldInv ==
    ASSUME ThreadsInv, NEW p \in Slot, Yield(p)
    PROVE  ThreadsInv'
<1> USE DEF ThreadsInv
<1>1. /\ thread[p].state = "RUNNING"
      /\ cpu' = [c \in Cpu |-> IF cpu[c] = p THEN Null ELSE cpu[c]]
      /\ UNCHANGED <<free, pc, arg, made, nextpid, nexttid>>
  BY DEF Yield, Sched
<1>2. /\ thread'[p] = [thread[p] EXCEPT !.state = "RUNNABLE"]
      /\ \A s \in Slot \ {p} : thread'[s] = thread[s]
      /\ thread' \in [Slot -> Entry] /\ thread[p] \in Entry
  BY DEF Yield, TypeOK, Entry, State
<1>t. TypeOK'
  BY <1>1, <1>2 DEF TypeOK, Entry, State, Label
<1>a. IdInv'
  BY <1>1, <1>2 DEF IdInv, Used, Same, Entry
<1>b. InitInv'
  BY <1>1, <1>2, Uses DEF InitInv, Used, Same, Entry
<1>c. IdleInv'
  BY <1>1, <1>2 DEF IdleInv, Used, Entry
<1>d. CpuInv'
  BY <1>1, <1>2 DEF CpuInv, TypeOK, Entry, OneCpu
<1>e. ForkInv'
  BY <1>1, <1>2 DEF ForkInv, Forking, Entry
<1>f. JoinInv'
  BY <1>1, <1>2 DEF JoinInv, Same, TypeOK, Entry
<1>g. WaitInv'
  BY <1>1, <1>2 DEF WaitInv, Entry
<1>h. MainInv'
  BY <1>1, <1>2 DEF MainInv, IsMain, Used, Same, Entry
<1>i. SpaceInv'
  BY <1>1, <1>2 DEF SpaceInv, Used, Same, Entry
<1>j. PageInv'
  BY <1>1, <1>2 DEF PageInv, Used, Entry
<1>k. ExecInv'
  BY <1>1, <1>2 DEF ExecInv, Execing, Used, Same, Entry
<1> QED BY <1>t, <1>a, <1>b, <1>c, <1>d, <1>e, <1>f, <1>g, <1>h, <1>i, <1>j, <1>k

-----------------------------------------------------------------------------
(* thread_create, thread_exit and thread_join. *)

\* thread_create(): a free slot, a kernel stack, and the memory of its process.
LEMMA ThreadCreateInv ==
    ASSUME OneCpu, ThreadsInv, NEW p \in Slot, ThreadCreate(p)
    PROVE  ThreadsInv'
<1> USE DEF ThreadsInv
<1>0. /\ InProgram(p) /\ p # initproc /\ ~thread[p].killed /\ pc[p] = "user"
      /\ thread[p].state = "RUNNING" /\ thread[p] \in Entry
      /\ nexttid <= MaxTid
  BY Runs DEF ThreadCreate, InProgram, InUser, TypeOK
<1>1. PICK t \in Slot, k \in Page, z \in Nat, u \in Nat :
         /\ ~Used(t) /\ k \in free /\ k # NoPage
         /\ thread'[t] = [thread[t] EXCEPT !.state = "RUNNABLE", !.kstack = k, !.ustack = u,
                             !.pgdir = thread[p].pgdir, !.sz = z, !.parent = thread[p].parent,
                             !.pid = thread[p].pid, !.tid = nexttid]
         /\ \A s \in Slot \ {t} : thread'[s] = IF s \in Of(p) THEN [thread[s] EXCEPT !.sz = z]
                                               ELSE thread[s]
         /\ DOMAIN thread' = Slot /\ thread' = [s \in Slot |-> thread'[s]]
         /\ free' = free \ {k} /\ made' = made \cup {t} /\ pc' = [pc EXCEPT ![t] = "user"]
         /\ nexttid' = nexttid + 1 /\ UNCHANGED <<cpu, arg, nextpid>>
  <2> DEFINE t == Min(Unused)
             reuse == OldStacks(p) # {}
             th == IF reuse THEN thread ELSE Grown(p, thread)
             ustack == IF reuse THEN th[Min(OldStacks(p))].ustack ELSE th[p].sz
  <2>1. t \in Slot /\ ~Used(t)
    BY FirstUnused DEF ThreadCreate
  <2>2. PICK k \in Heads(free, KstackOf(t)) :
          /\ thread' = [th EXCEPT ![t] =
                                [@ EXCEPT !.state = "RUNNABLE", !.kstack = k, !.ustack = ustack,
                                          !.pgdir = th[p].pgdir, !.sz = th[p].sz,
                                          !.parent = th[p].parent, !.pid = th[p].pid,
                                          !.tid = nexttid]]
          /\ free' = free \ {k}
    BY DEF ThreadCreate
  <2>3. k \in free /\ k \in Page /\ k # NoPage
    BY <2>1, Kalloc, Uses
  <2>4. t # p /\ t \notin Of(p) /\ p \in Of(p)
    BY <1>0, <2>1 DEF Of, Used, Unused
  <2>5. /\ th \in [Slot -> Entry] /\ th[p].sz \in Nat /\ th[t] = thread[t]
        /\ th[p].pgdir = thread[p].pgdir /\ th[p].parent = thread[p].parent /\ th[p].pid = thread[p].pid
        /\ \A s \in Slot : th[s] = IF s \in Of(p) THEN [thread[s] EXCEPT !.sz = th[p].sz] ELSE thread[s]
    <3>1. CASE reuse
      <4>1. \A s \in Of(p) : thread[s] \in Entry /\ thread[s].sz = thread[p].sz
        BY <1>0 DEF Of, Unused, SpaceInv, Used, Same, TypeOK
      <4>2. \A s \in Of(p) : [thread[s] EXCEPT !.sz = thread[p].sz] = thread[s]
        BY <4>1 DEF Entry
      <4> QED BY <3>1, <4>2, <1>0, <2>1 DEF TypeOK, Entry
    <3>2. CASE ~reuse
      <4>1. thread[p].sz + 1 \in Nat
        BY <1>0 DEF Entry
      <4>2. \A s \in Slot : th[s] = IF s \in Of(p) THEN [thread[s] EXCEPT !.sz = thread[p].sz + 1]
                                   ELSE thread[s]
        BY <3>2 DEF Grown
      <4>3. th[p].sz = thread[p].sz + 1
        BY <4>2, <2>4, <1>0 DEF Entry
      <4>4. th \in [Slot -> Entry]
        BY <3>2, <4>1 DEF Grown, TypeOK, Entry
      <4> HIDE DEF th
      <4> QED BY <4>1, <4>2, <4>3, <4>4, <2>4, <2>1, <1>0 DEF Entry
    <3> QED BY <3>1, <3>2
  <2>6. ustack \in Nat
    <3>1. CASE reuse
      <4>1. OldStacks(p) \in SUBSET Slot
        BY DEF OldStacks, Unused
      <4>2. Min(OldStacks(p)) \in Slot
        BY <3>1, <4>1, First
      <4> QED BY <3>1, <4>2, <2>5 DEF Entry
    <3> QED BY <3>1, <2>5
  <2>7. made' = made \cup {t} /\ pc' = [pc EXCEPT ![t] = "user"]
        /\ nexttid' = nexttid + 1 /\ UNCHANGED <<cpu, arg, nextpid>>
    BY DEF ThreadCreate
  <2> HIDE DEF t, th, ustack
  <2> QED BY <2>1, <2>2, <2>3, <2>4, <2>5, <2>6, <2>7
<1>2. /\ t # p /\ thread[t] \in Entry
      /\ thread'[t].state = "RUNNABLE" /\ thread'[t].pid = thread[p].pid /\ thread'[t].tid = nexttid
      /\ thread'[t].parent = thread[p].parent /\ thread'[t].kstack = k
      /\ thread'[t].pgdir = thread[p].pgdir /\ thread'[t].sz = z
      /\ thread'[t].killed = thread[t].killed
  BY <1>0, <1>1 DEF Entry, TypeOK, Used
<1>3. \A s \in Slot \ {t} :
        /\ thread'[s].state = thread[s].state /\ thread'[s].pid = thread[s].pid
        /\ thread'[s].tid = thread[s].tid /\ thread'[s].parent = thread[s].parent
        /\ thread'[s].killed = thread[s].killed /\ thread'[s].chan = thread[s].chan
        /\ thread'[s].kstack = thread[s].kstack /\ thread'[s].pgdir = thread[s].pgdir
        /\ thread'[s].sz = IF Used(s) /\ Same(s, p) THEN z ELSE thread[s].sz
  BY <1>1 DEF Entry, TypeOK, Of, Unused, Used, Same
<1>4. thread' \in [Slot -> Entry]
  <2>1. thread[p] \in Entry /\ thread[t] \in Entry /\ nexttid \in Nat /\ "RUNNABLE" \in State
    BY <1>0, <1>2, Uses DEF State, TypeOK
  <2>3. thread'[t] \in Entry
    BY <2>1, <1>1, ZenonT(60) DEF Entry
  <2>2. \A s \in Slot \ {t} : thread'[s] \in Entry
    BY <1>1 DEF Entry, TypeOK
  <2> QED BY <1>1, <2>3, <2>2
<1>5. /\ ~Used(t) /\ t # p /\ k \in free /\ k # NoPage /\ k \in Page /\ z \in Nat
      /\ free' = free \ {k} /\ made' = made \cup {t} /\ pc' = [pc EXCEPT ![t] = "user"]
      /\ nexttid' = nexttid + 1 /\ nexttid \in Nat /\ UNCHANGED <<cpu, arg, nextpid>>
  BY <1>1, <1>2 DEF TypeOK
<1>6. ~thread[p].killed /\ Used(p) /\ thread[p].state = "RUNNING" /\ pc[p] = "user" /\ p # initproc
  BY <1>0 DEF Used
<1>7. thread'[t].state = "RUNNABLE" /\ thread'[t].pid = thread[p].pid /\ thread'[t].tid = nexttid
      /\ thread'[t].parent = thread[p].parent /\ thread'[t].kstack = k
      /\ thread'[t].pgdir = thread[p].pgdir /\ thread'[t].sz = z
  BY <1>2
<1>t. TypeOK'
  BY <1>0, <1>4, <1>5, Uses DEF TypeOK, Label
<1>a. IdInv'
  BY <1>3, <1>5, <1>6, <1>7 DEF IdInv, Used, Same, TypeOK
<1>b. InitInv'
  BY <1>3, <1>5, <1>6, <1>7, Uses DEF InitInv, Used, Same
<1>c. IdleInv'
  BY <1>3, <1>5, <1>6, <1>7 DEF IdleInv, Used, TypeOK
<1>d. CpuInv'
  BY <1>3, <1>5, <1>6, <1>7 DEF CpuInv, TypeOK, Used
<1>e. ForkInv'
  BY <1>3, <1>5, <1>6, <1>7 DEF ForkInv, Forking, IdleInv, Used
<1>f. JoinInv'
  BY <1>3, <1>5, <1>6, <1>7 DEF JoinInv, Same, TypeOK, IdleInv, Used
<1>g. WaitInv'
  BY <1>3, <1>5, <1>6, <1>7, Uses DEF WaitInv, Used, IdleInv
<1>h. MainInv'
  BY <1>3, <1>5, <1>6, <1>7 DEF MainInv, IsMain, Used, Same
<1>i. SpaceInv'
  BY <1>3, <1>5, <1>6, <1>7 DEF SpaceInv, Used, Same
<1>j. PageInv'
  BY <1>3, <1>5, <1>6, <1>7 DEF PageInv, Used, TypeOK
<1>k. ExecInv'
  BY <1>3, <1>5, <1>6, <1>7 DEF ExecInv, Execing, Used, Same, IdleInv, PageInv, TypeOK
<1> QED BY <1>t, <1>a, <1>b, <1>c, <1>d, <1>e, <1>f, <1>g, <1>h, <1>i, <1>j, <1>k

\* wakeup1() changes the sleepers on the channel and nobody else.
LEMMA WokenEntry ==
    ASSUME NEW th \in [Slot -> Entry], NEW ch, NEW s \in Slot
    PROVE  LET w == Woken(th, ch)[s] IN
             /\ w \in Entry
             /\ w.pid = th[s].pid /\ w.tid = th[s].tid /\ w.parent = th[s].parent
             /\ w.killed = th[s].killed /\ w.kstack = th[s].kstack /\ w.pgdir = th[s].pgdir
             /\ w.ustack = th[s].ustack /\ w.sz = th[s].sz
             /\ IF th[s].state = "SLEEPING" /\ th[s].chan = ch THEN w.state = "RUNNABLE" /\ w.chan = Awake
                ELSE w.state = th[s].state /\ w.chan = th[s].chan
<1>1. Woken(th, ch)[s] = IF th[s].state = "SLEEPING" /\ th[s].chan = ch
                         THEN [th[s] EXCEPT !.state = "RUNNABLE", !.chan = Awake] ELSE th[s]
  BY DEF Woken
<1>2. th[s] \in Entry /\ Awake \in Chan /\ "RUNNABLE" \in State
  BY DEF Chan, State
<1>3. CASE th[s].state = "SLEEPING" /\ th[s].chan = ch
  BY <1>1, <1>2, <1>3 DEF Entry
<1>4. CASE ~(th[s].state = "SLEEPING" /\ th[s].chan = ch)
  BY <1>1, <1>2, <1>4
<1> QED BY <1>3, <1>4

\* thread_exit(): the thread ends and wakes who joins it; the main thread of its
\* process is still there for the parent.
LEMMA ThreadExitInv ==
    ASSUME OneCpu, ThreadsInv, NEW p \in Slot, ThreadExit(p)
    PROVE  ThreadsInv'
<1> USE DEF ThreadsInv
<1>1. /\ OnCpu(p) /\ thread[p].state = "RUNNING" /\ thread[p] \in Entry /\ pc[p] = "user" /\ p \in made
      /\ thread' = [Woken(thread, TidChan(thread[p].tid)) EXCEPT ![p].state = "ZOMBIE"]
      /\ cpu' = [c \in Cpu |-> IF cpu[c] = p THEN Null ELSE cpu[c]]
      /\ UNCHANGED <<free, pc, arg, made, nextpid, nexttid>>
  BY Runs DEF ThreadExit, InUser, Sched, TypeOK
<1> DEFINE w == Woken(thread, TidChan(thread[p].tid))
<1>2. /\ w \in [Slot -> Entry]
      /\ \A s \in Slot :
           /\ w[s].pid = thread[s].pid /\ w[s].tid = thread[s].tid /\ w[s].parent = thread[s].parent
           /\ w[s].killed = thread[s].killed /\ w[s].kstack = thread[s].kstack
           /\ w[s].pgdir = thread[s].pgdir /\ w[s].sz = thread[s].sz
           /\ IF thread[s].state = "SLEEPING" /\ thread[s].chan = TidChan(thread[p].tid)
              THEN w[s].state = "RUNNABLE"
              ELSE w[s].state = thread[s].state /\ w[s].chan = thread[s].chan
  <2>1. thread \in [Slot -> Entry]
    BY DEF TypeOK
  <2>2. w = [s \in Slot |-> w[s]]
    BY DEF Woken
  <2> QED BY <2>1, <2>2, WokenEntry
<1> HIDE DEF w
<1>3. /\ thread' \in [Slot -> Entry] /\ thread'[p].state = "ZOMBIE"
      /\ \A s \in Slot :
           /\ thread'[s].pid = thread[s].pid /\ thread'[s].tid = thread[s].tid
           /\ thread'[s].parent = thread[s].parent /\ thread'[s].killed = thread[s].killed
           /\ thread'[s].kstack = thread[s].kstack /\ thread'[s].pgdir = thread[s].pgdir
           /\ thread'[s].sz = thread[s].sz
           /\ s # p => IF thread[s].state = "SLEEPING" /\ thread[s].chan = TidChan(thread[p].tid)
                       THEN thread'[s].state = "RUNNABLE"
                       ELSE thread'[s].state = thread[s].state /\ thread'[s].chan = thread[s].chan
  <2>1. thread' = [w EXCEPT ![p].state = "ZOMBIE"]
    BY <1>1 DEF w
  <2>2. thread'[p] = [w[p] EXCEPT !.state = "ZOMBIE"] /\ \A s \in Slot \ {p} : thread'[s] = w[s]
    BY <2>1, <1>2
  <2>3. thread'[p] \in Entry
    BY <1>2, <2>2 DEF Entry, State
  <2>4. thread' \in [Slot -> Entry]
    BY <1>2, <2>1, <2>3
  <2> QED BY <1>2, <2>2, <2>4 DEF Entry
<1>4. PICK m \in Slot \ {p} : IsMain(m, p) /\ thread[m].state # "ZOMBIE" /\ thread[m].parent = thread[p].parent
  BY <1>1 DEF MainInv, IsMain, SpaceInv, Used, Same
<1>5. /\ OnCpu(p) /\ thread[p].state = "RUNNING" /\ pc[p] = "user" /\ p \in made
      /\ cpu' = [c \in Cpu |-> IF cpu[c] = p THEN Null ELSE cpu[c]]
      /\ UNCHANGED <<free, pc, arg, made, nextpid, nexttid>>
  BY <1>1
<1>t. TypeOK'
  BY <1>5, <1>3 DEF TypeOK, Entry, State, Label
<1>a. IdInv'
  BY <1>5, <1>3 DEF IdInv, Used, Same
<1>b. InitInv'
  BY <1>5, <1>3, Uses DEF InitInv, Used, Same, IdleInv
<1>c. IdleInv'
  BY <1>5, <1>3 DEF IdleInv, Used, InitInv
<1>d. CpuInv'
  BY <1>5, <1>3 DEF CpuInv, TypeOK, OneCpu
<1>e. ForkInv'
  BY <1>5, <1>3 DEF ForkInv, Forking
<1>f. JoinInv'
  <2>1. Used(p)
    BY <1>5 DEF Used
  <2>2. ASSUME NEW q \in Slot, pc[q] = "join"
        PROVE  /\ q # p /\ arg[q] \in Slot /\ Used(arg[q])
               /\ TidChan(thread[arg[q]].tid) = TidChan(thread[p].tid) => arg[q] = p
    BY <1>5, <2>1, <2>2 DEF JoinInv, IdInv, IdleInv, Used, TypeOK, TidChan
  <2> QED BY <1>5, <1>3, <2>2 DEF JoinInv, Same, TypeOK
<1>g. WaitInv'
  BY <1>5, <1>3, <1>4 DEF WaitInv, TypeOK
<1>h. MainInv'
  BY <1>5, <1>3 DEF MainInv, IsMain, Used, Same, InitInv
<1>i. SpaceInv'
  BY <1>5, <1>3 DEF SpaceInv, Used, Same
<1>j. PageInv'
  BY <1>5, <1>3 DEF PageInv, Used
<1>k. ExecInv'
  BY <1>5, <1>3 DEF ExecInv, Execing, Used, Same
<1> QED BY <1>t, <1>a, <1>b, <1>c, <1>d, <1>e, <1>f, <1>g, <1>h, <1>i, <1>j, <1>k

\* What thread_join() makes of a slot.
LEMMA JoinedEntry ==
    ASSUME TypeOK, NEW s \in Slot, thread' = Joined(thread, s)
    PROVE /\ \A q \in Slot \ {s} : thread'[q] = thread[q]
          /\ thread' \in [Slot -> Entry]
          /\ thread'[s].state = "UNUSED" /\ thread'[s].kstack = NoPage /\ thread'[s].parent = Null
          /\ thread'[s].pid = thread[s].pid
<1>1. thread[s] \in Entry /\ Awake \in Chan /\ "UNUSED" \in State
  BY DEF TypeOK, Chan, State
<1>2. thread'[s] = [thread[s] EXCEPT !.kstack = NoPage, !.state = "UNUSED", !.sz = 0,
                                !.parent = Null, !.tid = Null, !.killed = FALSE,
                                !.pgdir = NoPage, !.chan = Awake]
  BY DEF Joined, TypeOK
<1>3. \A q \in Slot \ {s} : thread'[q] = thread[q]
  BY DEF Joined, TypeOK
<1>4. thread'[s] \in Entry
  <2> DEFINE e == thread[s]
  <2>1. thread'[s] = [state |-> "UNUSED", pid |-> e.pid, tid |-> Null, parent |-> Null, killed |-> FALSE,
                      chan |-> Awake, kstack |-> NoPage, ustack |-> e.ustack, pgdir |-> NoPage, sz |-> 0]
    BY <1>1, <1>2 DEF Entry
  <2> QED BY <1>1, <2>1, Uses DEF Entry
<1>5. thread' \in [Slot -> Entry]
  BY <1>4, <1>3 DEF Joined, TypeOK
<1> QED BY <1>1, <1>2, <1>3, <1>5 DEF Entry

\* thread_join() of a thread that has ended.
LEMMA JoinZombieInv ==
    ASSUME ThreadsInv, NEW p \in Slot, JoinZombie(p)
    PROVE  ThreadsInv'
<1> USE DEF ThreadsInv
<1>1. PICK s \in Slot :
        /\ s \in made /\ s # p /\ Joiners(s) = {} /\ thread[s].state = "ZOMBIE"
        /\ thread' = Joined(thread, s)
        /\ free' = free \cup {thread[s].kstack} /\ made' = made \ {s}
        /\ UNCHANGED <<cpu, pc, arg, nextpid, nexttid>>
  BY DEF JoinZombie, TypeOK
<1>2. /\ \A q \in Slot \ {s} : thread'[q] = thread[q]
      /\ thread' \in [Slot -> Entry]
      /\ thread'[s].state = "UNUSED" /\ thread'[s].kstack = NoPage /\ thread'[s].parent = Null
      /\ thread'[s].pid = thread[s].pid
  BY <1>1, JoinedEntry
<1>3. thread[s].kstack \in Page /\ thread[s].kstack # NoPage
  BY <1>1, ThreadsAssumption DEF PageInv, Used, TypeOK, Entry
<1>4. \A q \in Slot : pc[q] = "join" => arg[q] # s
  BY <1>1 DEF Joiners, Unused, IdleInv
<1>t. TypeOK'
  BY <1>1, <1>2, <1>3 DEF TypeOK, Entry, State, Label
<1>a. IdInv'
  BY <1>1, <1>2 DEF IdInv, Used, Same
<1>b. InitInv'
  BY <1>1, <1>2, Uses DEF InitInv, Used, Same, InitInv
<1>c. IdleInv'
  BY <1>1, <1>2 DEF IdleInv, Used, TypeOK
<1>d. CpuInv'
  BY <1>1, <1>2 DEF CpuInv, TypeOK
<1>e. ForkInv'
  BY <1>1, <1>2 DEF ForkInv, Forking
<1>f. JoinInv'
  BY <1>1, <1>2, <1>4 DEF JoinInv, Same, TypeOK, IdleInv
<1>g. WaitInv'
  BY <1>1, <1>2 DEF WaitInv
<1>h. MainInv'
  BY <1>1, <1>2 DEF MainInv, IsMain, Used, Same
<1>i. SpaceInv'
  BY <1>1, <1>2 DEF SpaceInv, Used, Same
<1>j. PageInv'
  BY <1>1, <1>2, <1>3 DEF PageInv, Used
<1>k. ExecInv'
  BY <1>1, <1>2, <1>3 DEF ExecInv, Execing, Used, Same
<1> QED BY <1>t, <1>a, <1>b, <1>c, <1>d, <1>e, <1>f, <1>g, <1>h, <1>i, <1>j, <1>k

\* thread_join() of a thread that has not ended.
LEMMA JoinSleepInv ==
    ASSUME OneCpu, ThreadsInv, NEW p \in Slot, JoinSleep(p)
    PROVE  ThreadsInv'
<1> USE DEF ThreadsInv
<1>0. /\ p # initproc /\ ~thread[p].killed /\ pc[p] = "user"
      /\ thread[p].state = "RUNNING" /\ thread[p] \in Entry
  BY Runs DEF JoinSleep, InProgram, InUser, TypeOK
<1>1. PICK s \in Slot :
        /\ s \in made /\ s # p /\ Joiners(s) = {} /\ thread[s].state # "ZOMBIE" /\ Same(s, p)
        /\ thread' = [thread EXCEPT ![p].state = "SLEEPING", ![p].chan = TidChan(thread[s].tid)]
        /\ pc' = [pc EXCEPT ![p] = "join"] /\ arg' = [arg EXCEPT ![p] = s]
        /\ cpu' = [c \in Cpu |-> IF cpu[c] = p THEN Null ELSE cpu[c]]
        /\ UNCHANGED <<free, made, nextpid, nexttid>>
  BY DEF JoinSleep, TypeOK, Goto, Sched, Of, Same
<1>2. thread[s].tid \in 1 .. MaxTid /\ TidChan(thread[s].tid) \in Chan
  <2>1. thread[s] \in Entry /\ thread[s].tid \in 1 .. nexttid - 1
    BY <1>1 DEF IdInv, IdleInv, Used, TypeOK
  <2>2. thread[s].tid \in 1 .. MaxTid
    BY <2>1, ThreadsAssumption DEF Entry, TypeOK
  <2> QED BY <2>2 DEF Chan
<1>3. /\ thread'[p] = [thread[p] EXCEPT !.state = "SLEEPING", !.chan = TidChan(thread[s].tid)]
      /\ \A q \in Slot \ {p} : thread'[q] = thread[q]
  BY <1>1 DEF TypeOK
<1>4. thread' \in [Slot -> Entry]
  <2>1. thread'[p] \in Entry
    BY <1>0, <1>2, <1>3 DEF Entry, State
  <2> QED BY <2>1, <1>1 DEF TypeOK
<1>5. \A q \in Slot : pc[q] = "join" => arg[q] # s
  BY <1>1 DEF Joiners, Unused, IdleInv
<1>6. /\ thread'[p].state = "SLEEPING" /\ thread'[p].chan = TidChan(thread[s].tid)
      /\ thread'[p].pid = thread[p].pid /\ thread'[p].tid = thread[p].tid
      /\ thread'[p].parent = thread[p].parent /\ thread'[p].killed = thread[p].killed
      /\ thread'[p].kstack = thread[p].kstack /\ thread'[p].pgdir = thread[p].pgdir
      /\ thread'[p].sz = thread[p].sz
      /\ \A q \in Slot \ {p} : thread'[q] = thread[q]
  BY <1>0, <1>3 DEF Entry
<1>7. /\ s \in made /\ s # p /\ thread[s].state # "ZOMBIE" /\ Same(s, p)
      /\ pc' = [pc EXCEPT ![p] = "join"] /\ arg' = [arg EXCEPT ![p] = s]
      /\ cpu' = [c \in Cpu |-> IF cpu[c] = p THEN Null ELSE cpu[c]]
      /\ UNCHANGED <<free, made, nextpid, nexttid>>
      /\ p # initproc /\ thread[p].state = "RUNNING" /\ pc[p] = "user"
  BY <1>0, <1>1
<1>t. TypeOK'
  BY <1>1, <1>4 DEF TypeOK, Label
<1>a. IdInv'
  BY <1>6, <1>7 DEF IdInv, Used, Same
<1>b. InitInv'
  BY <1>6, <1>7, Uses DEF InitInv, Used, Same
<1>c. IdleInv'
  BY <1>6, <1>7 DEF IdleInv, Used, TypeOK
<1>d. CpuInv'
  BY <1>6, <1>7 DEF CpuInv, TypeOK, OneCpu
<1>e. ForkInv'
  BY <1>6, <1>7 DEF ForkInv, Forking, TypeOK
<1>f. JoinInv'
  BY <1>6, <1>7, <1>5 DEF JoinInv, Same, TypeOK, IdleInv
<1>g. WaitInv'
  BY <1>6, <1>7 DEF WaitInv, TypeOK
<1>h. MainInv'
  BY <1>6, <1>7 DEF MainInv, IsMain, Used, Same
<1>i. SpaceInv'
  BY <1>6, <1>7 DEF SpaceInv, Used, Same
<1>j. PageInv'
  BY <1>6, <1>7 DEF PageInv, Used
<1>k. ExecInv'
  BY <1>6, <1>7 DEF ExecInv, Execing, Used, Same, TypeOK
<1> QED BY <1>t, <1>a, <1>b, <1>c, <1>d, <1>e, <1>f, <1>g, <1>h, <1>i, <1>j, <1>k

\* thread_join() goes on: the thread it joins has ended, or is killed and ends here.
LEMMA JoinWokenInv ==
    ASSUME OneCpu, ThreadsInv, NEW p \in Slot, JoinWoken(p)
    PROVE  ThreadsInv'
<1> USE DEF ThreadsInv
<1>0. /\ thread[p].state = "RUNNING" /\ pc[p] = "join" /\ p # initproc
      /\ \A c \in Cpu : cpu[c] = p
  BY Runs DEF JoinWoken, In, InitInv
<1>1. PICK s \in Slot : s = arg[p] /\ s \in made /\ s # p /\ Same(s, p) /\ Used(s) /\ s # initproc
  BY <1>0 DEF JoinInv, TypeOK, IdleInv, InitInv, Used
<1>2. /\ thread' = Joined(thread, s)
      /\ free' = free \cup {thread[s].kstack} /\ made' = made \ {s}
      /\ pc' = [pc EXCEPT ![p] = "user", ![s] = "user"]
      /\ arg' = [arg EXCEPT ![p] = Null, ![s] = Null]
      /\ UNCHANGED <<cpu, nextpid, nexttid>>
  BY <1>1 DEF JoinWoken
<1>3. /\ \A q \in Slot \ {s} : thread'[q] = thread[q]
      /\ thread' \in [Slot -> Entry]
      /\ thread'[s].state = "UNUSED" /\ thread'[s].kstack = NoPage /\ thread'[s].parent = Null
      /\ thread'[s].pid = thread[s].pid
  BY <1>1, <1>2, JoinedEntry
<1>4. thread[s].kstack \in Page /\ thread[s].kstack # NoPage
  BY <1>1, ThreadsAssumption DEF PageInv, IdleInv, Used, TypeOK, Entry
<1>5. \A q \in Slot \ {p} : pc[q] = "join" => arg[q] # s
  BY <1>0, <1>1 DEF JoinInv
<1>6. thread[s].parent = thread[p].parent /\ Used(p)
  BY <1>0, <1>1 DEF SpaceInv, Used, Same
<1>t. TypeOK'
  BY <1>0, <1>1, <1>2, <1>3, <1>4 DEF TypeOK, Entry, State, Label
<1>a. IdInv'
  BY <1>0, <1>1, <1>2, <1>3 DEF IdInv, Used, Same
<1>b. InitInv'
  BY <1>0, <1>1, <1>2, <1>3, Uses DEF InitInv, Used, Same, TypeOK
<1>c. IdleInv'
  BY <1>0, <1>1, <1>2, <1>3 DEF IdleInv, Used, TypeOK
<1>d. CpuInv'
  BY <1>0, <1>1, <1>2, <1>3 DEF CpuInv, TypeOK
<1>e. ForkInv'
  BY <1>0, <1>1, <1>2, <1>3 DEF ForkInv, Forking, TypeOK, IdleInv
<1>f. JoinInv'
  BY <1>0, <1>1, <1>2, <1>3, <1>5 DEF JoinInv, Same, TypeOK
<1>g. WaitInv'
  BY <1>0, <1>1, <1>2, <1>3, <1>6 DEF WaitInv, TypeOK, JoinInv
<1>h. MainInv'
  BY <1>0, <1>1, <1>2, <1>3 DEF MainInv, IsMain, Used, Same
<1>i. SpaceInv'
  BY <1>0, <1>1, <1>2, <1>3 DEF SpaceInv, Used, Same
<1>j. PageInv'
  BY <1>0, <1>1, <1>2, <1>3, <1>4 DEF PageInv, Used
<1>k. ExecInv'
  BY <1>0, <1>1, <1>2, <1>3, <1>4 DEF ExecInv, Execing, Used, Same, TypeOK
<1> QED BY <1>t, <1>a, <1>b, <1>c, <1>d, <1>e, <1>f, <1>g, <1>h, <1>i, <1>j, <1>k

-----------------------------------------------------------------------------
(* fork *)

\* fork() takes a slot; nobody else has its pid.
LEMMA ForkSlotInv ==
    ASSUME OneCpu, ThreadsInv, NEW p \in Slot, ForkSlot(p)
    PROVE  ThreadsInv'
<1> USE DEF ThreadsInv
<1>0. /\ thread[p].state = "RUNNING" /\ pc[p] = "user" /\ Used(p)
  BY Runs DEF ForkSlot, InUser, Used
<1>1. PICK t \in Slot :
        /\ ~Used(t) /\ nexttid <= MaxTid
        /\ thread' = [thread EXCEPT ![t] = [@ EXCEPT !.state = "EMBRYO", !.pid = nextpid,
                                                      !.tid = nexttid, !.ustack = Null,
                                                      !.pgdir = NoPage]]
        /\ pc' = [pc EXCEPT ![p] = "kstack"] /\ arg' = [arg EXCEPT ![p] = t]
        /\ nextpid' = nextpid + 1 /\ nexttid' = nexttid + 1
        /\ UNCHANGED <<free, cpu, made>>
  BY FirstUnused DEF ForkSlot, Goto
<1>2. /\ thread[t] \in Entry /\ t # p
      /\ thread'[t] = [thread[t] EXCEPT !.state = "EMBRYO", !.pid = nextpid, !.tid = nexttid,
                                         !.ustack = Null, !.pgdir = NoPage]
      /\ \A s \in Slot \ {t} : thread'[s] = thread[s]
  BY <1>0, <1>1 DEF TypeOK
<1>3. thread'[t] \in Entry
  BY <1>2, Uses, ZenonT(60) DEF Entry, TypeOK, State
<1>4. thread' \in [Slot -> Entry]
  BY <1>1, <1>3 DEF TypeOK
<1>5. /\ thread'[t].state = "EMBRYO" /\ thread'[t].pid = nextpid /\ thread'[t].tid = nexttid
      /\ thread'[t].pgdir = NoPage /\ thread'[t].kstack = NoPage /\ thread'[t].parent = Null
      /\ \A s \in Slot \ {t} : thread'[s] = thread[s]
  <2>1. thread[t].kstack = NoPage /\ thread[t].parent = Null
    BY <1>1 DEF IdleInv
  <2> QED BY <1>2, <2>1 DEF Entry
<1>6. /\ ~Used(t) /\ t # p /\ nexttid <= MaxTid /\ nextpid \in Nat /\ nexttid \in Nat
      /\ pc' = [pc EXCEPT ![p] = "kstack"] /\ arg' = [arg EXCEPT ![p] = t]
      /\ nextpid' = nextpid + 1 /\ nexttid' = nexttid + 1
      /\ UNCHANGED <<free, cpu, made>>
  BY <1>1, <1>2 DEF TypeOK
<1>t. TypeOK'
  BY <1>4, <1>6, Uses DEF TypeOK, Label
<1>a. IdInv'
  <2>1. \A s \in Slot : thread[s].pid \in Nat /\ thread[s].tid \in Nat
    BY DEF TypeOK, Entry
  <2>2. \A s \in Slot : thread'[s].pid < nextpid'
    BY <1>5, <1>6, <2>1 DEF IdInv
  <2>3. \A s \in Slot : thread'[s].state # "UNUSED" => thread'[s].tid \in 1 .. nexttid' - 1
    <3>1. nexttid \in 1 .. nexttid' - 1
      BY <1>0, <1>6, <2>1 DEF IdInv
    <3> QED BY <1>5, <1>6, <2>1, <3>1 DEF IdInv, Used
  <2>4. \A s \in Slot \ {t} : thread[s].state # "UNUSED" => thread[s].tid # nexttid
    BY <1>6, <2>1 DEF IdInv, Used
  <2>5. \A s \in Slot \ {t} : thread[s].pid # nextpid
    BY <1>6, <2>1 DEF IdInv
  <2> QED BY <1>5, <2>2, <2>3, <2>4, <2>5 DEF IdInv, Used, Same
<1>b. InitInv'
  BY <1>0, <1>5, <1>6, Uses DEF InitInv, Used, Same, IdInv, TypeOK
<1>c. IdleInv'
  BY <1>0, <1>5, <1>6 DEF IdleInv, Used, TypeOK
<1>d. CpuInv'
  BY <1>0, <1>5, <1>6 DEF CpuInv, TypeOK, Used
<1>e. ForkInv'
  BY <1>0, <1>5, <1>6 DEF ForkInv, Forking, TypeOK, Used
<1>f. JoinInv'
  BY <1>0, <1>5, <1>6 DEF JoinInv, Same, TypeOK, IdleInv, Used
<1>g. WaitInv'
  <2>1. ASSUME NEW q \in Slot, thread'[q].state = "SLEEPING"
        PROVE  q # p /\ q # t /\ thread[q].state = "SLEEPING" /\ pc'[q] = pc[q]
    BY <1>0, <1>5, <1>6, <2>1 DEF TypeOK
  <2>2. \A q \in Slot : thread[t].parent # q
    BY <1>6, Uses DEF IdleInv
  <2> QED BY <1>5, <1>6, <2>1, <2>2 DEF WaitInv
<1>h. MainInv'
  BY <1>0, <1>5, <1>6 DEF MainInv, IsMain, Used, Same, IdInv, IdleInv
<1>i. SpaceInv'
  BY <1>0, <1>5, <1>6 DEF SpaceInv, Used, Same, IdInv
<1>j. PageInv'
  BY <1>0, <1>5, <1>6, Uses DEF PageInv, Used, TypeOK
<1>k. ExecInv'
  BY <1>0, <1>5, <1>6, Uses DEF ExecInv, Execing, Used, Same, TypeOK, IdInv
<1> QED BY <1>t, <1>a, <1>b, <1>c, <1>d, <1>e, <1>f, <1>g, <1>h, <1>i, <1>j, <1>k

\* fork() takes a kernel stack.
LEMMA ForkStackInv ==
    ASSUME OneCpu, ThreadsInv, NEW p \in Slot, 
           NEW k \in Heads(free, KstackOf(arg[p])), In(p, "kstack"), Goto(p, "copyuvm"),
           thread' = [thread EXCEPT ![arg[p]].kstack = k], free' = free \ {k},
           UNCHANGED <<arg, cpu, made, nextpid, nexttid>>
    PROVE  ThreadsInv'
<1> USE DEF ThreadsInv
<1>0. /\ thread[p].state = "RUNNING" /\ pc[p] = "kstack"
      /\ pc' = [pc EXCEPT ![p] = "copyuvm"]
  BY Runs DEF In, Goto
<1>1. PICK t \in Slot : t = arg[p] /\ thread[t].state = "EMBRYO"
  BY <1>0 DEF ForkInv, Forking
<1>2. k \in free /\ k \in Page /\ k # NoPage
  BY <1>1, Kalloc, Uses
<1>3. /\ thread[t] \in Entry
      /\ thread'[t] = [thread[t] EXCEPT !.kstack = k]
      /\ \A s \in Slot \ {t} : thread'[s] = thread[s]
  BY <1>1 DEF TypeOK
<1>4. thread' \in [Slot -> Entry]
  <2>1. thread'[t] \in Entry
    BY <1>2, <1>3 DEF Entry
  <2> QED BY <1>1, <2>1 DEF TypeOK
<1>5. /\ thread'[t].kstack = k /\ thread'[t].state = "EMBRYO"
      /\ thread'[t].pid = thread[t].pid /\ thread'[t].tid = thread[t].tid
      /\ thread'[t].parent = thread[t].parent /\ thread'[t].killed = thread[t].killed
      /\ thread'[t].pgdir = thread[t].pgdir /\ thread'[t].sz = thread[t].sz
      /\ \A s \in Slot \ {t} : thread'[s] = thread[s]
  BY <1>1, <1>3 DEF Entry
<1>6. UNCHANGED <<arg, cpu, made, nextpid, nexttid>> /\ free' = free \ {k}
  OBVIOUS
<1>t. TypeOK'
  BY <1>0, <1>4, <1>6 DEF TypeOK, Label
<1>a. IdInv'
  BY <1>0, <1>1, <1>2, <1>5, <1>6 DEF IdInv, Used, Same
<1>b. InitInv'
  BY <1>0, <1>1, <1>2, <1>5, <1>6, Uses DEF InitInv, Used, Same, TypeOK
<1>c. IdleInv'
  BY <1>0, <1>1, <1>2, <1>5, <1>6 DEF IdleInv, Used, TypeOK
<1>d. CpuInv'
  BY <1>0, <1>1, <1>2, <1>5, <1>6 DEF CpuInv, TypeOK
<1>e. ForkInv'
  BY <1>0, <1>1, <1>2, <1>5, <1>6 DEF ForkInv, Forking, TypeOK, IdleInv
<1>f. JoinInv'
  BY <1>0, <1>1, <1>2, <1>5, <1>6 DEF JoinInv, Same, TypeOK
<1>g. WaitInv'
  BY <1>0, <1>1, <1>2, <1>5, <1>6 DEF WaitInv, TypeOK
<1>h. MainInv'
  BY <1>0, <1>1, <1>2, <1>5, <1>6 DEF MainInv, IsMain, Used, Same
<1>i. SpaceInv'
  BY <1>0, <1>1, <1>2, <1>5, <1>6 DEF SpaceInv, Used, Same
<1>j. PageInv'
  BY <1>0, <1>1, <1>2, <1>5, <1>6 DEF PageInv, Used, TypeOK, IdInv
<1>k. ExecInv'
  BY <1>0, <1>1, <1>2, <1>5, <1>6 DEF ExecInv, Execing, Used, Same, TypeOK
<1> QED BY <1>t, <1>a, <1>b, <1>c, <1>d, <1>e, <1>f, <1>g, <1>h, <1>i, <1>j, <1>k

\* fork() without memory gives the slot back, and the kernel stack if it got one.
ForkGivesUp(p, t) ==
    /\ t = arg[p] /\ Forking(p) /\ pc[p] # "forked" /\ thread[p].state = "RUNNING"
    /\ thread' = [thread EXCEPT ![t].kstack = NoPage, ![t].state = "UNUSED"]
    /\ free' = free \cup ({thread[t].kstack} \ {NoPage})
    /\ Goto(p, "user") /\ arg' = [arg EXCEPT ![p] = Null]
    /\ UNCHANGED <<cpu, made, nextpid, nexttid>>

\* fork() without memory gives the slot and the kernel stack back, if it got one.
LEMMA ForkUndone ==
    ASSUME ThreadsInv, NEW p \in Slot, NEW t \in Slot, ForkGivesUp(p, t)
    PROVE  ThreadsInv'
<1> USE DEF ThreadsInv
<1>1. /\ thread[t] \in Entry /\ thread[t].state = "EMBRYO" /\ thread[t].parent = Null /\ t \notin made
      /\ t # p /\ pc' = [pc EXCEPT ![p] = "user"]
  BY DEF ForkInv, TypeOK, Goto, IdleInv, ForkGivesUp
<1>2. /\ thread'[t] = [thread[t] EXCEPT !.kstack = NoPage, !.state = "UNUSED"]
      /\ \A s \in Slot \ {t} : thread'[s] = thread[s]
  BY DEF TypeOK, ForkGivesUp
<1>3. /\ thread'[t] \in Entry
      /\ thread'[t].kstack = NoPage /\ thread'[t].state = "UNUSED" /\ thread'[t].parent = Null
      /\ thread'[t].pid = thread[t].pid
      /\ \A s \in Slot \ {t} : thread'[s] = thread[s]
  <2>1. "UNUSED" \in State
    BY DEF State
  <2> QED BY <1>1, <1>2, <2>1 DEF Entry
<1>4. thread' \in [Slot -> Entry]
  BY <1>3 DEF TypeOK, ForkGivesUp
<1>5. /\ free' = free \cup ({thread[t].kstack} \ {NoPage}) /\ arg' = [arg EXCEPT ![p] = Null]
      /\ UNCHANGED <<cpu, made, nextpid, nexttid>> /\ thread[p].state = "RUNNING" /\ arg[p] = t
      /\ Forking(p)
  BY DEF ForkGivesUp
<1>6. UNCHANGED <<cpu, made, nextpid, nexttid>>
  BY DEF ForkGivesUp
<1>t. TypeOK'
  <2>1. free' \in SUBSET Page
    BY <1>1, <1>5 DEF TypeOK, Entry
  <2> QED BY <1>1, <1>4, <1>5, <2>1, Uses DEF TypeOK, Label
<1>a. IdInv'
  BY <1>3, <1>6 DEF IdInv, Used, Same
<1>b. InitInv'
  BY <1>1, <1>3, <1>5, Uses DEF InitInv, Used, Same, TypeOK
<1>c. IdleInv'
  BY <1>1, <1>3, <1>5 DEF IdleInv, Used, TypeOK
<1>d. CpuInv'
  BY <1>1, <1>3, <1>5 DEF CpuInv, TypeOK
<1>e. ForkInv'
  BY <1>1, <1>3, <1>5 DEF ForkInv, Forking, TypeOK
<1>f. JoinInv'
  BY <1>1, <1>3, <1>5 DEF JoinInv, Same, TypeOK, IdleInv, Used, TypeOK
<1>g. WaitInv'
  BY <1>1, <1>3, <1>5, Uses DEF WaitInv, TypeOK, Forking
<1>h. MainInv'
  BY <1>1, <1>3, <1>6 DEF MainInv, IsMain, Used, Same, IdInv
<1>i. SpaceInv'
  BY <1>3, <1>6 DEF SpaceInv, Used, Same
<1>j. PageInv'
  BY <1>1, <1>3, <1>5, Uses DEF PageInv, Used, TypeOK, IdInv
<1>k. ExecInv'
  BY <1>1, <1>3, <1>5 DEF ExecInv, Execing, Used, Same, TypeOK
<1> QED BY <1>t, <1>a, <1>b, <1>c, <1>d, <1>e, <1>f, <1>g, <1>h, <1>i, <1>j, <1>k

\* allocproc() after it has the slot.
LEMMA ForkKstackInv == ASSUME OneCpu, ThreadsInv, NEW p \in Slot, ForkKstack(p) PROVE ThreadsInv'
<1> USE DEF ThreadsInv
<1>1. thread[p].state = "RUNNING" /\ pc[p] = "kstack" /\ Forking(p)
  BY Runs DEF ForkKstack, In, Forking
<1>2. PICK t \in Slot : t = arg[p] /\ thread[t].kstack = NoPage
  BY <1>1 DEF ForkInv
<1>3. CASE free = {}
  <2>1. \A k : k \notin Heads(free, KstackOf(arg[p]))
    BY <1>2, <1>3, Kalloc, Uses
  <2>2. /\ thread' = [thread EXCEPT ![t].kstack = NoPage, ![t].state = "UNUSED"]
        /\ Goto(p, "user") /\ arg' = [arg EXCEPT ![p] = Null] /\ free' = free
        /\ UNCHANGED <<cpu, made, nextpid, nexttid>>
    BY <1>2, <2>1 DEF ForkKstack
  <2>3. free' = free \cup ({thread[t].kstack} \ {NoPage})
    BY <1>2, <2>2
  <2> QED BY <1>1, <1>2, <2>2, <2>3, ForkUndone DEF ForkGivesUp
<1>4. CASE free # {}
  <2>1. PICK k \in Heads(free, KstackOf(arg[p])) :
          /\ thread' = [thread EXCEPT ![arg[p]].kstack = k] /\ free' = free \ {k}
          /\ Goto(p, "copyuvm") /\ UNCHANGED <<arg, cpu, made, nextpid, nexttid>>
    BY <1>4 DEF ForkKstack
  <2>2. In(p, "kstack")
    BY DEF ForkKstack
  <2> QED BY <2>1, <2>2, ForkStackInv
<1> QED BY <1>3, <1>4

\* copyuvm() without memory.
LEMMA ForkCopyFailsInv == ASSUME OneCpu, ThreadsInv, NEW p \in Slot, ForkCopyFails(p) PROVE ThreadsInv'
<1> USE DEF ThreadsInv
<1>1. thread[p].state = "RUNNING" /\ pc[p] = "copyuvm" /\ Forking(p)
  BY Runs DEF ForkCopyFails, In, Forking
<1>2. PICK t \in Slot : t = arg[p] /\ thread[t].kstack # NoPage
  BY <1>1 DEF ForkInv
<1>3. /\ thread' = [thread EXCEPT ![t].kstack = NoPage, ![t].state = "UNUSED"]
      /\ free' = free \cup ({thread[t].kstack} \ {NoPage})
      /\ Goto(p, "user") /\ arg' = [arg EXCEPT ![p] = Null]
      /\ UNCHANGED <<cpu, made, nextpid, nexttid>>
  BY <1>2 DEF ForkCopyFails
<1> QED BY <1>1, <1>2, <1>3, ForkUndone DEF ForkGivesUp

\* copyuvm(): a directory of its own.
LEMMA ForkCopyInv ==
    ASSUME OneCpu, ThreadsInv, NEW p \in Slot, ForkCopy(p)
    PROVE  ThreadsInv'
<1> USE DEF ThreadsInv
<1>0. /\ thread[p].state = "RUNNING" /\ pc[p] = "copyuvm" /\ thread[p] \in Entry
  BY Runs DEF ForkCopy, In, TypeOK
<1>1. PICK t \in Slot : t = arg[p] /\ thread[t].state = "EMBRYO"
  BY <1>0 DEF ForkInv, Forking
<1>2. PICK k \in Heads(free, PgdirOf(t)) :
        /\ thread' = [thread EXCEPT ![t] = [@ EXCEPT !.pgdir = k, !.sz = thread[p].sz, !.parent = p]]
        /\ free' = free \ {k} /\ pc' = [pc EXCEPT ![p] = "forked"]
        /\ UNCHANGED <<cpu, arg, made, nextpid, nexttid>>
  BY <1>1 DEF ForkCopy, Goto
<1>3. k \in free /\ k \in Page /\ k # NoPage
  BY <1>1, Kalloc, Uses
<1>4. /\ thread[t] \in Entry
      /\ thread'[t] = [thread[t] EXCEPT !.pgdir = k, !.sz = thread[p].sz, !.parent = p]
      /\ \A s \in Slot \ {t} : thread'[s] = thread[s]
  BY <1>1, <1>2 DEF TypeOK
<1>5. thread' \in [Slot -> Entry]
  <2>1. thread'[t] \in Entry
    BY <1>0, <1>3, <1>4 DEF Entry
  <2> QED BY <1>1, <1>2, <2>1 DEF TypeOK
<1>6. /\ thread'[t].pgdir = k /\ thread'[t].state = "EMBRYO" /\ thread'[t].parent = p
      /\ thread'[t].pid = thread[t].pid /\ thread'[t].tid = thread[t].tid
      /\ thread'[t].killed = thread[t].killed /\ thread'[t].kstack = thread[t].kstack
      /\ \A s \in Slot \ {t} : thread'[s] = thread[s]
  BY <1>1, <1>4 DEF Entry
<1>7. /\ free' = free \ {k} /\ pc' = [pc EXCEPT ![p] = "forked"]
      /\ UNCHANGED <<cpu, arg, made, nextpid, nexttid>>
  BY <1>2
<1>t. TypeOK'
  BY <1>0, <1>5, <1>7 DEF TypeOK, Label
<1>a. IdInv'
  BY <1>0, <1>1, <1>3, <1>6, <1>7 DEF IdInv, Used, Same
<1>b. InitInv'
  BY <1>0, <1>1, <1>3, <1>6, <1>7, Uses DEF InitInv, Used, Same, TypeOK
<1>c. IdleInv'
  BY <1>0, <1>1, <1>3, <1>6, <1>7 DEF IdleInv, Used, TypeOK
<1>d. CpuInv'
  BY <1>0, <1>1, <1>3, <1>6, <1>7 DEF CpuInv, TypeOK
<1>e. ForkInv'
  BY <1>0, <1>1, <1>3, <1>6, <1>7 DEF ForkInv, Forking, TypeOK
<1>f. JoinInv'
  BY <1>0, <1>1, <1>3, <1>6, <1>7 DEF JoinInv, Same, TypeOK
<1>g. WaitInv'
  BY <1>0, <1>1, <1>3, <1>6, <1>7, Uses DEF WaitInv, TypeOK, ForkInv, Forking
<1>h. MainInv'
  BY <1>0, <1>1, <1>3, <1>6, <1>7 DEF MainInv, IsMain, Used, Same
<1>i. SpaceInv'
  BY <1>0, <1>1, <1>3, <1>6, <1>7 DEF SpaceInv, Used, Same, IdInv, PageInv
<1>j. PageInv'
  BY <1>0, <1>1, <1>3, <1>6, <1>7 DEF PageInv, Used, TypeOK, IdInv
<1>k. ExecInv'
  BY <1>0, <1>1, <1>3, <1>6, <1>7 DEF ExecInv, Execing, Used, Same, TypeOK
<1> QED BY <1>t, <1>a, <1>b, <1>c, <1>d, <1>e, <1>f, <1>g, <1>h, <1>i, <1>j, <1>k

\* fork() is done: the child may run.
LEMMA ForkDoneInv ==
    ASSUME OneCpu, ThreadsInv, NEW p \in Slot, ForkDone(p)
    PROVE  ThreadsInv'
<1> USE DEF ThreadsInv
<1>0. /\ thread[p].state = "RUNNING" /\ pc[p] = "forked"
  BY Runs DEF ForkDone, In
<1>1. PICK t \in Slot : t = arg[p] /\ thread[t].state = "EMBRYO" /\ thread[t].pgdir # NoPage
                       /\ thread[t].kstack # NoPage /\ t # p /\ t \notin made
  BY <1>0 DEF ForkInv, Forking, IdleInv
<1>2. /\ thread' = [thread EXCEPT ![t].state = "RUNNABLE"]
      /\ pc' = [pc EXCEPT ![t] = "user", ![p] = "user"] /\ arg' = [arg EXCEPT ![p] = Null]
      /\ UNCHANGED <<free, cpu, made, nextpid, nexttid>>
  BY <1>1 DEF ForkDone
<1>3. /\ thread[t] \in Entry /\ thread'[t] = [thread[t] EXCEPT !.state = "RUNNABLE"]
      /\ \A s \in Slot \ {t} : thread'[s] = thread[s]
  BY <1>2 DEF TypeOK
<1>4. thread' \in [Slot -> Entry]
  <2>1. thread'[t] \in Entry
    BY <1>3 DEF Entry, State
  <2> QED BY <1>2, <2>1 DEF TypeOK
<1>5. /\ thread'[t].state = "RUNNABLE" /\ thread'[t].pgdir = thread[t].pgdir /\ thread'[t].sz = thread[t].sz
      /\ thread'[t].parent = thread[t].parent
      /\ thread'[t].pid = thread[t].pid /\ thread'[t].tid = thread[t].tid
      /\ thread'[t].killed = thread[t].killed /\ thread'[t].kstack = thread[t].kstack
      /\ \A s \in Slot \ {t} : thread'[s] = thread[s]
  BY <1>3 DEF Entry
<1>6. /\ pc' = [pc EXCEPT ![t] = "user", ![p] = "user"] /\ arg' = [arg EXCEPT ![p] = Null]
      /\ UNCHANGED <<free, cpu, made, nextpid, nexttid>>
  BY <1>2
<1>t. TypeOK'
  BY <1>4, <1>6, Uses DEF TypeOK, Label
<1>a. IdInv'
  BY <1>0, <1>1, <1>5, <1>6 DEF IdInv, Used, Same
<1>b. InitInv'
  BY <1>0, <1>1, <1>5, <1>6, Uses DEF InitInv, Used, Same, TypeOK
<1>c. IdleInv'
  BY <1>0, <1>1, <1>5, <1>6 DEF IdleInv, Used, TypeOK
<1>d. CpuInv'
  BY <1>0, <1>1, <1>5, <1>6 DEF CpuInv, TypeOK
<1>e. ForkInv'
  BY <1>0, <1>1, <1>5, <1>6 DEF ForkInv, Forking, TypeOK, IdleInv
<1>f. JoinInv'
  BY <1>0, <1>1, <1>5, <1>6 DEF JoinInv, Same, TypeOK, TypeOK, IdleInv
<1>g. WaitInv'
  BY <1>0, <1>1, <1>5, <1>6 DEF WaitInv, TypeOK
<1>h. MainInv'
  BY <1>0, <1>1, <1>5, <1>6 DEF MainInv, IsMain, Used, Same
<1>i. SpaceInv'
  BY <1>0, <1>1, <1>5, <1>6 DEF SpaceInv, Used, Same, IdInv
<1>j. PageInv'
  BY <1>0, <1>1, <1>5, <1>6 DEF PageInv, Used, TypeOK
<1>k. ExecInv'
  BY <1>0, <1>1, <1>5, <1>6 DEF ExecInv, Execing, Used, Same, TypeOK
<1> QED BY <1>t, <1>a, <1>b, <1>c, <1>d, <1>e, <1>f, <1>g, <1>h, <1>i, <1>j, <1>k

-----------------------------------------------------------------------------
(* exit, wait and kill *)

\* exit() before it takes the lock.
LEMMA ExitCallInv ==
    ASSUME OneCpu, ThreadsInv, NEW p \in Slot, ExitCall(p)
    PROVE  ThreadsInv'
<1> USE DEF ThreadsInv
<1>1. /\ thread[p].state = "RUNNING" /\ pc[p] = "user" /\ p # initproc
      /\ pc' = [pc EXCEPT ![p] = "exit"] /\ UNCHANGED <<thread, free, cpu, arg, made, nextpid, nexttid>>
  BY Runs DEF ExitCall, In, Goto
<1>t. TypeOK'
  BY <1>1 DEF TypeOK, Entry, State, Label, TypeOK
<1>a. IdInv'
  BY <1>1 DEF IdInv, Used, Same
<1>b. InitInv'
  BY <1>1, Uses DEF InitInv, Used, Same, TypeOK
<1>c. IdleInv'
  BY <1>1 DEF IdleInv, Used, TypeOK
<1>d. CpuInv'
  BY <1>1 DEF CpuInv, TypeOK
<1>e. ForkInv'
  BY <1>1 DEF ForkInv, Forking, TypeOK
<1>f. JoinInv'
  BY <1>1 DEF JoinInv, Same, TypeOK
<1>g. WaitInv'
  BY <1>1 DEF WaitInv, TypeOK
<1>h. MainInv'
  BY <1>1 DEF MainInv, IsMain, Used, Same
<1>i. SpaceInv'
  BY <1>1 DEF SpaceInv, Used, Same
<1>j. PageInv'
  BY <1>1 DEF PageInv, Used
<1>k. ExecInv'
  BY <1>1 DEF ExecInv, Execing, Used, Same, TypeOK
<1> QED BY <1>t, <1>a, <1>b, <1>c, <1>d, <1>e, <1>f, <1>g, <1>h, <1>i, <1>j, <1>k

\* What a step does to the fields of a slot that only wait(), exec() and joins clear.
Stays(s) ==
    /\ thread'[s].pid = thread[s].pid /\ thread'[s].tid = thread[s].tid
    /\ thread'[s].kstack = thread[s].kstack /\ thread'[s].pgdir = thread[s].pgdir
    /\ thread'[s].sz = thread[s].sz

\* exit() field by field.
LEMMA ExitEntry ==
    ASSUME OneCpu, ThreadsInv, NEW p \in Slot, Exit(p)
    PROVE  /\ thread' \in [Slot -> Entry]
           /\ \A s \in Slot : Stays(s) /\ thread'[s].killed = thread[s].killed
           /\ \A s \in Slot : s \in Of(p) => thread'[s].state = "ZOMBIE" /\ thread'[s].parent = thread[s].parent
           /\ \A s \in Slot : s \notin Of(p) =>
                thread'[s].parent = IF thread[s].parent = p THEN initproc ELSE thread[s].parent
           /\ \A s \in Slot : s \notin Of(p) =>
                        \/ /\ thread[s].state = "SLEEPING" /\ thread'[s].state = "RUNNABLE"
                           /\ \E q \in Slot \cup {Null} : thread[s].chan = SlotChan(q)
                        \/ /\ thread'[s].state = thread[s].state /\ thread'[s].chan = thread[s].chan
                           /\ thread[s].state = "SLEEPING" => thread[s].chan # SlotChan(thread[p].parent)
<1> USE DEF ThreadsInv
<1> DEFINE th == Woken(thread, SlotChan(thread[p].parent))
           woken == IF Zombies(Children(p)) # {} THEN Woken(th, SlotChan(initproc)) ELSE th
<1>1. /\ thread' = [s \in Slot |->
                       IF s \in Of(p) THEN [woken[s] EXCEPT !.state = "ZOMBIE", !.chan = Awake]
                       ELSE IF s \in Children(p) THEN [woken[s] EXCEPT !.parent = initproc]
                       ELSE woken[s]]
  BY DEF Exit
<1>2. thread \in [Slot -> Entry] /\ thread[p].parent \in Slot \cup {Null}
  BY DEF TypeOK, Entry
<1>3. th \in [Slot -> Entry]
  <2>1. th = [s \in Slot |-> th[s]]
    BY DEF Woken
  <2> QED BY <1>2, <2>1, WokenEntry
<1>4. woken = [s \in Slot |-> woken[s]]
  BY DEF Woken
<1>5. ASSUME NEW s \in Slot
      PROVE  /\ woken[s] \in Entry
             /\ woken[s].pid = thread[s].pid /\ woken[s].tid = thread[s].tid
             /\ woken[s].parent = thread[s].parent
             /\ woken[s].killed = thread[s].killed /\ woken[s].kstack = thread[s].kstack
             /\ woken[s].pgdir = thread[s].pgdir /\ woken[s].sz = thread[s].sz
             /\ \/ /\ thread[s].state = "SLEEPING" /\ woken[s].state = "RUNNABLE"
                   /\ \E q \in Slot \cup {Null} : thread[s].chan = SlotChan(q)
                \/ /\ woken[s].state = thread[s].state /\ woken[s].chan = thread[s].chan
                   /\ thread[s].state = "SLEEPING" => thread[s].chan # SlotChan(thread[p].parent)
  <2> DEFINE w == Woken(th, SlotChan(initproc))
  <2>1. /\ th[s] \in Entry
        /\ th[s].pid = thread[s].pid /\ th[s].tid = thread[s].tid /\ th[s].parent = thread[s].parent
        /\ th[s].killed = thread[s].killed /\ th[s].kstack = thread[s].kstack
        /\ th[s].pgdir = thread[s].pgdir /\ th[s].sz = thread[s].sz
        /\ IF thread[s].state = "SLEEPING" /\ thread[s].chan = SlotChan(thread[p].parent)
           THEN th[s].state = "RUNNABLE" ELSE th[s].state = thread[s].state /\ th[s].chan = thread[s].chan
    BY <1>2, WokenEntry
  <2>2. /\ w[s] \in Entry
        /\ w[s].pid = th[s].pid /\ w[s].tid = th[s].tid /\ w[s].parent = th[s].parent
        /\ w[s].killed = th[s].killed /\ w[s].kstack = th[s].kstack
        /\ w[s].pgdir = th[s].pgdir /\ w[s].sz = th[s].sz
        /\ IF th[s].state = "SLEEPING" /\ th[s].chan = SlotChan(initproc)
           THEN w[s].state = "RUNNABLE" ELSE w[s].state = th[s].state /\ w[s].chan = th[s].chan
    BY <1>3, WokenEntry
  <2>3. initproc \in Slot
    BY Uses
  <2>4. woken[s] = w[s] \/ woken[s] = th[s]
    OBVIOUS
  <2> HIDE DEF w, th, woken
  <2> QED BY <1>2, <2>1, <2>2, <2>3, <2>4
<1> HIDE DEF th, woken
<1>6. \A s \in Slot :
        thread'[s] = IF s \in Of(p) THEN [woken[s] EXCEPT !.state = "ZOMBIE", !.chan = Awake]
                     ELSE IF s \in Children(p) THEN [woken[s] EXCEPT !.parent = initproc]
                     ELSE woken[s]
  BY <1>1
<1>7. \A s \in Slot : s \in Children(p) <=> thread[s].parent = p
  BY DEF Children
<1>8. ASSUME NEW s \in Slot PROVE thread'[s] \in Entry
  <2>1. woken[s] \in Entry /\ Awake \in Chan /\ "ZOMBIE" \in State /\ initproc \in Slot
    BY <1>5, Uses DEF Chan, State
  <2> QED BY <1>6, <2>1 DEF Entry
<1>9. thread' \in [Slot -> Entry]
  BY <1>1, <1>8
<1>10. ASSUME NEW s \in Slot, s \in Of(p)
       PROVE  Stays(s) /\ thread'[s].killed = thread[s].killed
              /\ thread'[s].state = "ZOMBIE" /\ thread'[s].parent = thread[s].parent
  <2>1. woken[s] \in Entry /\ Awake \in Chan /\ "ZOMBIE" \in State
    BY <1>5 DEF Chan, State
  <2>2. thread'[s] = [woken[s] EXCEPT !.state = "ZOMBIE", !.chan = Awake]
    BY <1>6, <1>10
  <2>3. /\ thread'[s].state = "ZOMBIE"
        /\ thread'[s].pid = woken[s].pid /\ thread'[s].tid = woken[s].tid
        /\ thread'[s].killed = woken[s].killed /\ thread'[s].kstack = woken[s].kstack
        /\ thread'[s].pgdir = woken[s].pgdir /\ thread'[s].sz = woken[s].sz
        /\ thread'[s].parent = woken[s].parent
    BY <2>1, <2>2 DEF Entry
  <2> QED BY <1>5, <2>3 DEF Stays
<1>11. ASSUME NEW s \in Slot, s \notin Of(p)
       PROVE  /\ Stays(s) /\ thread'[s].killed = thread[s].killed
              /\ thread'[s].state = woken[s].state /\ thread'[s].chan = woken[s].chan
              /\ thread'[s].parent = IF thread[s].parent = p THEN initproc ELSE thread[s].parent
  <2>1. woken[s] \in Entry /\ woken[s].parent = thread[s].parent
    BY <1>5
  <2>2. thread'[s] = IF thread[s].parent = p THEN [woken[s] EXCEPT !.parent = initproc] ELSE woken[s]
    BY <1>6, <1>7, <1>11
  <2>3. /\ thread'[s].pid = woken[s].pid /\ thread'[s].tid = woken[s].tid
        /\ thread'[s].killed = woken[s].killed /\ thread'[s].kstack = woken[s].kstack
        /\ thread'[s].pgdir = woken[s].pgdir /\ thread'[s].sz = woken[s].sz
        /\ thread'[s].state = woken[s].state /\ thread'[s].chan = woken[s].chan
        /\ thread'[s].parent = IF thread[s].parent = p THEN initproc ELSE thread[s].parent
    BY <2>1, <2>2 DEF Entry
  <2> QED BY <1>5, <2>3 DEF Stays
<1> QED BY <1>5, <1>9, <1>10, <1>11

\* exit(): the threads of the process end together, its children go to init, and the
\* parent wakes up.
LEMMA ExitInv ==
    ASSUME OneCpu, ThreadsInv, NEW p \in Slot, Exit(p)
    PROVE  ThreadsInv'
<1> USE DEF ThreadsInv
<1>1. /\ thread[p].state = "RUNNING" /\ pc[p] = "exit" /\ p # initproc /\ Used(p)
      /\ \A c \in Cpu : cpu[c] = p
  BY Runs DEF Exit, In, InitInv, Used
<1>2. /\ pc' = [s \in Slot |-> IF s \in Of(p) THEN "user" ELSE pc[s]]
      /\ arg' = [s \in Slot |-> IF s \in Of(p) THEN Null ELSE arg[s]]
      /\ cpu' = [c \in Cpu |-> Null]
      /\ UNCHANGED <<free, made, nextpid, nexttid>>
  BY <1>1 DEF Exit, Sched
<1>3. /\ thread' \in [Slot -> Entry]
      /\ \A s \in Slot : Stays(s) /\ thread'[s].killed = thread[s].killed
      /\ \A s \in Slot : s \in Of(p) => thread'[s].state = "ZOMBIE" /\ thread'[s].parent = thread[s].parent
      /\ \A s \in Slot : s \notin Of(p) =>
           thread'[s].parent = IF thread[s].parent = p THEN initproc ELSE thread[s].parent
      /\ \A s \in Slot : s \notin Of(p) =>
                        \/ /\ thread[s].state = "SLEEPING" /\ thread'[s].state = "RUNNABLE"
                           /\ \E q \in Slot \cup {Null} : thread[s].chan = SlotChan(q)
                        \/ /\ thread'[s].state = thread[s].state /\ thread'[s].chan = thread[s].chan
                           /\ thread[s].state = "SLEEPING" => thread[s].chan # SlotChan(thread[p].parent)
  BY ExitEntry
<1>4. \A s \in Slot : s \in Of(p) <=> Used(s) /\ Same(s, p)
  BY DEF Of, Unused, Used, Same
<1>5. \A s \in Slot : Stays(s)
  BY <1>3
<1>6. \A s \in Slot : IF s \in Of(p) THEN thread'[s].state = "ZOMBIE"
                      ELSE \/ thread'[s].state = thread[s].state
                           \/ thread[s].state = "SLEEPING" /\ thread'[s].state = "RUNNABLE"
  BY <1>3
<1>7. \A s \in Slot : thread'[s].parent = IF s \notin Of(p) /\ thread[s].parent = p THEN initproc
                                          ELSE thread[s].parent
  BY <1>3
<1>8. \A s \in Slot : thread'[s].killed = thread[s].killed
  BY <1>3
<1>t. TypeOK'
  BY <1>2, <1>3 DEF TypeOK, Label
<1>a. IdInv'
  BY <1>2, <1>4, <1>5, <1>6 DEF IdInv, Used, Same, Stays
<1>b. InitInv'
  <2>1. initproc \in Slot /\ initproc \notin Of(p) /\ initproc # p
    BY <1>1, <1>4, Uses DEF InitInv, Same
  <2>2. thread'[initproc].state \notin {"UNUSED", "EMBRYO", "ZOMBIE"}
    BY <1>6, <2>1 DEF InitInv
  <2>3. thread'[initproc].parent = Null
    BY <1>7, <2>1, Uses DEF InitInv
  <2>4. \A s \in Slot : Used(s)' => Used(s)
    BY <1>4, <1>6 DEF Used
  <2> QED BY <1>2, <1>5, <1>8, <2>1, <2>2, <2>3, <2>4 DEF InitInv, Same, Stays
<1>c. IdleInv'
  BY <1>1, <1>2, <1>4, <1>5, <1>6, <1>7, Uses DEF IdleInv, Used, Stays
<1>d. CpuInv'
  BY <1>2 DEF CpuInv
<1>e. ForkInv'
  <2>1. ASSUME NEW q \in Slot, Forking(q)'
        PROVE  /\ Forking(q) /\ pc'[q] = pc[q] /\ arg'[q] = arg[q] /\ arg[q] \in Slot
               /\ arg[q] \notin Of(p)
               /\ thread'[arg[q]].state = "EMBRYO"
               /\ thread[arg[q]].parent = Null => thread'[arg[q]].parent = Null
    <3>1. q \notin Of(p) /\ Forking(q) /\ pc'[q] = pc[q] /\ arg'[q] = arg[q]
      BY <1>2, <2>1 DEF Forking
    <3>2. arg[q] \in Slot /\ thread[arg[q]].state = "EMBRYO"
      BY <3>1 DEF ForkInv
    <3>3. arg[q] \notin Of(p)
      BY <1>1, <1>4, <3>2 DEF IdInv, Used
    <3> QED BY <1>6, <1>7, <3>1, <3>2, <3>3, Uses
  <2> QED BY <1>5, <2>1 DEF ForkInv, Stays, Forking
<1>f. JoinInv'
  <2>1. ASSUME NEW q \in Slot, pc'[q] = "join"
        PROVE  /\ pc[q] = "join" /\ arg'[q] = arg[q] /\ arg[q] \in Slot
               /\ q \notin Of(p) /\ arg[q] \notin Of(p)
    <3>1. pc[q] = "join" /\ arg'[q] = arg[q] /\ q \notin Of(p)
      BY <1>2, <2>1
    <3>2. arg[q] \in Slot /\ Same(arg[q], q) /\ Used(q)
      BY <3>1 DEF JoinInv, TypeOK, IdleInv, Used
    <3> QED BY <1>4, <3>1, <3>2 DEF Same
  <2>2. ASSUME NEW q \in Slot, pc[q] = "join", q \notin Of(p)
        PROVE  thread'[q].state = thread[q].state /\ thread'[q].chan = thread[q].chan
    BY <1>3, <2>2 DEF JoinInv, TidChan, SlotChan
  <2>3. ASSUME NEW s \in Slot, s \notin Of(p)
        PROVE  thread'[s].state = "ZOMBIE" <=> thread[s].state = "ZOMBIE"
    BY <1>6, <2>3
  <2> QED BY <1>2, <1>5, <1>8, <2>1, <2>2, <2>3 DEF JoinInv, Same, Stays
<1>g. WaitInv'
  <2> SUFFICES ASSUME NEW q \in Slot, thread'[q].state = "SLEEPING"
               PROVE  /\ pc'[q] \in {"join", "wait"}
                      /\ pc'[q] = "wait" => /\ thread'[q].chan = SlotChan(q)
                                            /\ \E s \in Slot : thread'[s].parent = q /\ thread'[s].state # "ZOMBIE"
    BY DEF WaitInv
  <2>1. /\ q \notin Of(p) /\ q # p /\ thread[q].state = "SLEEPING" /\ thread'[q].chan = thread[q].chan
        /\ thread[q].chan # SlotChan(thread[p].parent) /\ pc'[q] = pc[q]
    BY <1>1, <1>2, <1>3, <1>4 DEF Same
  <2>2. pc[q] \in {"join", "wait"}
    BY <2>1 DEF WaitInv
  <2>3. ASSUME pc[q] = "wait"
        PROVE  thread[q].chan = SlotChan(q)
               /\ \E s \in Slot : thread'[s].parent = q /\ thread'[s].state # "ZOMBIE"
    <3>1. PICK s \in Slot : thread[s].parent = q /\ thread[s].state # "ZOMBIE"
      BY <2>1, <2>3 DEF WaitInv
    <3>2. thread[q].chan = SlotChan(q) /\ q # thread[p].parent
      BY <2>1, <2>3 DEF WaitInv
    <3>3. Used(s)
      BY <3>1, Uses DEF IdleInv
    <3>4. s \notin Of(p)
      BY <1>1, <1>4, <3>1, <3>2, <3>3 DEF SpaceInv
    <3> QED BY <1>6, <1>7, <2>1, <3>1, <3>2, <3>4
  <2> QED BY <2>1, <2>2, <2>3
<1>h. MainInv'
  BY <1>2, <1>4, <1>5, <1>6 DEF MainInv, IsMain, Used, Same, Stays
<1>i. SpaceInv'
  BY <1>2, <1>4, <1>5, <1>6, <1>7 DEF SpaceInv, Used, Same, Stays
<1>j. PageInv'
  BY <1>2, <1>4, <1>5, <1>6, <1>1 DEF PageInv, Used, Stays, IdInv
<1>k. ExecInv'
  BY <1>2, <1>4, <1>5, <1>6 DEF ExecInv, Execing, Used, Same, Stays
<1> QED BY <1>t, <1>a, <1>b, <1>c, <1>d, <1>e, <1>f, <1>g, <1>h, <1>i, <1>j, <1>k

\* What wait() and exec() leave of a slot.
LEMMA ReapedEntry ==
    ASSUME NEW e \in Entry
    PROVE  /\ Reaped(e) \in Entry
           /\ Reaped(e).state = "UNUSED" /\ Reaped(e).kstack = NoPage /\ Reaped(e).parent = Null
           /\ Reaped(e).pid = Null
<1>0. PICK r : r = Reaped(e)
  OBVIOUS
<1>1. r = [state |-> "UNUSED", pid |-> Null, tid |-> e.tid, parent |-> Null, killed |-> FALSE,
                   chan |-> Awake, kstack |-> NoPage, ustack |-> Null, pgdir |-> NoPage, sz |-> 0]
  BY <1>0 DEF Reaped, Entry
<1>2. "UNUSED" \in State /\ Awake \in Chan
  BY DEF State, Chan
<1>3. r \in Entry
  BY <1>1, <1>2, Uses DEF Entry
<1> QED BY <1>0, <1>1, <1>3

\* wait(): the stacks of the children and the directory of the first are free again; whoever
\* else was in that directory was a child too.
LEMMA WaitReapInv ==
    ASSUME OneCpu, ThreadsInv, NEW p \in Slot, WaitReap(p)
    PROVE  ThreadsInv'
<1> USE DEF ThreadsInv
<1> DEFINE kids == Children(p)
           k0 == Min(kids)
<1>1. /\ thread[p].state = "RUNNING" /\ pc[p] \in {"user", "wait"}
      /\ kids # {} /\ Zombies(kids) = kids
      /\ thread' = [s \in Slot |-> IF s \in kids THEN Reaped(thread[s]) ELSE thread[s]]
      /\ free' = free \cup {thread[s].kstack : s \in kids} \cup {thread[k0].pgdir}
      /\ made' = made \ kids /\ pc' = [pc EXCEPT ![p] = "user"]
      /\ UNCHANGED <<cpu, arg, nextpid, nexttid>>
  BY Runs DEF WaitReap, InUser, In, Goto
<1>2. /\ \A s \in Slot : s \in kids <=> thread[s].parent = p
      /\ kids \in SUBSET Slot
  BY DEF Children
<1>3. \A s \in kids : thread[s].state = "ZOMBIE"
  BY <1>1 DEF Zombies
<1>4. k0 \in kids
  BY <1>1, <1>2, First
<1>5. PICK d : d = thread[k0].pgdir
  OBVIOUS
<1>6. \A s \in Slot \ kids : thread'[s] = thread[s]
  BY <1>1
<1>7. \A s \in kids : /\ thread'[s] \in Entry /\ thread'[s].state = "UNUSED"
                      /\ thread'[s].kstack = NoPage /\ thread'[s].parent = Null /\ thread'[s].pid = Null
  BY <1>1, <1>2, ReapedEntry DEF TypeOK
<1>8. thread' \in [Slot -> Entry]
  BY <1>1, <1>2, <1>6, <1>7 DEF TypeOK
<1>9. PICK back \in SUBSET Page : /\ free' = free \cup back
                                  /\ \A g \in back : g = d \/ \E s \in kids : g = thread[s].kstack
  <2> DEFINE back == {thread[s].kstack : s \in kids} \cup {d}
  <2>1. \A s \in kids : thread[s] \in Entry /\ thread[s].kstack # NoPage /\ thread[s].pgdir # NoPage
    BY <1>2, <1>3 DEF PageInv, Used, TypeOK
  <2>2. \A s \in kids : thread[s].kstack \in Page /\ thread[s].pgdir \in Page
    BY <2>1 DEF Entry
  <2>3. back \in SUBSET Page
    BY <1>4, <1>5, <2>2
  <2>4. free' = free \cup back
    BY <1>1, <1>5
  <2> QED BY <2>3, <2>4
<1>10. /\ made' = made \ kids /\ pc' = [pc EXCEPT ![p] = "user"]
       /\ UNCHANGED <<cpu, arg, nextpid, nexttid>>
       /\ thread[p].state = "RUNNING" /\ pc[p] \in {"user", "wait"}
  BY <1>1
<1>11. \A s \in kids : pc[s] = "user" /\ Used(s)
  BY <1>2, <1>3 DEF IdleInv, Used
<1>12. \A s \in Slot, t \in kids : Used(s) /\ Same(s, t) => s \in kids
  BY <1>2, <1>11 DEF SpaceInv
<1>13. p \notin kids
  BY <1>3, <1>10
<1>14. \A s \in kids : s # initproc
  BY <1>2, Uses DEF InitInv
<1> HIDE DEF kids, k0
<1>t. TypeOK'
  BY <1>8, <1>9, <1>10 DEF TypeOK, Label
<1>a. IdInv'
  <2>1. \A s \in Slot : Used(s)' => Used(s) /\ thread'[s] = thread[s]
    BY <1>6, <1>7 DEF Used
  <2>2. \A s \in Slot : thread'[s].pid < nextpid
    <3>1. Null < nextpid
      <4>1. thread[p].pid \in Nat /\ thread[p].pid < nextpid /\ nextpid \in Nat
        BY DEF IdInv, TypeOK, Entry
      <4> QED BY <4>1 DEF Null
    <3> QED BY <1>6, <1>7, <3>1 DEF IdInv
  <2> QED BY <1>10, <2>1, <2>2 DEF IdInv, Same
<1>b. InitInv'
  BY <1>2, <1>3, <1>6, <1>7, <1>10, <1>11, <1>12, <1>13, Uses, <1>14 DEF InitInv, Used, Same, TypeOK
<1>c. IdleInv'
  BY <1>2, <1>3, <1>6, <1>7, <1>10, <1>11, <1>12, <1>13, Uses DEF IdleInv, Used, TypeOK
<1>d. CpuInv'
  BY <1>2, <1>3, <1>6, <1>7, <1>10, <1>11, <1>12, <1>13 DEF CpuInv, TypeOK
<1>e. ForkInv'
  BY <1>2, <1>3, <1>6, <1>7, <1>10, <1>11, <1>12, <1>13 DEF ForkInv, Forking, TypeOK
<1>f. JoinInv'
  <2>1. ASSUME NEW q \in Slot, pc'[q] = "join"
        PROVE  /\ pc[q] = "join" /\ arg'[q] = arg[q] /\ arg[q] \in Slot /\ arg[q] \in made'
               /\ thread'[q] = thread[q] /\ thread'[arg[q]] = thread[arg[q]]
    <3>1. pc[q] = "join" /\ arg'[q] = arg[q] /\ q \notin kids
      BY <1>10, <1>11, <2>1 DEF TypeOK
    <3>2. arg[q] \in made /\ Same(q, arg[q]) /\ Used(q)
      BY <3>1 DEF JoinInv, IdleInv, Used, Same
    <3>3. arg[q] \in Slot /\ arg[q] \notin kids
      BY <1>12, <3>1, <3>2 DEF TypeOK
    <3> QED BY <1>6, <1>10, <3>1, <3>2, <3>3
  <2> QED BY <2>1 DEF JoinInv, Same
<1>g. WaitInv'
  <2> SUFFICES ASSUME NEW q \in Slot, thread'[q].state = "SLEEPING"
               PROVE  /\ pc'[q] \in {"join", "wait"}
                      /\ pc'[q] = "wait" => /\ thread'[q].chan = SlotChan(q)
                                            /\ \E s \in Slot : thread'[s].parent = q /\ thread'[s].state # "ZOMBIE"
    BY DEF WaitInv
  <2>1. q # p /\ thread'[q] = thread[q] /\ pc'[q] = pc[q]
    BY <1>6, <1>7, <1>10, <1>13 DEF TypeOK
  <2>2. \A s \in Slot : thread[s].parent = q => thread'[s] = thread[s]
    BY <1>2, <1>6, <2>1
  <2> QED BY <2>1, <2>2 DEF WaitInv
<1>h. MainInv'
  <2> SUFFICES ASSUME NEW s \in Slot, Used(s)' PROVE \E m \in Slot : IsMain(m, s)'
    BY DEF MainInv
  <2>1. s \notin kids /\ Used(s) /\ thread'[s] = thread[s]
    BY <1>6, <1>7 DEF Used
  <2>2. PICK m \in Slot : IsMain(m, s)
    BY <2>1 DEF MainInv
  <2>3. m \notin kids
    BY <1>2, <1>12, <2>1, <2>2 DEF IsMain, Same
  <2>4. thread'[m] = thread[m] /\ m \notin made'
    BY <1>6, <1>10, <2>2, <2>3 DEF IsMain
  <2> QED BY <2>1, <2>2, <2>4 DEF IsMain, Used, Same
<1>i. SpaceInv'
  BY <1>2, <1>3, <1>6, <1>7, <1>10, <1>11, <1>12, <1>13 DEF SpaceInv, Used, Same
<1>j. PageInv'
  <2>1. ASSUME NEW s \in Slot \ kids, Used(s)
        PROVE  thread[s].kstack \notin free' /\ thread[s].pgdir \notin free'
    <3>1. \A k \in kids : thread[k].kstack # NoPage /\ thread[k].pgdir # NoPage
      BY <1>2, <1>3, <1>11 DEF PageInv
    <3>2. \A k \in kids : thread[s].kstack # thread[k].kstack /\ thread[s].pgdir # thread[k].kstack
      BY <1>2, <1>11, <2>1, <3>1 DEF PageInv
    <3>3. thread[s].pgdir # d
      BY <1>2, <1>4, <1>5, <1>11, <1>12, <2>1, <3>1 DEF SpaceInv
    <3>4. thread[s].kstack # d
      <4>1. thread[s].kstack = NoPage => thread[s].kstack # d
        BY <1>4, <1>5, <3>1
      <4> QED BY <1>2, <1>4, <1>5, <1>11, <2>1, <4>1 DEF PageInv
    <3>5. thread[s].kstack \notin free /\ thread[s].pgdir \notin free
      BY <2>1 DEF PageInv
    <3> QED BY <1>9, <3>2, <3>3, <3>4, <3>5
  <2>2. \A s \in Slot : Used(s)' => s \notin kids /\ Used(s) /\ thread'[s] = thread[s]
    BY <1>6, <1>7 DEF Used
  <2> QED BY <2>1, <2>2 DEF PageInv
<1>k. ExecInv'
  <2>1. ASSUME NEW q \in Slot, Execing(q)' PROVE Execing(q) /\ arg'[q] = arg[q] /\ pc'[q] = pc[q]
    BY <1>10, <2>1 DEF Execing, TypeOK
  <2>2. ASSUME NEW q \in Slot, Execing(q) PROVE arg[q] \in Page \ free'
    BY <1>2, <1>4, <1>5, <1>9, <1>11, <2>2 DEF ExecInv
  <2>3. \A s \in Slot : Used(s)' => Used(s) /\ thread'[s] = thread[s]
    BY <1>6, <1>7 DEF Used
  <2>4. ASSUME NEW q \in Slot, Execing(q) PROVE thread'[q] = thread[q]
    BY <1>6, <1>11, <2>4 DEF Execing
  <2> QED BY <2>1, <2>2, <2>3, <2>4 DEF ExecInv, Same, Execing
<1> QED BY <1>t, <1>a, <1>b, <1>c, <1>d, <1>e, <1>f, <1>g, <1>h, <1>i, <1>j, <1>k

\* wait() gives up.
LEMMA WaitFailInv ==
    ASSUME OneCpu, ThreadsInv, NEW p \in Slot, WaitFail(p)
    PROVE  ThreadsInv'
<1> USE DEF ThreadsInv
<1>1. /\ thread[p].state = "RUNNING" /\ pc[p] = "wait"
      /\ pc' = [pc EXCEPT ![p] = "user"] /\ UNCHANGED <<thread, free, cpu, arg, made, nextpid, nexttid>>
  BY Runs DEF WaitFail, In, Goto
<1>t. TypeOK'
  BY <1>1 DEF TypeOK, Entry, State, Label
<1>a. IdInv'
  BY <1>1 DEF IdInv, Used, Same
<1>b. InitInv'
  BY <1>1, Uses DEF InitInv, Used, Same, TypeOK
<1>c. IdleInv'
  BY <1>1 DEF IdleInv, Used, TypeOK
<1>d. CpuInv'
  BY <1>1 DEF CpuInv, TypeOK
<1>e. ForkInv'
  BY <1>1 DEF ForkInv, Forking, TypeOK
<1>f. JoinInv'
  BY <1>1 DEF JoinInv, Same, TypeOK
<1>g. WaitInv'
  BY <1>1 DEF WaitInv, TypeOK
<1>h. MainInv'
  BY <1>1 DEF MainInv, IsMain, Used, Same
<1>i. SpaceInv'
  BY <1>1 DEF SpaceInv, Used, Same
<1>j. PageInv'
  BY <1>1 DEF PageInv, Used
<1>k. ExecInv'
  BY <1>1 DEF ExecInv, Execing, Used, Same, TypeOK
<1> QED BY <1>t, <1>a, <1>b, <1>c, <1>d, <1>e, <1>f, <1>g, <1>h, <1>i, <1>j, <1>k

\* wait() sleeps while a child has not ended.
LEMMA WaitSleepInv ==
    ASSUME OneCpu, ThreadsInv, NEW p \in Slot, WaitSleep(p)
    PROVE  ThreadsInv'
<1> USE DEF ThreadsInv
<1>1. /\ thread[p].state = "RUNNING" /\ thread[p] \in Entry /\ pc[p] \in {"user", "wait"}
      /\ thread' = [thread EXCEPT ![p].state = "SLEEPING", ![p].chan = SlotChan(p)]
      /\ pc' = [pc EXCEPT ![p] = "wait"]
      /\ cpu' = [c \in Cpu |-> IF cpu[c] = p THEN Null ELSE cpu[c]]
      /\ UNCHANGED <<free, arg, made, nextpid, nexttid>>
  BY Runs DEF WaitSleep, InUser, In, Goto, Sched, TypeOK
<1>2. PICK k \in Slot : thread[k].parent = p /\ thread[k].state # "ZOMBIE"
  BY DEF WaitSleep, Children, Zombies
<1>3. /\ thread'[p] = [thread[p] EXCEPT !.state = "SLEEPING", !.chan = SlotChan(p)]
      /\ \A s \in Slot \ {p} : thread'[s] = thread[s]
  BY <1>1 DEF TypeOK
<1>4. thread' \in [Slot -> Entry]
  <2>1. "SLEEPING" \in State /\ SlotChan(p) \in Chan
    BY DEF State, Chan
  <2>2. thread[p] \in Entry
    BY <1>1
  <2>3. thread'[p] \in Entry
    BY <1>3, <2>1, <2>2 DEF Entry
  <2> QED BY <1>1, <2>3 DEF TypeOK
<1>5. /\ thread'[p].state = "SLEEPING" /\ thread'[p].chan = SlotChan(p)
      /\ Stays(p) /\ thread'[p].parent = thread[p].parent /\ thread'[p].killed = thread[p].killed
      /\ \A s \in Slot \ {p} : thread'[s] = thread[s]
  <2>1. "SLEEPING" \in State /\ SlotChan(p) \in Chan /\ thread[p] \in Entry
    BY <1>1 DEF State, Chan
  <2> QED BY <1>3, <2>1 DEF Entry, Stays
<1>6. /\ thread[p].state = "RUNNING" /\ pc[p] \in {"user", "wait"}
      /\ pc' = [pc EXCEPT ![p] = "wait"]
      /\ cpu' = [c \in Cpu |-> IF cpu[c] = p THEN Null ELSE cpu[c]]
      /\ UNCHANGED <<free, arg, made, nextpid, nexttid>>
  BY <1>1
<1>t. TypeOK'
  BY <1>4, <1>6 DEF TypeOK, Label
<1>a. IdInv'
  BY <1>5, <1>6 DEF IdInv, Used, Same, Stays, TypeOK
<1>b. InitInv'
  BY <1>5, <1>6, Uses DEF InitInv, Used, Same, Stays, TypeOK
<1>c. IdleInv'
  BY <1>5, <1>6 DEF IdleInv, Used, Stays, TypeOK
<1>d. CpuInv'
  BY <1>5, <1>6 DEF CpuInv, TypeOK
<1>e. ForkInv'
  BY <1>5, <1>6 DEF ForkInv, Forking, Stays, TypeOK
<1>f. JoinInv'
  BY <1>5, <1>6 DEF JoinInv, Same, TypeOK, Stays, TypeOK
<1>g. WaitInv'
  BY <1>5, <1>6, <1>2 DEF WaitInv, Stays, TypeOK
<1>h. MainInv'
  BY <1>5, <1>6 DEF MainInv, IsMain, Used, Same, Stays, TypeOK
<1>i. SpaceInv'
  BY <1>5, <1>6 DEF SpaceInv, Used, Same, Stays, TypeOK
<1>j. PageInv'
  BY <1>5, <1>6 DEF PageInv, Used, Stays, TypeOK
<1>k. ExecInv'
  BY <1>5, <1>6 DEF ExecInv, Execing, Used, Same, Stays, TypeOK
<1> QED BY <1>t, <1>a, <1>b, <1>c, <1>d, <1>e, <1>f, <1>g, <1>h, <1>i, <1>j, <1>k

\* kill(): the threads of a process other than init are marked and awake.
LEMMA KillInv ==
    ASSUME ThreadsInv, NEW p \in Slot, Kill(p)
    PROVE  ThreadsInv'
<1> USE DEF ThreadsInv
<1>1. PICK pid : /\ pid # thread[initproc].pid
                 /\ thread' = [s \in Slot |->
                      IF thread[s].pid # pid THEN thread[s]
                      ELSE [thread[s] EXCEPT !.killed = TRUE,
                              !.state = IF @ = "SLEEPING" THEN "RUNNABLE" ELSE @,
                              !.chan = Awake]]
  BY DEF Kill
<1>2. UNCHANGED <<free, cpu, pc, arg, made, nextpid, nexttid>>
  BY DEF Kill
<1>3. ASSUME NEW s \in Slot, thread[s].pid = pid
      PROVE  /\ thread'[s] \in Entry /\ Stays(s) /\ thread'[s].parent = thread[s].parent
             /\ thread'[s].killed = TRUE
             /\ thread'[s].state = IF thread[s].state = "SLEEPING" THEN "RUNNABLE" ELSE thread[s].state
  <2>1. thread[s] \in Entry /\ Awake \in Chan /\ "RUNNABLE" \in State
    BY DEF TypeOK, State, Chan
  <2> DEFINE st == IF thread[s].state = "SLEEPING" THEN "RUNNABLE" ELSE thread[s].state
             e == thread[s]
  <2>2. thread'[s] = [thread[s] EXCEPT !.killed = TRUE, !.state = st, !.chan = Awake]
    BY <1>1, <1>3
  <2>3. st \in State
    BY <2>1 DEF Entry
  <2> HIDE DEF st
  <2>4. thread'[s] = [state |-> st, pid |-> e.pid, tid |-> e.tid, parent |-> e.parent, killed |-> TRUE,
                      chan |-> Awake, kstack |-> e.kstack, ustack |-> e.ustack, pgdir |-> e.pgdir,
                      sz |-> e.sz]
    BY <2>1, <2>2 DEF Entry
  <2>5. thread'[s] \in Entry
    BY <2>1, <2>3, <2>4 DEF Entry
  <2> QED BY <2>4, <2>5 DEF Stays, st
<1>4. \A s \in Slot : thread[s].pid # pid => thread'[s] = thread[s]
  BY <1>1
<1>5. \A s \in Slot : Stays(s) /\ thread'[s].parent = thread[s].parent
  BY <1>3, <1>4 DEF Stays
<1>6. \A s \in Slot : thread'[s].state = IF thread[s].pid = pid /\ thread[s].state = "SLEEPING" THEN "RUNNABLE"
                                         ELSE thread[s].state
  BY <1>3, <1>4
<1>7. \A s \in Slot : IF thread[s].pid = pid THEN thread'[s].killed
                      ELSE thread'[s].killed = thread[s].killed /\ thread'[s].chan = thread[s].chan
  BY <1>3, <1>4
<1>8. thread' \in [Slot -> Entry]
  BY <1>1, <1>3, <1>4 DEF TypeOK
<1>9. thread[initproc].pid # pid
  BY <1>1
<1>t. TypeOK'
  BY <1>2, <1>8 DEF TypeOK
<1>a. IdInv'
  BY <1>2, <1>5, <1>6 DEF IdInv, Used, Same, Stays
<1>b. InitInv'
  BY <1>2, <1>5, <1>6, Uses, <1>7, <1>9 DEF InitInv, Used, Same, Stays
<1>c. IdleInv'
  BY <1>2, <1>5, <1>6 DEF IdleInv, Used, Stays
<1>d. CpuInv'
  BY <1>2, <1>5, <1>6, Uses DEF CpuInv, TypeOK
<1>e. ForkInv'
  BY <1>2, <1>5, <1>6 DEF ForkInv, Forking, Stays
<1>f. JoinInv'
  BY <1>2, <1>5, <1>6, <1>7 DEF JoinInv, Same, TypeOK, Stays
<1>g. WaitInv'
  BY <1>2, <1>5, <1>6, <1>7 DEF WaitInv, Stays
<1>h. MainInv'
  BY <1>2, <1>5, <1>6 DEF MainInv, IsMain, Used, Same, Stays
<1>i. SpaceInv'
  BY <1>2, <1>5, <1>6 DEF SpaceInv, Used, Same, Stays
<1>j. PageInv'
  BY <1>2, <1>5, <1>6 DEF PageInv, Used, Stays
<1>k. ExecInv'
  BY <1>2, <1>5, <1>6 DEF ExecInv, Execing, Used, Same, Stays
<1> QED BY <1>t, <1>a, <1>b, <1>c, <1>d, <1>e, <1>f, <1>g, <1>h, <1>i, <1>j, <1>k

-----------------------------------------------------------------------------
(* exec and sbrk *)

\* exec() takes a page for the new directory.
LEMMA ExecCallInv ==
    ASSUME OneCpu, ThreadsInv, NEW p \in Slot, ExecCall(p)
    PROVE  ThreadsInv'
<1> USE DEF ThreadsInv
<1>0. /\ thread[p].state = "RUNNING" /\ pc[p] = "user" /\ p # initproc
  BY Runs DEF ExecCall, InProgram, InUser
<1>1. PICK k \in Heads(free, PgdirOf(p)) : free' = free \ {k} /\ arg' = [arg EXCEPT ![p] = k]
  BY DEF ExecCall
<1>2. k \in free /\ k \in Page /\ k # NoPage
  BY Kalloc, Uses
<1>3. pc' = [pc EXCEPT ![p] = "exec"] /\ UNCHANGED <<thread, cpu, made, nextpid, nexttid>>
  BY DEF ExecCall, Goto
<1>t. TypeOK'
  BY <1>0, <1>1, <1>2, <1>3 DEF TypeOK, Entry, State, Label
<1>a. IdInv'
  BY <1>0, <1>1, <1>2, <1>3 DEF IdInv, Used, Same
<1>b. InitInv'
  BY <1>0, <1>1, <1>2, <1>3, Uses DEF InitInv, Used, Same, TypeOK
<1>c. IdleInv'
  BY <1>0, <1>1, <1>2, <1>3 DEF IdleInv, Used, TypeOK
<1>d. CpuInv'
  BY <1>0, <1>1, <1>2, <1>3 DEF CpuInv, TypeOK
<1>e. ForkInv'
  BY <1>0, <1>1, <1>2, <1>3 DEF ForkInv, Forking, TypeOK
<1>f. JoinInv'
  BY <1>0, <1>1, <1>2, <1>3 DEF JoinInv, Same, TypeOK
<1>g. WaitInv'
  BY <1>0, <1>1, <1>2, <1>3 DEF WaitInv, TypeOK
<1>h. MainInv'
  BY <1>0, <1>1, <1>2, <1>3 DEF MainInv, IsMain, Used, Same
<1>i. SpaceInv'
  BY <1>0, <1>1, <1>2, <1>3 DEF SpaceInv, Used, Same
<1>j. PageInv'
  BY <1>0, <1>1, <1>2, <1>3 DEF PageInv, Used, TypeOK
<1>k. ExecInv'
  BY <1>0, <1>1, <1>2, <1>3 DEF ExecInv, Execing, Used, Same, TypeOK, PageInv
<1> QED BY <1>t, <1>a, <1>b, <1>c, <1>d, <1>e, <1>f, <1>g, <1>h, <1>i, <1>j, <1>k

\* exec() of a bad program gives the page back.
LEMMA ExecBadInv ==
    ASSUME OneCpu, ThreadsInv, NEW p \in Slot, ExecBad(p)
    PROVE  ThreadsInv'
<1> USE DEF ThreadsInv
<1>0. /\ thread[p].state = "RUNNING" /\ pc[p] = "exec" /\ arg[p] \in Page
  BY Runs DEF ExecBad, In, ExecInv, Execing
<1>1. /\ pc' = [pc EXCEPT ![p] = "user"] /\ arg' = [arg EXCEPT ![p] = Null]
      /\ free' = free \cup {arg[p]} /\ UNCHANGED <<thread, cpu, made, nextpid, nexttid>>
  BY DEF ExecBad, Goto
<1>t. TypeOK'
  BY <1>0, <1>1, Uses DEF TypeOK, Entry, State, Label
<1>a. IdInv'
  BY <1>0, <1>1 DEF IdInv, Used, Same
<1>b. InitInv'
  BY <1>0, <1>1, Uses DEF InitInv, Used, Same, TypeOK
<1>c. IdleInv'
  BY <1>0, <1>1 DEF IdleInv, Used, TypeOK
<1>d. CpuInv'
  BY <1>0, <1>1 DEF CpuInv, TypeOK
<1>e. ForkInv'
  BY <1>0, <1>1 DEF ForkInv, Forking, TypeOK
<1>f. JoinInv'
  BY <1>0, <1>1 DEF JoinInv, Same, TypeOK
<1>g. WaitInv'
  BY <1>0, <1>1 DEF WaitInv, TypeOK
<1>h. MainInv'
  BY <1>0, <1>1 DEF MainInv, IsMain, Used, Same
<1>i. SpaceInv'
  BY <1>0, <1>1 DEF SpaceInv, Used, Same
<1>j. PageInv'
  BY <1>0, <1>1 DEF PageInv, Used, TypeOK, ExecInv, Execing
<1>k. ExecInv'
  BY <1>0, <1>1 DEF ExecInv, Execing, Used, Same, TypeOK
<1> QED BY <1>t, <1>a, <1>b, <1>c, <1>d, <1>e, <1>f, <1>g, <1>h, <1>i, <1>j, <1>k

\* exec() ends the other threads of the process.
LEMMA ExecKillInv ==
    ASSUME OneCpu, ThreadsInv, NEW p \in Slot, ExecKill(p)
    PROVE  ThreadsInv'
<1> USE DEF ThreadsInv
<1> DEFINE others == {s \in Of(p) : thread[s].tid # thread[p].tid}
<1>0. /\ thread[p].state = "RUNNING" /\ pc[p] = "exec" /\ p # initproc /\ Used(p)
      /\ \A c \in Cpu : cpu[c] = p
  BY Runs DEF ExecKill, In, InitInv, Used
<1>1. \A s \in Slot : s \in others <=> s # p /\ Used(s) /\ Same(s, p)
  BY <1>0 DEF Of, Unused, Used, Same, IdInv
<1>2. /\ thread' = [s \in Slot |-> IF s \in others THEN [Reaped(thread[s]) EXCEPT !.tid = Null]
                                   ELSE thread[s]]
      /\ free' = free \cup {thread[s].kstack : s \in others}
      /\ made' = made \ Of(p)
      /\ pc' = [s \in Slot |-> IF s = p THEN "commit" ELSE IF s \in others THEN "user" ELSE pc[s]]
      /\ arg' = [s \in Slot |-> IF s \in others THEN Null ELSE arg[s]]
      /\ UNCHANGED <<cpu, nextpid, nexttid>>
  BY DEF ExecKill
<1>3. made' \in SUBSET made /\ p \notin made' /\ \A s \in Slot \ {p} : s \notin others => (s \in made <=> s \in made')
  BY <1>0, <1>1, <1>2 DEF Of, Unused, Used, Same, IdleInv
<1>4. \A s \in others : s \in Slot /\ s \notin made'
  BY <1>2 DEF Of
<1>5. ASSUME NEW s \in others
      PROVE  /\ thread'[s] \in Entry /\ thread'[s].state = "UNUSED"
             /\ thread'[s].kstack = NoPage /\ thread'[s].parent = Null /\ thread'[s].pid = Null
  <2>1. PICK r : r = Reaped(thread[s])
    OBVIOUS
  <2>2. /\ r \in Entry /\ r.state = "UNUSED" /\ r.kstack = NoPage /\ r.parent = Null /\ r.pid = Null
    BY <1>4, <2>1, ReapedEntry DEF TypeOK
  <2>3. thread'[s] = [r EXCEPT !.tid = Null]
    BY <1>2, <1>4, <2>1
  <2> QED BY <2>2, <2>3, Uses DEF Entry
<1>6. \A s \in Slot \ others : thread'[s] = thread[s]
  BY <1>2
<1>7. thread' \in [Slot -> Entry]
  BY <1>2, <1>4, <1>5, <1>6 DEF TypeOK
<1>8. PICK back \in SUBSET Page : /\ free' = free \cup back
                                  /\ \A g \in back : \E s \in others : g = thread[s].kstack
  <2> DEFINE back == {thread[s].kstack : s \in others}
  <2>1. \A s \in others : thread[s] \in Entry /\ thread[s].kstack # NoPage
    BY <1>0, <1>1, <1>4 DEF PageInv, TypeOK, IdInv, Used, Same
  <2>2. back \in SUBSET Page
    BY <2>1 DEF Entry
  <2> QED BY <1>2, <2>2
<1>9. /\ pc' = [s \in Slot |-> IF s = p THEN "commit" ELSE IF s \in others THEN "user" ELSE pc[s]]
      /\ arg' = [s \in Slot |-> IF s \in others THEN Null ELSE arg[s]]
      /\ UNCHANGED <<cpu, nextpid, nexttid>>
      /\ p \notin others /\ Used(p)
  BY <1>0, <1>1, <1>2
<1>10. \A s \in others : Used(s) /\ Same(s, p) /\ s # p /\ s # initproc
  BY <1>0, <1>1, <1>4, Uses DEF InitInv, Same
<1>11. \A s \in others, t \in Slot : Used(t) /\ Same(s, t) => t \in others \/ t = p
  BY <1>1, <1>4, <1>10 DEF Same
<1>12. \A s \in Slot : Used(s)' => s \notin others /\ Used(s) /\ thread'[s] = thread[s]
  BY <1>5, <1>6 DEF Used
<1> HIDE DEF others
<1>t. TypeOK'
  <2>1. free' \in SUBSET Page /\ made' \in SUBSET Slot
    BY <1>3, <1>8 DEF TypeOK
  <2> QED BY <1>7, <1>9, <2>1 DEF TypeOK, Label
<1>a. IdInv'
  <2>1. \A s \in Slot : thread'[s].pid < nextpid
    <3>1. Null < nextpid
      <4>1. thread[p].pid \in Nat /\ thread[p].pid < nextpid /\ nextpid \in Nat
        BY DEF IdInv, TypeOK, Entry
      <4> QED BY <4>1 DEF Null
    <3> QED BY <1>5, <1>6, <3>1 DEF IdInv
  <2> QED BY <1>9, <1>12, <2>1 DEF IdInv, Same
<1>b. InitInv'
  BY <1>0, <1>3, <1>4, <1>5, <1>6, <1>9, <1>10, Uses DEF InitInv, Used, Same, TypeOK
<1>c. IdleInv'
  <2> SUFFICES ASSUME NEW s \in Slot
               PROVE  /\ thread'[s].state \in {"UNUSED", "EMBRYO", "ZOMBIE"} => pc'[s] = "user"
                      /\ pc'[s] \in {"user", "exit", "wait"} => arg'[s] = Null
                      /\ thread'[s].state \in {"UNUSED", "EMBRYO"} => s \notin made'
                      /\ thread'[s].state = "UNUSED" => thread'[s].kstack = NoPage /\ thread'[s].parent = Null
    BY DEF IdleInv, Used
  <2>1. CASE s \in others
    BY <1>4, <1>5, <1>9, <1>10, <2>1
  <2>2. CASE s \notin others
    BY <1>0, <1>3, <1>6, <1>9, <2>2 DEF IdleInv, Used
  <2> QED BY <2>1, <2>2
<1>d. CpuInv'
  BY <1>0, <1>6, <1>9 DEF CpuInv, TypeOK
<1>e. ForkInv'
  <2>1. ASSUME NEW q \in Slot, Forking(q)'
        PROVE  /\ Forking(q) /\ pc'[q] = pc[q] /\ arg'[q] = arg[q] /\ arg[q] \in Slot
               /\ thread'[arg[q]] = thread[arg[q]]
    <3>1. q \notin others /\ Forking(q) /\ pc'[q] = pc[q] /\ arg'[q] = arg[q]
      BY <1>9, <2>1 DEF Forking
    <3>2. arg[q] \in Slot /\ thread[arg[q]].state = "EMBRYO"
      BY <3>1 DEF ForkInv
    <3>3. arg[q] \notin others
      BY <1>0, <1>10, <3>2 DEF IdInv
    <3> QED BY <1>6, <3>1, <3>2, <3>3
  <2> QED BY <2>1 DEF ForkInv, Forking
<1>f. JoinInv'
  <2>1. ASSUME NEW q \in Slot, pc'[q] = "join"
        PROVE  /\ pc[q] = "join" /\ arg'[q] = arg[q] /\ arg[q] \in Slot /\ arg[q] \in made'
               /\ thread'[q] = thread[q] /\ thread'[arg[q]] = thread[arg[q]]
    <3>1. pc[q] = "join" /\ arg'[q] = arg[q] /\ q \notin others /\ q # p
      BY <1>9, <2>1
    <3>2. arg[q] \in made /\ arg[q] \in Slot /\ Same(q, arg[q]) /\ Used(q) /\ Used(arg[q])
      <4>1. arg[q] \in made /\ Same(arg[q], q)
        BY <3>1 DEF JoinInv
      <4>2. arg[q] \in Slot
        BY <4>1 DEF TypeOK
      <4>3. Used(q)
        BY <3>1 DEF IdleInv, Used
      <4>4. Used(arg[q])
        BY <4>1, <4>2 DEF IdleInv, Used
      <4> QED BY <4>1, <4>2, <4>3, <4>4 DEF Same
    <3>3. arg[q] \in Slot /\ arg[q] \notin others
      BY <1>11, <3>1, <3>2 DEF TypeOK, Same
    <3>4. arg[q] # p
      BY <1>1, <3>1, <3>2 DEF Same
    <3> QED BY <1>3, <1>6, <3>1, <3>2, <3>3, <3>4
  <2> QED BY <2>1 DEF JoinInv, Same
<1>g. WaitInv'
  <2> SUFFICES ASSUME NEW q \in Slot, thread'[q].state = "SLEEPING"
               PROVE  /\ pc'[q] \in {"join", "wait"}
                      /\ pc'[q] = "wait" => /\ thread'[q].chan = SlotChan(q)
                                            /\ \E s \in Slot : thread'[s].parent = q /\ thread'[s].state # "ZOMBIE"
    BY DEF WaitInv
  <2>1. q # p /\ thread'[q] = thread[q] /\ pc'[q] = pc[q]
    BY <1>0, <1>5, <1>6, <1>9
  <2>2. ASSUME NEW s \in Slot, thread[s].parent = q, thread[s].state # "ZOMBIE"
        PROVE  \E u \in Slot : thread'[u].parent = q /\ thread'[u].state # "ZOMBIE"
    <3>1. CASE s \in others
      <4>1. thread[p].parent = q
        BY <1>9, <1>10, <2>2, <3>1 DEF SpaceInv
      <4> QED BY <1>0, <1>6, <1>9, <4>1
    <3>2. CASE s \notin others
      BY <1>6, <2>2, <3>2
    <3> QED BY <3>1, <3>2
  <2> QED BY <2>1, <2>2 DEF WaitInv
<1>h. MainInv'
  <2> SUFFICES ASSUME NEW s \in Slot, Used(s)' PROVE \E m \in Slot : IsMain(m, s)'
    BY DEF MainInv
  <2>1. s \notin others /\ Used(s) /\ thread'[s] = thread[s]
    BY <1>12
  <2>2. CASE s = p
    BY <1>0, <1>3, <2>1, <2>2 DEF IsMain, Used, Same
  <2>3. CASE s # p
    <3>1. PICK m \in Slot : IsMain(m, s)
      BY <2>1 DEF MainInv
    <3>2. m \notin others /\ m \notin made'
      BY <1>3, <1>11, <2>1, <2>3, <3>1 DEF IsMain, Same
    <3>3. thread'[m] = thread[m]
      BY <1>6, <3>2
    <3> QED BY <2>1, <3>1, <3>2, <3>3 DEF IsMain, Used, Same
  <2> QED BY <2>2, <2>3
<1>i. SpaceInv'
  BY <1>12 DEF SpaceInv, Same
<1>j. PageInv'
  <2>1. ASSUME NEW s \in Slot, Used(s), s \notin others
        PROVE  thread[s].kstack \notin free' /\ thread[s].pgdir \notin free'
    <3>1. \A k \in others : thread[k].kstack # NoPage
      BY <1>0, <1>4, <1>10 DEF PageInv, IdInv
    <3> QED BY <1>4, <1>8, <1>10, <2>1, <3>1 DEF PageInv
  <2> QED BY <1>12, <2>1 DEF PageInv
<1>k. ExecInv'
  <2>1. ASSUME NEW q \in Slot, Execing(q)'
        PROVE  Execing(q) /\ arg'[q] = arg[q] /\ thread'[q] = thread[q] /\ (q # p => pc'[q] = pc[q])
               /\ q \notin others
    BY <1>0, <1>6, <1>9, <2>1 DEF Execing
  <2>2. ASSUME NEW q \in Slot, Execing(q) PROVE arg[q] \in Page \ free'
    BY <1>4, <1>8, <1>10, <2>2 DEF ExecInv
  <2>3. \A s \in Slot : Used(s)' /\ Same(s, p)' => s = p
    BY <1>1, <1>6, <1>9, <1>12 DEF Same
  <2> QED BY <2>1, <2>2, <2>3, <1>12 DEF ExecInv, Same, Execing
<1> QED BY <1>t, <1>a, <1>b, <1>c, <1>d, <1>e, <1>f, <1>g, <1>h, <1>i, <1>j, <1>k

\* exec() changes directories, and nobody is in the old one any more.
LEMMA ExecDoneInv ==
    ASSUME OneCpu, ThreadsInv, NEW p \in Slot, ExecDone(p)
    PROVE  ThreadsInv'
<1> USE DEF ThreadsInv
<1>0. /\ thread[p].state = "RUNNING" /\ pc[p] = "commit" /\ p # initproc /\ Used(p)
  BY Runs DEF ExecDone, In, InitInv, Used
<1>1. PICK k \in Page, d \in Page :
        /\ k = arg[p] /\ d = thread[p].pgdir /\ k # d /\ k # NoPage /\ d # NoPage /\ k \notin free
        /\ \A s \in Slot : Used(s) => thread[s].kstack # k /\ thread[s].pgdir # k
        /\ \A s \in Slot : Used(s) /\ Same(s, p) => s = p
  BY <1>0, Uses DEF ExecInv, Execing, PageInv, TypeOK, Entry
<1>2. /\ thread' = [thread EXCEPT ![p] = [@ EXCEPT !.pgdir = k, !.sz = 1, !.ustack = 1]]
      /\ pc' = [pc EXCEPT ![p] = "user"] /\ arg' = [arg EXCEPT ![p] = Null]
      /\ free' = free \cup {d} /\ UNCHANGED <<cpu, made, nextpid, nexttid>>
  BY <1>1 DEF ExecDone, Goto
<1>3. /\ thread[p] \in Entry /\ thread'[p] = [thread[p] EXCEPT !.pgdir = k, !.sz = 1, !.ustack = 1]
      /\ \A s \in Slot \ {p} : thread'[s] = thread[s]
  BY <1>2 DEF TypeOK
<1>4. thread' \in [Slot -> Entry]
  <2>1. thread'[p] \in Entry
    <3>1. thread'[p] = [state |-> thread[p].state, pid |-> thread[p].pid, tid |-> thread[p].tid,
                        parent |-> thread[p].parent, killed |-> thread[p].killed, chan |-> thread[p].chan,
                        kstack |-> thread[p].kstack, ustack |-> 1, pgdir |-> k, sz |-> 1]
      BY <1>3 DEF Entry
    <3>2. k \in Page
      BY <1>1
    <3> QED BY <1>3, <3>1, <3>2 DEF Entry
  <2> QED BY <1>2, <2>1 DEF TypeOK
<1>5. /\ thread'[p].pgdir = k /\ thread'[p].state = "RUNNING" /\ thread'[p].parent = thread[p].parent
      /\ thread'[p].pid = thread[p].pid /\ thread'[p].tid = thread[p].tid
      /\ thread'[p].killed = thread[p].killed /\ thread'[p].kstack = thread[p].kstack
      /\ \A s \in Slot \ {p} : thread'[s] = thread[s]
  BY <1>0, <1>3 DEF Entry
<1>6. /\ pc' = [pc EXCEPT ![p] = "user"] /\ arg' = [arg EXCEPT ![p] = Null]
      /\ free' = free \cup {d} /\ UNCHANGED <<cpu, made, nextpid, nexttid>>
  BY <1>2
<1>t. TypeOK'
  BY <1>4, <1>6, Uses DEF TypeOK, Label
<1>a. IdInv'
  BY <1>0, <1>1, <1>5, <1>6 DEF IdInv, Used, Same
<1>b. InitInv'
  BY <1>0, <1>1, <1>5, <1>6, Uses DEF InitInv, Used, Same, TypeOK
<1>c. IdleInv'
  BY <1>0, <1>1, <1>5, <1>6 DEF IdleInv, Used, TypeOK
<1>d. CpuInv'
  BY <1>0, <1>1, <1>5, <1>6 DEF CpuInv, TypeOK
<1>e. ForkInv'
  BY <1>0, <1>1, <1>5, <1>6 DEF ForkInv, Forking, TypeOK
<1>f. JoinInv'
  BY <1>0, <1>1, <1>5, <1>6 DEF JoinInv, Same, TypeOK
<1>g. WaitInv'
  BY <1>0, <1>1, <1>5, <1>6 DEF WaitInv, TypeOK
<1>h. MainInv'
  BY <1>0, <1>1, <1>5, <1>6 DEF MainInv, IsMain, Used, Same
<1>i. SpaceInv'
  BY <1>0, <1>1, <1>5, <1>6 DEF SpaceInv, Used, Same
<1>j. PageInv'
  BY <1>0, <1>1, <1>5, <1>6 DEF PageInv, Used, SpaceInv
<1>k. ExecInv'
  BY <1>0, <1>1, <1>5, <1>6 DEF ExecInv, Execing, Used, Same, TypeOK
<1> QED BY <1>t, <1>a, <1>b, <1>c, <1>d, <1>e, <1>f, <1>g, <1>h, <1>i, <1>j, <1>k

\* sbrk() gives all threads of the process the new size.
LEMMA SbrkInv ==
    ASSUME ThreadsInv, NEW p \in Slot, Sbrk(p)
    PROVE  ThreadsInv'
<1> USE DEF ThreadsInv
<1>1. PICK sz \in Sizes(p) :
        thread' = [s \in Slot |-> IF s \in Of(p) THEN [thread[s] EXCEPT !.sz = sz] ELSE thread[s]]
  BY DEF Sbrk
<1>2. sz \in Nat
  BY Uses DEF Sizes
<1>3. ASSUME NEW s \in Slot
      PROVE  /\ thread'[s] \in Entry
             /\ thread'[s].state = thread[s].state /\ thread'[s].parent = thread[s].parent
             /\ thread'[s].chan = thread[s].chan
             /\ thread'[s].pid = thread[s].pid /\ thread'[s].tid = thread[s].tid
             /\ thread'[s].killed = thread[s].killed /\ thread'[s].kstack = thread[s].kstack
             /\ thread'[s].pgdir = thread[s].pgdir
             /\ thread'[s].sz = IF s \in Of(p) THEN sz ELSE thread[s].sz
  <2>1. thread'[s] = IF s \in Of(p) THEN [thread[s] EXCEPT !.sz = sz] ELSE thread[s]
    BY <1>1
  <2> QED BY <1>2, <2>1 DEF Entry, TypeOK
<1>4. thread' \in [Slot -> Entry]
  BY <1>1, <1>3
<1>5. UNCHANGED <<free, cpu, pc, arg, made, nextpid, nexttid>>
  BY DEF Sbrk
<1>6. \A s \in Slot : Used(s) => (s \in Of(p) <=> Same(s, p))
  BY DEF Of, Unused, Used, Same
<1>t. TypeOK'
  BY <1>4, <1>5 DEF TypeOK
<1>a. IdInv'
  BY <1>3, <1>5 DEF IdInv, Used, Same
<1>b. InitInv'
  BY <1>3, <1>5, Uses DEF InitInv, Used, Same
<1>c. IdleInv'
  BY <1>3, <1>5 DEF IdleInv, Used
<1>d. CpuInv'
  BY <1>3, <1>5, Uses DEF CpuInv, TypeOK
<1>e. ForkInv'
  BY <1>3, <1>5 DEF ForkInv, Forking
<1>f. JoinInv'
  BY <1>3, <1>5 DEF JoinInv, Same, TypeOK
<1>g. WaitInv'
  BY <1>3, <1>5 DEF WaitInv
<1>h. MainInv'
  BY <1>3, <1>5 DEF MainInv, IsMain, Used, Same
<1>i. SpaceInv'
  BY <1>3, <1>5, <1>6 DEF SpaceInv, Used, Same
<1>j. PageInv'
  BY <1>3, <1>5 DEF PageInv, Used
<1>k. ExecInv'
  BY <1>3, <1>5 DEF ExecInv, Execing, Used, Same
<1> QED BY <1>t, <1>a, <1>b, <1>c, <1>d, <1>e, <1>f, <1>g, <1>h, <1>i, <1>j, <1>k

-----------------------------------------------------------------------------
(* The specification. *)

LEMMA InitThreads == Init => ThreadsInv
<1> SUFFICES ASSUME Init PROVE ThreadsInv
  OBVIOUS
<1>1. PICK k \in Heads(Page, KstackOf(initproc)) : \E d \in Heads(Page \ {k}, PgdirOf(initproc)) :
         /\ thread = [s \in Slot |->
                        IF s # initproc THEN Blank
                        ELSE [Blank EXCEPT !.state = "RUNNABLE", !.pid = 1, !.tid = 1,
                                           !.kstack = k, !.ustack = 1, !.pgdir = d, !.sz = 1]]
         /\ free = Page \ {k, d}
  BY DEF Init
<1>2. PICK d \in Heads(Page \ {k}, PgdirOf(initproc)) :
         /\ thread = [s \in Slot |->
                        IF s # initproc THEN Blank
                        ELSE [Blank EXCEPT !.state = "RUNNABLE", !.pid = 1, !.tid = 1,
                                           !.kstack = k, !.ustack = 1, !.pgdir = d, !.sz = 1]]
         /\ free = Page \ {k, d}
  BY <1>1
<1>3. /\ k \in Page /\ d \in Page /\ d # k /\ k # NoPage /\ d # NoPage
  BY Uses, ThreadsAssumption
<1>4. /\ cpu = [c \in Cpu |-> Null] /\ pc = [s \in Slot |-> "user"] /\ arg = [s \in Slot |-> Null]
      /\ made = {} /\ nextpid = 2 /\ nexttid = 2
  BY DEF Init
<1>5. Blank \in Entry /\ "RUNNABLE" \in State
  <2>1. "UNUSED" \in State /\ Awake \in Chan
    BY DEF State, Chan
  <2> QED BY <2>1, Uses DEF Blank, Entry, State
<1>6. \A s \in Slot \ {initproc} : thread[s] = Blank
  BY <1>2
<1>7. thread[initproc] = [state |-> "RUNNABLE", pid |-> 1, tid |-> 1, parent |-> Null, killed |-> FALSE,
                          chan |-> Awake, kstack |-> k, ustack |-> 1, pgdir |-> d, sz |-> 1]
  BY <1>2, Uses DEF Blank
<1>8. thread[initproc] \in Entry
  <2>1. Awake \in Chan
    BY DEF Chan
  <2> QED BY <1>3, <1>5, <1>7, <2>1, Uses DEF Entry
<1>9. thread \in [Slot -> Entry]
  BY <1>2, <1>5, <1>6, <1>8
<1>10. /\ thread[initproc].state = "RUNNABLE" /\ thread[initproc].pid = 1 /\ thread[initproc].tid = 1
       /\ thread[initproc].parent = Null /\ thread[initproc].killed = FALSE
       /\ thread[initproc].kstack = k /\ thread[initproc].pgdir = d
  BY <1>7
<1>11. \A s \in Slot \ {initproc} :
         thread[s].state = "UNUSED" /\ thread[s].pid = 0 /\ thread[s].kstack = NoPage /\ thread[s].parent = Null
  BY <1>6 DEF Blank, Null
<1>t. TypeOK
  BY <1>2, <1>4, <1>9, Uses DEF TypeOK, Label
<1>a. IdInv
  BY <1>4, <1>10, <1>11 DEF IdInv, Used, Same
<1>b. InitInv
  BY <1>4, <1>10, <1>11, Uses DEF InitInv, Used, Same
<1>c. IdleInv
  BY <1>4, <1>10, <1>11 DEF IdleInv, Used
<1>d. CpuInv
  BY <1>4 DEF CpuInv
<1>e. ForkInv
  BY <1>4 DEF ForkInv, Forking
<1>f. JoinInv
  BY <1>4 DEF JoinInv
<1>g. WaitInv
  BY <1>10, <1>11 DEF WaitInv
<1>h. MainInv
  BY <1>4, <1>10, <1>11, Uses DEF MainInv, IsMain, Used, Same
<1>i. SpaceInv
  BY <1>10, <1>11 DEF SpaceInv, Used, Same
<1>j. PageInv
  BY <1>2, <1>3, <1>10, <1>11 DEF PageInv, Used
<1>k. ExecInv
  BY <1>4 DEF ExecInv, Execing
<1> QED BY <1>t, <1>a, <1>b, <1>c, <1>d, <1>e, <1>f, <1>g, <1>h, <1>i, <1>j, <1>k DEF ThreadsInv

LEMMA NextThreads == ASSUME OneCpu, ThreadsInv, [Next]_vars PROVE ThreadsInv'
<1>1. ASSUME NEW p \in Slot, ThreadStep(p) PROVE ThreadsInv'
  BY <1>1, ThreadCreateInv, ThreadExitInv, JoinZombieInv, JoinSleepInv, JoinWokenInv,
     ForkSlotInv, ForkKstackInv, ForkCopyFailsInv, ForkCopyInv, ForkDoneInv,
     ExitCallInv, ExitInv, WaitReapInv, WaitFailInv, WaitSleepInv, KillInv,
     ExecCallInv, ExecBadInv, ExecKillInv, ExecDoneInv, SbrkInv DEF ThreadStep
<1>2. ASSUME NEW p \in Slot, Yield(p) PROVE ThreadsInv'
  BY <1>2, YieldInv
<1>3. ASSUME NEW p \in Slot, NEW c \in Cpu, Scheduler(c, p) PROVE ThreadsInv'
  BY <1>3, SchedulerInv
<1>4. CASE UNCHANGED vars
  BY <1>4 DEF vars, ThreadsInv, TypeOK, IdInv, InitInv, IdleInv, CpuInv, ForkInv, JoinInv, WaitInv,
              MainInv, SpaceInv, PageInv, ExecInv, Used, Same, Forking, IsMain, Execing
<1> QED BY <1>1, <1>2, <1>3, <1>4 DEF Next

\* On one processor, slots, stacks, directories and sleepers of the process table fit
\* together (ThreadsInv) whatever is preempted in the middle of fork(), exec() or exit().
THEOREM ThreadsInvariant == ASSUME OneCpu PROVE Spec => []ThreadsInv
<1>1. ThreadsInv /\ [Next]_vars => ThreadsInv'
  BY NextThreads
<1> QED BY <1>1, InitThreads, PTL DEF Spec

\* No kernel stack and no page directory is free while a thread has it, and no two
\* threads share a stack (MemoryOwned).
THEOREM Owned == ASSUME OneCpu PROVE Spec => []MemoryOwned
<1>1. ThreadsInv => MemoryOwned
  <2> SUFFICES ASSUME ThreadsInv PROVE MemoryOwned
    OBVIOUS
  <2>1. \A s \in Slot : (s \in Live <=> Used(s)) /\ (s \in Unused <=> ~Used(s))
    BY DEF Live, Unused, Used
  <2>2. Live \in SUBSET Slot /\ Unused \in SUBSET Slot
    BY DEF Live, Unused
  <2>3. StacksOwned
    BY <2>1, <2>2 DEF ThreadsInv, StacksOwned, PageInv, IdleInv
  <2>4. \A s \in Live : thread[s].pgdir \in Page \cup {NoPage}
    BY <2>2 DEF ThreadsInv, TypeOK, Entry
  <2>5. PgdirLive
    BY <2>1, <2>2, <2>4 DEF ThreadsInv, PgdirLive, PageInv
  <2> QED BY <2>3, <2>5 DEF MemoryOwned
<1> QED BY <1>1, ThreadsInvariant, PTL

\* The threads of a process share one address space, one size and one parent, and no
\* thread of another process is in it (OneAddressSpace).
THEOREM OneSpace == ASSUME OneCpu PROVE Spec => []OneAddressSpace
<1>1. ThreadsInv => OneAddressSpace
  <2> SUFFICES ASSUME ThreadsInv, NEW s \in Live, NEW t \in Live,
                      thread[s].state # "EMBRYO", thread[t].state # "EMBRYO"
               PROVE  IF thread[s].pid = thread[t].pid
                      THEN thread[s].pgdir = thread[t].pgdir /\ thread[s].sz = thread[t].sz
                           /\ thread[s].parent = thread[t].parent
                      ELSE thread[s].pgdir # thread[t].pgdir
    BY DEF OneAddressSpace
  <2>1. s \in Slot /\ t \in Slot /\ Used(s) /\ Used(t)
    BY DEF Live, Unused, Used
  <2>2. thread[s].pgdir # NoPage
    BY <2>1 DEF ThreadsInv, PageInv
  <2> QED BY <2>1, <2>2 DEF ThreadsInv, SpaceInv, Same
<1> QED BY <1>1, ThreadsInvariant, PTL

\* Nobody sleeps in thread_join() for a thread that has ended, nor in wait() with only
\* zombies left (SleepersWoken): the main thread of a process outlives the others.
THEOREM NoneOversleeps == ASSUME OneCpu PROVE Spec => []SleepersWoken
<1>1. ThreadsInv => SleepersWoken
  <2> SUFFICES ASSUME ThreadsInv, NEW p \in Live, thread[p].state = "SLEEPING"
               PROVE  /\ pc[p] = "join" => thread[arg[p]].state \notin {"ZOMBIE", "UNUSED"}
                      /\ pc[p] = "wait" => \E s \in Children(p) : thread[s].state # "ZOMBIE"
    BY DEF SleepersWoken
  <2>1. p \in Slot
    BY DEF Live
  <2>2. pc[p] = "join" => thread[arg[p]].state \notin {"ZOMBIE", "UNUSED"}
    BY <2>1 DEF ThreadsInv, JoinInv, IdleInv, TypeOK
  <2>3. pc[p] = "wait" => \E s \in Children(p) : thread[s].state # "ZOMBIE"
    BY <2>1 DEF ThreadsInv, WaitInv, Children
  <2> QED BY <2>2, <2>3
<1> QED BY <1>1, ThreadsInvariant, PTL

\* thread_join(), which sleeps without a loop, goes on only when the thread it joins has
\* ended or its own process is killed (JoinAfterEnd).
THEOREM JoinsAfterEnd == ASSUME OneCpu PROVE Spec => JoinAfterEnd
<1>1. ThreadsInv /\ [Next]_vars =>
        [\A p \in Slot : JoinWoken(p) => thread[p].killed \/ thread[arg[p]].state = "ZOMBIE"]_vars
  <2> SUFFICES ASSUME ThreadsInv, NEW p \in Slot, JoinWoken(p)
               PROVE  thread[p].killed \/ thread[arg[p]].state = "ZOMBIE"
    OBVIOUS
  <2>1. pc[p] = "join" /\ thread[p].state = "RUNNING"
    BY Runs DEF JoinWoken, In, ThreadsInv
  <2> QED BY <2>1 DEF ThreadsInv, JoinInv
<1> QED BY <1>1, ThreadsInvariant, PTL DEF Spec, JoinAfterEnd
=============================================================================
