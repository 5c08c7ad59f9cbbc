-------------------------------- MODULE Mlfq --------------------------------
(***************************************************************************)
(* The multi-level feedback queue scheduler of project 2 (proc.c and       *)
(* ex_syscall.c): the queues of struct mlfq and the monopoly queue moq,    *)
(* the scheduler loop of every CPU, and the system calls that touch them.  *)
(*                                                                         *)
(* ptable.lock protects all of it, so an action is one critical section of *)
(* that lock.  A process that gives its CPU up keeps the lock through      *)
(* sched(), and the scheduler does its accounting before it lets go: the   *)
(* two are one action.  An access through a null pointer or outside an     *)
(* array is no defined step: the model sets "wild" and stops.              *)
(*                                                                         *)
(* A definition marked "Slip" is no part of the specification: it is a     *)
(* plausible mistake in the definition below it, kept to show that the     *)
(* properties would see it.                                                *)
(***************************************************************************)
EXTENDS Integers, Sequences, FiniteSets, SequencesExt, FiniteSetsExt

CONSTANTS
    NPROC,           \* slots of ptable.proc, and capacity of a queue
    Cpu,
    TimeQuantum(_),  \* mlfq.time_quantum; proc_queue_init makes it 2 * l + 2
    BoostPeriod,     \* 100 in scheduler()
    Calls,           \* what the programs of an instance do
    Priorities,      \* arguments of setpriority
    MaxPid           \* bound on nextpid

ASSUME MlfqAssumption ==
    /\ NPROC \in Nat \ {0} /\ MaxPid \in Nat \ {0}
    /\ BoostPeriod \in Nat \ {0}
    /\ \A l \in 0 .. 3 : TimeQuantum(l) \in Nat \ {0}
    /\ Priorities \subseteq 0 .. 10
    /\ Calls \subseteq {"fork", "nomem", "exit", "kill", "wait", "waitlast", "sleep",
                        "setpriority", "setmonopoly", "monopolize", "unmonopolize"}

Proc == 1 .. NPROC
initproc == 1
Null == 0
NoCpu == "none"
MonopolyLevel == 99

VARIABLES
    state, pid, parent, killed, \* struct proc
    level, quantum, priority,   \* p->level, p->time_quantum, p->priority
    pc,        \* "user", or the system call a process is in the middle of
    child,     \* np of fork()
    nextpid,
    queue,     \* mlfq.queues
    moq,       \* its processes; its left-over cells are never read
    ticks,     \* mlfq.ticks
    blocked,   \* mlfq.is_blocked
    cpu,       \* c->proc
    holder,    \* the CPU whose process woke up inside wait(), with ptable.lock
    wild       \* an undefined access has happened

table == <<state, pid, parent, killed>>
class == <<level, quantum, priority>>
queues == <<queue, moq>>
clock == <<ticks, blocked>>
vars == <<table, class, pc, child, nextpid, queues, clock, cpu, holder, wild>>

PState == {"UNUSED", "EMBRYO", "SLEEPING", "RUNNABLE", "RUNNING", "ZOMBIE"}

-----------------------------------------------------------------------------
(* The circular queues of L0, L1 and L2.  cells[1] is the slot after front;  *)
(* what lies behind the first size cells is left over from earlier contents, *)
(* and mlfq_delete does look at it.                                          *)

EmptyRing == [cells |-> [i \in 1 .. NPROC + 1 |-> Null], size |-> 0]
RingItems(r) == SubSeq(r.cells, 1, r.size)

\* The processes of s appended, as far as there is room.
RingPut(r, s) ==
    LET n == Min({Len(s), NPROC - r.size})
    IN  [cells |-> RingItems(r) \o SubSeq(s, 1, n)
                   \o SubSeq(r.cells, r.size + n + 1, NPROC + 1),
         size |-> r.size + n]

\* Only wait and setmonopoly look at what is left over: an instance whose
\* programs make neither call forgets it.
Stale(r, n) == IF Calls \cap {"wait", "waitlast", "setmonopoly"} # {} THEN SubSeq(r.cells, 1, n)
               ELSE [i \in 1 .. n |-> Null]
RingDrop(r, n) == [cells |-> SubSeq(r.cells, n + 1, NPROC + 1) \o Stale(r, n),
                   size |-> r.size - n]

(* The priority queue of L3: a heap whose children of i are 2i and 2i + 1.   *)

Swap(h, i, j) == [h EXCEPT ![i] = h[j], ![j] = h[i]]

\* A new element climbs over those of lower priority.
HeapPut(h, pri, p) ==
    LET climb[g \in Seq(Proc), i \in Nat] ==
          IF i > 1 /\ pri[g[i \div 2]] < pri[g[i]]
          THEN climb[Swap(g, i, i \div 2), i \div 2]
          ELSE g
    IN  climb[Append(h, p), Len(h) + 1]

\* The larger child, the left one when they are equal.
Larger(h, pri, i) ==
    IF 2 * i < Len(h) /\ pri[h[2 * i]] < pri[h[2 * i + 1]] THEN 2 * i + 1 ELSE 2 * i

\* The root is taken, and the last element sinks from there under those of
\* higher priority.
HeapDrop(h, pri) ==
    LET sink[g \in Seq(Proc), i \in Nat] ==
          IF 2 * i <= Len(g) /\ pri[g[i]] < pri[g[Larger(g, pri, i)]]
          THEN sink[Swap(g, i, Larger(g, pri, i)), Larger(g, pri, i)]
          ELSE g
    IN  IF Len(h) = 1 THEN <<>>
        ELSE sink[<<h[Len(h)]>> \o SubSeq(h, 2, Len(h) - 1), 1]

\* The elements of s put into the heap in turn, until it is full.
HeapPutAll(h, pri, s) ==
    LET put[g \in Seq(Proc), k \in Nat] ==
          IF k > Len(s) \/ Len(g) = NPROC THEN g ELSE put[HeapPut(g, pri, s[k]), k + 1]
    IN  put[h, 1]

\* What n removals return, and what they leave.
HeapTaken(h, pri, n) ==
    LET taken[g \in Seq(Proc), k \in Nat] ==
          IF k = 0 THEN <<>> ELSE <<Head(g)>> \o taken[HeapDrop(g, pri), k - 1]
    IN  taken[h, n]
HeapLeft(h, pri, n) ==
    LET left[g \in Seq(Proc), k \in Nat] ==
          IF k = 0 THEN g ELSE left[HeapDrop(g, pri), k - 1]
    IN  left[h, n]

-----------------------------------------------------------------------------
(* mlfq.queues: Q is its value, pri the priorities at that moment. *)

Items(Q, l) == IF l = 3 THEN Q[3] ELSE RingItems(Q[l])
IsFull(Q, l) == Len(Items(Q, l)) = NPROC

\* mlfq_enqueue() on one queue, of the processes of s in turn; a full queue is
\* left as it is.
Filled(q, pri, s, l) == IF l = 3 THEN HeapPutAll(q, pri, s) ELSE RingPut(q, s)
Enqueue(Q, pri, s, l) == [Q EXCEPT ![l] = Filled(@, pri, s, l)]

\* ... each process in the queue of its level.
EnqueueByLevel(Q, pri, s, lev) ==
    LET Own(l) == SelectSeq(s, LAMBDA p : lev[p] = l)
    IN  [Q EXCEPT ![0] = Filled(@, pri, Own(0), 0), ![1] = Filled(@, pri, Own(1), 1),
                  ![2] = Filled(@, pri, Own(2), 2), ![3] = Filled(@, pri, Own(3), 3)]

\* What n times mlfq_dequeue() returns, in order, and what it leaves.
Taken(Q, pri, l, n) ==
    IF l = 3 THEN HeapTaken(Q[3], pri, n)
    ELSE SubSeq(Q[l].cells, 1, n)
Left(Q, pri, l, n) ==
    [Q EXCEPT ![l] = IF l = 3 THEN HeapLeft(@, pri, n) ELSE RingDrop(@, n)]

\* A queue emptied.
All(Q, pri, l) == Taken(Q, pri, l, Len(Items(Q, l)))
Emptied(Q, pri, l) == Left(Q, pri, l, Len(Items(Q, l)))

\* The cells mlfq_delete() looks through; in an empty ring it stops only when
\* it has seen every cell.  (A null cell reads user code at address 0, which
\* holds no pid.)
Scanned(Q, l) == IF l < 3 /\ Q[l].size = 0 THEN Q[l].cells ELSE Items(Q, l)
HasPid(p, x) == p # Null /\ pid[p] = x
FoundAt(Q, x) ==
    {l \in 0 .. 3 : \E i \in DOMAIN Scanned(Q, l) : HasPid(Scanned(Q, l)[i], x)}

\* The slot mlfq_delete() returns.
Target(Q, x) ==
    LET s == Scanned(Q, Min(FoundAt(Q, x)))
    IN  s[Min({i \in DOMAIN s : HasPid(s[i], x)})]

\* What mlfq_delete() fills the queue it found x in with again.
Kept(Q, x) == SelectSeq(All(Q, priority, Min(FoundAt(Q, x))), LAMBDA p : pid[p] # x)

\* mlfq_delete(): the queue it found x in is emptied and filled again.
Delete(Q, x) ==
    IF FoundAt(Q, x) = {} THEN Q
    ELSE EnqueueByLevel(Emptied(Q, priority, Min(FoundAt(Q, x))), priority, Kept(Q, x), level)

\* A level no queue has is an index outside mlfq.queues.
BadLevel(s) == \E i \in DOMAIN s : level[s[i]] \notin 0 .. 3
DeleteIsWild(Q, x) == FoundAt(Q, x) # {} /\ BadLevel(Kept(Q, x))

\* mlfq_remake_priority_queue()
Remade(Q, pri) == Enqueue(Emptied(Q, pri, 3), pri, All(Q, pri, 3), 3)

\* Slip: the scan ends before L3.
FindAtRings(acc, l) ==
    IF acc.ret # Null \/ l = 3 \/ Items(acc.Q, l) = <<>> THEN acc
    ELSE LET out == All(acc.Q, priority, l)
             ready == {i \in DOMAIN out : state[out[i]] = "RUNNABLE"}
             again == IF ready = {} THEN out
                      ELSE <<out[Min(ready)]>> \o RemoveAt(out, Min(ready))
         IN  [ret |-> IF ready = {} THEN Null ELSE out[Min(ready)],
              bad |-> acc.bad \/ BadLevel(again),
              Q |-> EnqueueByLevel(Emptied(acc.Q, priority, l), priority, again, level)]

\* One level of find_runnable_proc(): the first RUNNABLE process moves to the
\* front of its queue.
FindAt(acc, l) ==
    IF acc.ret # Null \/ Items(acc.Q, l) = <<>> THEN acc
    ELSE LET out == All(acc.Q, priority, l)
             ready == {i \in DOMAIN out : state[out[i]] = "RUNNABLE"}
             again == IF ready = {} THEN out
                      ELSE <<out[Min(ready)]>> \o RemoveAt(out, Min(ready))
         IN  [ret |-> IF ready = {} THEN Null ELSE out[Min(ready)],
              bad |-> acc.bad \/ BadLevel(again),
              Q |-> EnqueueByLevel(Emptied(acc.Q, priority, l), priority, again, level)]

NoneYet == [ret |-> Null, bad |-> FALSE, Q |-> queue]

-----------------------------------------------------------------------------
(* The monopoly queue. *)

InMoq(x) == \E i \in DOMAIN moq : pid[moq[i]] = x

\* moq_delete()
MoqWithout(x) == SelectSeq(moq, LAMBDA p : pid[p] # x)

-----------------------------------------------------------------------------
(* The scheduler. *)

\* Priority boosting: L1, L2 and L3 are appended to L0.
Boost(q) ==
    LET up == All(queue, priority, 1) \o All(queue, priority, 2) \o All(queue, priority, 3)
        rest == FoldLeft(LAMBDA R, l : Emptied(R, priority, l), queue, <<1, 2, 3>>)
    IN  /\ level' = [p \in Proc |-> IF p \in ToSet(up) THEN 0 ELSE level[p]]
        /\ quantum' = [p \in Proc |-> IF p \in ToSet(up) THEN 0 ELSE q[p]]
        /\ queue' = Enqueue(rest, priority, up, 0)
        /\ wild' = (Len(up) > NPROC)
        /\ ticks' = 0
        /\ UNCHANGED priority

\* The level below: L0 splits by the parity of the pid, L1 and L2 lead to L3.
Below(p) == IF level[p] # 0 THEN 3 ELSE IF pid[p] % 2 = 1 THEN 1 ELSE 2

\* Slip: the processes dequeued before p are not put back.
DemoteLosing(p, q) ==
    LET l == level[p]
        out == All(queue, priority, l)
        at == {i \in DOMAIN out : pid[out[i]] = pid[p]}
        n == Min(at)
    IN  /\ level' = [level EXCEPT ![p] = Below(p)]
        /\ quantum' = [q EXCEPT ![p] = 0]
        /\ ticks' = ticks + 1
        /\ wild' = (at = {})
        /\ queue' = IF at = {} THEN queue
                    ELSE Enqueue(Left(queue, priority, l, n), priority, <<out[n]>>, Below(p))
        /\ UNCHANGED priority

\* A process that has used its quantum up: taken out of its queue, together
\* with those before it, which go to the end, and put in the one below.
Demote(p, q) ==
    LET l == level[p]
        pri == IF l = 3 /\ priority[p] > 0
               THEN [priority EXCEPT ![p] = @ - 1] ELSE priority
        out == All(queue, pri, l)
        at == {i \in DOMAIN out : pid[out[i]] = pid[p]}
        n == Min(at)
        lev == [level EXCEPT ![p] = Below(p)]
    IN  /\ level' = lev
        /\ quantum' = [q EXCEPT ![p] = 0]
        /\ priority' = pri
        /\ ticks' = ticks + 1
        /\ wild' = (at = {})
        /\ queue' = IF at = {} THEN queue
                    ELSE Enqueue(Enqueue(Left(queue, pri, l, n), pri, SubSeq(out, 1, n - 1), l),
                                 pri, <<out[n]>>, lev[out[n]])

\* p->time_quantum is compared with the quantums only: one more than the largest
\* stands for everything above.
MaxQuantum == Max({TimeQuantum(l) : l \in 0 .. 3}) + 1
OneMore(q) == Min({q + 1, MaxQuantum})

\* The process of CPU c gives it up with states st; what follows swtch() in
\* scheduler(), up to the release of ptable.lock.
Resched(c, st) ==
    LET p == cpu[c]
        q == IF st[p] = "RUNNABLE" THEN [quantum EXCEPT ![p] = OneMore(@)] ELSE quantum
    IN  /\ state' = st
        /\ cpu' = [cpu EXCEPT ![c] = Null]
        /\ holder' = NoCpu
        /\ IF blocked THEN UNCHANGED <<class, queue, ticks, wild>>
           ELSE IF ticks + 1 = BoostPeriod THEN Boost(q)
           ELSE IF level[p] \notin 0 .. 3
           THEN wild' = TRUE /\ UNCHANGED <<class, queue, ticks>>
           ELSE IF q[p] >= TimeQuantum(level[p]) THEN Demote(p, q)
           ELSE /\ quantum' = q
                /\ ticks' = ticks + 1
                /\ UNCHANGED <<level, priority, queue, wild>>
        /\ UNCHANGED <<moq, blocked>>

\* The processes of the MOQ that are not zombies, and the first to run.
MoqActive == {i \in DOMAIN moq : state[moq[i]] # "ZOMBIE"}
MoqReady == {i \in DOMAIN moq : state[moq[i]] \in {"RUNNABLE", "RUNNING"}}

\* CPU c runs process p; one that runs on another CPU is undefined.  A process
\* that slept in wait() goes on with ptable.lock held.
Run(c, p) ==
    /\ state' = [state EXCEPT ![p] = "RUNNING"]
    /\ cpu' = [cpu EXCEPT ![c] = p]
    /\ holder' = IF pc[p] = "wait" THEN c ELSE NoCpu

\* Slip: the scheduler does not ask for mlfq.is_blocked.
DispatchMlfqAlways(c) ==
    /\ cpu[c] = Null /\ holder = NoCpu
    /\ \E f0 \in {FindAt(NoneYet, 0)} : \E f1 \in {FindAt(f0, 1)} :
       \E f2 \in {FindAt(f1, 2)} : \E found \in {FindAt(f2, 3)} :
         /\ queue' = found.Q
         /\ wild' = found.bad
         /\ IF found.ret = Null THEN UNCHANGED <<state, cpu, holder>>
            ELSE Run(c, found.ret)
    /\ UNCHANGED <<pid, parent, killed, class, pc, child, nextpid, moq, clock>>

\* One round of scheduler() up to swtch(), while the MLFQ is in force.
DispatchMlfq(c) ==
    /\ ~blocked /\ cpu[c] = Null /\ holder = NoCpu
    /\ \E f0 \in {FindAt(NoneYet, 0)} : \E f1 \in {FindAt(f0, 1)} :
       \E f2 \in {FindAt(f1, 2)} : \E found \in {FindAt(f2, 3)} :
         /\ queue' = found.Q
         /\ wild' = found.bad
         /\ IF found.ret = Null THEN UNCHANGED <<state, cpu, holder>>
            ELSE Run(c, found.ret)
    /\ UNCHANGED <<pid, parent, killed, class, pc, child, nextpid, moq, clock>>

\* ... and while a monopoly is: when nobody is active the MLFQ is in force again.
DispatchMoq(c) ==
    /\ blocked /\ cpu[c] = Null /\ holder = NoCpu
    /\ IF MoqReady = {}
       THEN UNCHANGED <<state, cpu, holder, wild>>
       ELSE LET p == moq[Min(MoqReady)]
            IN  /\ Run(c, p)
                /\ wild' = (state[p] = "RUNNING")
    /\ IF MoqActive = {}
       THEN blocked' = FALSE /\ ticks' = 0
       ELSE UNCHANGED clock
    /\ UNCHANGED <<pid, parent, killed, class, pc, child, nextpid, queues>>

-----------------------------------------------------------------------------
(* What the process of CPU c does. *)

OnCpu(c, p) == cpu[c] = p /\ p # Null /\ holder = NoCpu
InUser(c, p) == OnCpu(c, p) /\ pc[p] = "user" /\ ~killed[p]

\* The timer interrupt and sys_yield().
Yield(c) ==
    \E p \in Proc :
      /\ OnCpu(c, p)
      /\ Resched(c, [state EXCEPT ![p] = "RUNNABLE"])
      /\ UNCHANGED <<pid, parent, killed, pc, child, nextpid>>

\* allocproc(): a slot that does not fit in L0 stays EMBRYO.
ForkAllocproc(c) ==
    \E p \in Proc, np \in Proc :
      /\ "fork" \in Calls /\ InUser(c, p) /\ nextpid <= MaxPid
      /\ state[np] = "UNUSED" /\ \A s \in Proc : state[s] = "UNUSED" => np <= s
      /\ state' = [state EXCEPT ![np] = "EMBRYO"]
      /\ pid' = [pid EXCEPT ![np] = nextpid]
      /\ nextpid' = nextpid + 1
      /\ level' = [level EXCEPT ![np] = 0]
      /\ quantum' = [quantum EXCEPT ![np] = 0]
      /\ priority' = [priority EXCEPT ![np] = 0]
      /\ queue' = Enqueue(queue, priority, <<np>>, 0)
      /\ IF IsFull(queue, 0)
         THEN UNCHANGED <<pc, child>>
         ELSE /\ pc' = [pc EXCEPT ![p] = "fork"]
              /\ child' = [child EXCEPT ![p] = np]
      /\ UNCHANGED <<parent, killed, moq, clock, cpu, holder, wild>>

\* fork() makes the child RUNNABLE, or gives its slot back.
ForkDone(c) ==
    \E p \in Proc, st \in {"RUNNABLE", "UNUSED"} :
      /\ OnCpu(c, p) /\ pc[p] = "fork"
      /\ st = "UNUSED" => "nomem" \in Calls
      /\ state' = [state EXCEPT ![child[p]] = st]
      /\ parent' = IF st = "RUNNABLE" THEN [parent EXCEPT ![child[p]] = p] ELSE parent
      /\ pc' = [pc EXCEPT ![p] = "user"]
      /\ child' = [child EXCEPT ![p] = Null]
      /\ UNCHANGED <<pid, killed, class, nextpid, queues, clock, cpu, holder, wild>>

\* exit(), also by the next trap of a killed process: wakes the parent and, for
\* zombies it leaves, init.
Exit(c) ==
    \E p \in Proc \ {initproc} :
      /\ OnCpu(c, p) /\ pc[p] = "user" /\ ("exit" \in Calls \/ killed[p])
      /\ LET orphans == {s \in Proc : parent[s] = p}
             woken == {s \in Proc :
                         /\ state[s] = "SLEEPING" /\ pc[s] = "wait"
                         /\ \/ s = parent[p]
                            \/ s = initproc /\ \E o \in orphans : state[o] = "ZOMBIE"}
         IN  /\ Resched(c, [s \in Proc |-> IF s = p THEN "ZOMBIE"
                                           ELSE IF s \in woken THEN "RUNNABLE"
                                           ELSE state[s]])
             /\ parent' = [s \in Proc |-> IF s \in orphans THEN initproc ELSE parent[s]]
      /\ UNCHANGED <<pid, killed, pc, child, nextpid>>

\* kill() of a process other than init.
Kill(c) ==
    \E p \in Proc, s \in Proc \ {initproc} :
      /\ "kill" \in Calls /\ InUser(c, p)
      /\ pid[s] # 0
      /\ killed' = [killed EXCEPT ![s] = TRUE]
      /\ state' = [state EXCEPT ![s] = IF @ = "SLEEPING" THEN "RUNNABLE" ELSE @]
      /\ UNCHANGED <<pid, parent, class, pc, child, nextpid, queues, clock, cpu,
                     holder, wild>>

Children(p) == {s \in Proc : parent[s] = p}
Zombies(p) == {s \in Children(p) : state[s] = "ZOMBIE"}

\* Programs that wait only when they have made all their children ("waitlast",
\* as mlfq_test.c does) never meet a slot that is used again.
MayWait == "wait" \in Calls \/ ("waitlast" \in Calls /\ nextpid > MaxPid)

\* wait() scans the table, when called and each time it wakes up.
InWait(c, p) ==
    /\ cpu[c] = p /\ p # Null
    /\ \/ MayWait /\ InUser(c, p)
       \/ pc[p] = "wait" /\ holder = c

\* A zombie: its slot is freed.
WaitReap(c) ==
    \E p \in Proc :
      /\ InWait(c, p) /\ Zombies(p) # {}
      /\ LET z == Min(Zombies(p))
             x == pid[z]
         IN  /\ queue' = Delete(queue, x)
             /\ wild' = DeleteIsWild(queue, x)
             /\ moq' = IF FoundAt(queue, x) # {} THEN MoqWithout(x) ELSE moq
             /\ pid' = [pid EXCEPT ![z] = 0]
             /\ parent' = [parent EXCEPT ![z] = Null]
             /\ state' = [state EXCEPT ![z] = "UNUSED"]
             /\ killed' = [killed EXCEPT ![z] = FALSE]
      /\ pc' = [pc EXCEPT ![p] = "user"]
      /\ holder' = NoCpu
      /\ UNCHANGED <<class, child, nextpid, clock, cpu>>

\* No child at all, or killed.
WaitFail(c) ==
    \E p \in Proc :
      /\ InWait(c, p) /\ (Children(p) = {} \/ (Zombies(p) = {} /\ killed[p]))
      /\ pc' = [pc EXCEPT ![p] = "user"]
      /\ holder' = NoCpu
      /\ UNCHANGED <<table, class, child, nextpid, queues, clock, cpu, wild>>

WaitSleep(c) ==
    \E p \in Proc :
      /\ InWait(c, p) /\ Children(p) # {} /\ Zombies(p) = {} /\ ~killed[p]
      /\ pc' = [pc EXCEPT ![p] = "wait"]
      /\ Resched(c, [state EXCEPT ![p] = "SLEEPING"])
      /\ UNCHANGED <<pid, parent, killed, child, nextpid>>

\* The scan of a wait() that was woken up.
WaitWoken(c) == holder = c /\ (WaitReap(c) \/ WaitFail(c) \/ WaitSleep(c))

\* sleep() on a device, where a killed process sleeps again, and wakeup() from
\* its interrupt.
Sleep(c) ==
    \E p \in Proc :
      /\ "sleep" \in Calls /\ OnCpu(c, p) /\ pc[p] = "user"
      /\ Resched(c, [state EXCEPT ![p] = "SLEEPING"])
      /\ UNCHANGED <<pid, parent, killed, pc, child, nextpid>>

Wakeup(p) ==
    /\ state[p] = "SLEEPING" /\ pc[p] = "user" /\ holder = NoCpu
    /\ state' = [state EXCEPT ![p] = "RUNNABLE"]
    /\ UNCHANGED <<pid, parent, killed, class, pc, child, nextpid, queues, clock, cpu,
                   holder, wild>>

-----------------------------------------------------------------------------
(* ex_syscall.c *)

\* Slip: the priority queue is left in its old order.
SetPriorityInPlace(c) ==
    \E p \in Proc, s \in Proc, v \in Priorities :
      /\ "setpriority" \in Calls /\ InUser(c, p)
      /\ pid[s] # 0
      /\ priority' = [priority EXCEPT ![s] = v]
      /\ UNCHANGED <<table, level, quantum, queues, pc, child, nextpid, clock, cpu,
                     holder, wild>>

\* setpriority(): a process of L3 makes the priority queue anew.
SetPriority(c) ==
    \E p \in Proc, s \in Proc, v \in Priorities :
      /\ "setpriority" \in Calls /\ InUser(c, p)
      /\ pid[s] # 0
      /\ priority' = [priority EXCEPT ![s] = v]
      /\ queue' = IF level[s] = 3 THEN Remade(queue, priority') ELSE queue
      /\ UNCHANGED <<table, level, quantum, pc, child, nextpid, moq, clock, cpu,
                     holder, wild>>

\* setmonopoly(), with the right password.
SetMonopoly(c) ==
    \E p \in Proc, x \in 1 .. MaxPid :
      /\ "setmonopoly" \in Calls /\ InUser(c, p)
      /\ ~InMoq(x) /\ x # pid[p] /\ Len(moq) < NPROC /\ FoundAt(queue, x) # {}
      /\ queue' = Delete(queue, x)
      /\ wild' = DeleteIsWild(queue, x)
      /\ level' = [level EXCEPT ![Target(queue, x)] = MonopolyLevel]
      /\ moq' = Append(moq, Target(queue, x))
      /\ UNCHANGED <<table, quantum, priority, pc, child, nextpid, clock, cpu, holder>>

\* monopolize(): a process outside the MOQ then yields.
Monopolize(c) ==
    \E p \in Proc :
      /\ "monopolize" \in Calls /\ InUser(c, p)
      /\ blocked' = TRUE
      /\ pc' = IF InMoq(pid[p]) THEN pc ELSE [pc EXCEPT ![p] = "yield"]
      /\ UNCHANGED <<table, class, child, nextpid, queues, ticks, cpu, holder, wild>>

\* Slip: the MOQ is read, not emptied.
UnmonopolizeMoqKept(c) ==
    \E p \in Proc :
      /\ "unmonopolize" \in Calls /\ InUser(c, p)
      /\ blocked' = FALSE /\ ticks' = 0
      /\ level' = [s \in Proc |-> IF s \in ToSet(moq) THEN 0 ELSE level[s]]
      /\ queue' = Enqueue(queue, priority, moq, 0)
      /\ pc' = [pc EXCEPT ![p] = "yield"]
      /\ UNCHANGED <<table, quantum, priority, child, nextpid, moq, cpu, holder, wild>>

\* unmonopolize(): the MOQ goes to L0, unless L0 is full.
Unmonopolize(c) ==
    \E p \in Proc :
      /\ "unmonopolize" \in Calls /\ InUser(c, p)
      /\ blocked' = FALSE /\ ticks' = 0
      /\ IF IsFull(queue, 0) THEN UNCHANGED <<level, queues>>
         ELSE /\ level' = [s \in Proc |-> IF s \in ToSet(moq) THEN 0 ELSE level[s]]
              /\ queue' = Enqueue(queue, priority, moq, 0)
              /\ moq' = <<>>
      /\ pc' = [pc EXCEPT ![p] = "yield"]
      /\ UNCHANGED <<table, quantum, priority, child, nextpid, cpu, holder, wild>>

\* The yield() both end with.
CallYield(c) ==
    \E p \in Proc :
      /\ OnCpu(c, p) /\ pc[p] = "yield"
      /\ pc' = [pc EXCEPT ![p] = "user"]
      /\ Resched(c, [state EXCEPT ![p] = "RUNNABLE"])
      /\ UNCHANGED <<pid, parent, killed, child, nextpid>>

-----------------------------------------------------------------------------
\* proc_queue_init() and userinit(): the first process is alone in L0.
Init ==
    /\ state = [p \in Proc |-> IF p = initproc THEN "RUNNABLE" ELSE "UNUSED"]
    /\ pid = [p \in Proc |-> IF p = initproc THEN 1 ELSE 0]
    /\ parent = [p \in Proc |-> Null]
    /\ killed = [p \in Proc |-> FALSE]
    /\ level = [p \in Proc |-> 0]
    /\ quantum = [p \in Proc |-> 0]
    /\ priority = [p \in Proc |-> 0]
    /\ pc = [p \in Proc |-> "user"]
    /\ child = [p \in Proc |-> Null]
    /\ nextpid = 2
    /\ queue = [l \in 0 .. 3 |-> IF l = 0 THEN RingPut(EmptyRing, <<initproc>>)
                                 ELSE IF l = 3 THEN <<>> ELSE EmptyRing]
    /\ moq = <<>>
    /\ ticks = 0
    /\ blocked = FALSE
    /\ cpu = [c \in Cpu |-> Null]
    /\ holder = NoCpu
    /\ wild = FALSE

Dispatch(c) == DispatchMlfq(c) \/ DispatchMoq(c)
Step(c) ==
    \/ Dispatch(c) \/ Yield(c) \/ CallYield(c)
    \/ ForkAllocproc(c) \/ ForkDone(c) \/ Exit(c) \/ Kill(c)
    \/ WaitReap(c) \/ WaitFail(c) \/ WaitSleep(c) \/ Sleep(c)
    \/ SetPriority(c) \/ SetMonopoly(c) \/ Monopolize(c) \/ Unmonopolize(c)

Next == ~wild /\ (\/ \E c \in Cpu : Step(c)
                  \/ \E p \in Proc : Wakeup(p))

Spec == Init /\ [][Next]_vars

\* Every CPU goes round its scheduler loop, the timer interrupts what it runs,
\* and a system call goes on once its process has the CPU.
FairSpec ==
    /\ Spec
    /\ \A c \in Cpu : /\ SF_vars(~wild /\ Dispatch(c))
                      /\ WF_vars(~wild /\ (Yield(c) \/ CallYield(c)))
                      /\ WF_vars(~wild /\ ForkDone(c))
                      /\ SF_vars(~wild /\ WaitWoken(c))
=============================================================================
