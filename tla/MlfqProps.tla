----------------------------- MODULE MlfqProps -----------------------------
(***************************************************************************)
(* What the scheduler of project 2 has to keep true, over the state of     *)
(* Mlfq.                                                                   *)
(***************************************************************************)
EXTENDS Mlfq

Live == {p \in Proc : state[p] \in {"SLEEPING", "RUNNABLE", "RUNNING"}}

\* The places p has in a sequence of processes.
Places(s, p) == {i \in DOMAIN s : s[i] = p}
PlacesAt(p, l) ==
    Cardinality(Places(IF l = MonopolyLevel THEN moq ELSE Items(queue, l), p))

\* A process is in exactly one queue, the one its level names, and there once:
\* no order of dispatch, demotion, boost, setmonopoly and unmonopolize loses a
\* process (it would never run again) or doubles it (two CPUs would run it).
QueuedOnce ==
    \A p \in Live : \A l \in 0 .. 3 \cup {MonopolyLevel} :
      PlacesAt(p, l) = IF l = level[p] THEN 1 ELSE 0

\* No step of the scheduler reads through a null pointer or outside an array:
\* the demotion loop finds its process, boost's array is long enough, every
\* level is one of mlfq.queues, and no process runs on two CPUs.
NoWild == ~wild

\* The queues survive everything that is done to them, with every process in
\* them: the first half of a damage shows as a wild access, the second as a
\* process that is lost or doubled.
QueuesIntact == NoWild /\ QueuedOnce

Starts(p) == state[p] # "RUNNING" /\ state'[p] = "RUNNING"

\* While the MLFQ is in force a CPU that starts a process starts one of the
\* highest level that has a RUNNABLE process, and of L3 one of the highest
\* priority: the heap stays a heap under setpriority, demotion and boost.
HighestFirst ==
    [][\A p \in Proc : Starts(p) /\ ~blocked =>
         \A q \in Proc : state[q] = "RUNNABLE" /\ level[q] \in 0 .. 3 =>
           \/ level[p] < level[q]
           \/ level[p] = level[q] /\ (level[p] = 3 => priority[q] <= priority[p])]_vars

\* Nobody starves: under boosting a RUNNABLE process runs in the end, whatever
\* priorities the others give themselves.
EventuallyRuns ==
    \A p \in Proc : state[p] = "RUNNABLE" ~> wild \/ state[p] # "RUNNABLE"

\* A monopoly is exclusive: while it lasts no CPU starts a process that is not
\* in the MOQ, and a process of the MOQ never runs in the MLFQ's turn.
MonopolyExclusive ==
    [][\A p \in Proc : Starts(p) => (blocked <=> level[p] = MonopolyLevel)]_vars

=============================================================================
