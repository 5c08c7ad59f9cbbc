------------------------------- MODULE Bakery -------------------------------
(***************************************************************************)
(* The lock of project 3 for Linux threads (pthread_lock_linux.c): Lamport's *)
(* bakery on plain ints, with __sync_synchronize() fences, as main() tests *)
(* it.                                                                     *)
(*                                                                         *)
(* The program runs on x86 processors: a store waits in the store buffer of *)
(* its processor, the processor's own loads look there first, and a fence  *)
(* waits until the buffer is empty.  Every access of the source is one     *)
(* access of the program: number[i] is loaded anew each time it is named,  *)
(* as in the binary the project keeps.                                     *)
(*                                                                         *)
(* A definition marked "Slip" is no part of the specification: it is a     *)
(* plausible mistake in the definition below it, kept to show that the     *)
(* properties would see it.                                                *)
(***************************************************************************)
EXTENDS Integers, Sequences, FiniteSets

CONSTANTS
    MAX_THREADS,
    NUM_ITERS     \* num_iters, which main() draws; bounds shared_resource

ASSUME BakeryAssumption == MAX_THREADS \in Nat \ {0} /\ NUM_ITERS \in Nat

Thread == 0 .. MAX_THREADS - 1
Number(i) == <<"number", i>>
Choosing(i) == <<"choosing", i>>
Shared == <<"shared_resource", 0>>
Address == {Number(i) : i \in Thread} \cup {Choosing(i) : i \in Thread} \cup {Shared}

VARIABLES
    mem,      \* memory
    buffer,   \* the store buffer of the processor of a thread
    pc,       \* of a thread, "done" before it is created too
    i, max,   \* of lock(), and i of thread_func()
    reg,      \* what the thread has loaded of shared_resource
    n         \* of main()

local == <<i, max, reg>>
vars == <<mem, buffer, pc, local, n>>

-----------------------------------------------------------------------------
Fenced(t) == buffer[t] = <<>>
Store(t, a, v) == buffer' = [buffer EXCEPT ![t] = Append(@, <<a, v>>)]
Pending(t, a) == {k \in DOMAIN buffer[t] : buffer[t][k][1] = a}
Load(t, a) ==
    IF Pending(t, a) = {} THEN mem[a]
    ELSE buffer[t][CHOOSE k \in Pending(t, a) : \A m \in Pending(t, a) : m <= k][2]

\* The oldest store reaches memory.
Flush(t) ==
    /\ buffer[t] # <<>>
    /\ mem' = [mem EXCEPT ![Head(buffer[t])[1]] = Head(buffer[t])[2]]
    /\ buffer' = [buffer EXCEPT ![t] = Tail(@)]
    /\ UNCHANGED <<pc, local, n>>

Goto(t, l) == pc' = [pc EXCEPT ![t] = l]

\* The loops over i: another round at label l, or on to label next with i = 0.
Round(t, l, next) ==
    IF i[t] < MAX_THREADS - 1
    THEN i' = [i EXCEPT ![t] = @ + 1] /\ Goto(t, l)
    ELSE i' = [i EXCEPT ![t] = 0] /\ Goto(t, next)

-----------------------------------------------------------------------------
(* lock(): taking a ticket. *)

StartChoosing(t) ==
    /\ pc[t] = "lock"
    /\ Store(t, Choosing(t), 1)
    /\ max' = [max EXCEPT ![t] = 0]
    /\ Goto(t, "compare")
    /\ UNCHANGED <<mem, i, reg, n>>

\* Slip: no fence before the tickets of the others are read.
CompareUnfenced(t) ==
    /\ pc[t] = "compare"
    /\ IF Load(t, Number(i[t])) > max[t] THEN Goto(t, "take") /\ UNCHANGED i
       ELSE Round(t, "compare", "ticket")
    /\ UNCHANGED <<mem, buffer, max, reg, n>>

Compare(t) ==
    /\ pc[t] = "compare" /\ Fenced(t)
    /\ IF Load(t, Number(i[t])) > max[t] THEN Goto(t, "take") /\ UNCHANGED i
       ELSE Round(t, "compare", "ticket")
    /\ UNCHANGED <<mem, buffer, max, reg, n>>

Take(t) ==
    /\ pc[t] = "take"
    /\ max' = [max EXCEPT ![t] = Load(t, Number(i[t]))]
    /\ Round(t, "compare", "ticket")
    /\ UNCHANGED <<mem, buffer, reg, n>>

Ticket(t) ==
    /\ pc[t] = "ticket" /\ Fenced(t)
    /\ Store(t, Number(t), 1 + max[t])
    /\ Goto(t, "chosen")
    /\ UNCHANGED <<mem, local, n>>

\* Slip: choosing stays set.
EndChoosingNever(t) ==
    /\ pc[t] = "chosen" /\ Fenced(t)
    /\ Goto(t, "choosing")
    /\ UNCHANGED <<mem, buffer, local, n>>

EndChoosing(t) ==
    /\ pc[t] = "chosen" /\ Fenced(t)
    /\ Store(t, Choosing(t), 0)
    /\ Goto(t, "choosing")
    /\ UNCHANGED <<mem, local, n>>

-----------------------------------------------------------------------------
(* lock(): waiting for those before; thread t looks at thread i[t]. *)

\* Slip: nobody waits for a thread that is choosing.
WaitChoosingSkipped(t) ==
    /\ pc[t] = "choosing"
    /\ Goto(t, "waiting")
    /\ UNCHANGED <<mem, buffer, local, n>>

\* while(choosing[i]);
WaitChoosing(t) ==
    /\ pc[t] = "choosing"
    /\ Load(t, Choosing(i[t])) = 0
    /\ Goto(t, "waiting")
    /\ UNCHANGED <<mem, buffer, local, n>>

\* The condition of the second loop, one load of number[i] after another.
NoTicket(t) ==
    /\ pc[t] = "waiting" /\ Fenced(t)
    /\ IF Load(t, Number(i[t])) = 0 THEN Round(t, "choosing", "enter")
       ELSE Goto(t, "smaller") /\ UNCHANGED i
    /\ UNCHANGED <<mem, buffer, max, reg, n>>

Smaller(t) ==
    /\ pc[t] = "smaller"
    /\ Goto(t, IF Load(t, Number(i[t])) < Load(t, Number(t)) THEN "waiting" ELSE "equal")
    /\ UNCHANGED <<mem, buffer, local, n>>

\* Slip: equal tickets go by the higher number.
EqualReversed(t) ==
    /\ pc[t] = "equal"
    /\ IF Load(t, Number(i[t])) = Load(t, Number(t)) /\ i[t] > t
       THEN Goto(t, "waiting") /\ UNCHANGED i
       ELSE Round(t, "choosing", "enter")
    /\ UNCHANGED <<mem, buffer, max, reg, n>>

Equal(t) ==
    /\ pc[t] = "equal"
    /\ IF Load(t, Number(i[t])) = Load(t, Number(t)) /\ i[t] < t
       THEN Goto(t, "waiting") /\ UNCHANGED i
       ELSE Round(t, "choosing", "enter")
    /\ UNCHANGED <<mem, buffer, max, reg, n>>

-----------------------------------------------------------------------------
(* thread_func(): the critical section, num_iters times shared_resource++. *)

Enter(t) ==
    /\ pc[t] = "enter"
    /\ IF i[t] < NUM_ITERS
       THEN /\ reg' = [reg EXCEPT ![t] = Load(t, Shared)]
            /\ Goto(t, "add")
            /\ UNCHANGED i
       ELSE /\ i' = [i EXCEPT ![t] = 0]
            /\ Goto(t, "unlock")
            /\ UNCHANGED reg
    /\ UNCHANGED <<mem, buffer, max, n>>

Add(t) ==
    /\ pc[t] = "add"
    /\ Store(t, Shared, reg[t] + 1)
    /\ i' = [i EXCEPT ![t] = @ + 1]
    /\ Goto(t, "enter")
    /\ UNCHANGED <<mem, max, reg, n>>

\* unlock()
Unlock(t) ==
    /\ pc[t] = "unlock"
    /\ Store(t, Number(t), 0)
    /\ Goto(t, "done")
    /\ UNCHANGED <<mem, local, n>>

-----------------------------------------------------------------------------
(* main() *)

\* pthread_join() has returned for all threads; what they stored is in memory.
Joined == \A t \in Thread : pc[t] = "done" /\ buffer[t] = <<>>

\* The next test, with rand() % MAX_THREADS threads.
Create ==
    /\ Joined
    /\ n' \in 0 .. MAX_THREADS - 1
    /\ mem' = [mem EXCEPT ![Shared] = 0]
    /\ pc' = [t \in Thread |-> IF t < n' THEN "lock" ELSE "done"]
    /\ reg' = [t \in Thread |-> 0]
    /\ max' = [t \in Thread |-> 0]
    /\ UNCHANGED <<buffer, i>>

Init ==
    /\ mem = [a \in Address |-> 0]
    /\ buffer = [t \in Thread |-> <<>>]
    /\ pc = [t \in Thread |-> "done"]
    /\ i = [t \in Thread |-> 0]
    /\ max = [t \in Thread |-> 0]
    /\ reg = [t \in Thread |-> 0]
    /\ n = 0

Step(t) ==
    \/ StartChoosing(t) \/ Compare(t) \/ Take(t) \/ Ticket(t) \/ EndChoosing(t)
    \/ WaitChoosing(t) \/ NoTicket(t) \/ Smaller(t) \/ Equal(t)
    \/ Enter(t) \/ Add(t) \/ Unlock(t)

Next == Create \/ \E t \in Thread : Step(t) \/ Flush(t)

Spec == Init /\ [][Next]_vars

\* Every thread is scheduled, and every store reaches memory.
FairSpec == Spec /\ \A t \in Thread : WF_vars(Step(t)) /\ WF_vars(Flush(t))
=============================================================================
