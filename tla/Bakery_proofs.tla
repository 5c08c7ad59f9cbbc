--------------------------- MODULE Bakery_proofs ---------------------------
(***************************************************************************)
(* The lock of Bakery, proved for any number of threads and iterations, on *)
(* processors that delay stores: BakeryInv is inductive.                   *)
(***************************************************************************)
EXTENDS BakeryProps, FiniteSetTheorems, SequenceTheorems, TLAPS

-----------------------------------------------------------------------------
(* The inductive invariant. *)

Label == {"lock", "compare", "take", "ticket", "chosen", "choosing", "waiting",
          "smaller", "equal", "enter", "add", "unlock", "done"}

\* The state of the program and of the store buffers.
TypeOK ==
    /\ mem \in [Address -> Nat]
    /\ buffer \in [Thread -> Seq(Address \X Nat)]
    /\ pc \in [Thread -> Label]
    /\ i \in [Thread -> Nat] /\ max \in [Thread -> Nat] /\ reg \in [Thread -> Nat]
    /\ n \in 0 .. MAX_THREADS - 1

Num(t) == mem[Number(t)]

\* What a thread has stored and memory does not hold yet.
Delayed(t) ==
    /\ pc[t] \in {"lock", "take", "ticket", "smaller", "equal"} => buffer[t] = <<>>
    /\ pc[t] = "compare" /\ buffer[t] # <<>> =>
         buffer[t] = <<<<Choosing(t), 1>>>> /\ i[t] = 0
    /\ pc[t] = "chosen" /\ buffer[t] # <<>> =>
         buffer[t] = <<<<Number(t), 1 + max[t]>>>>
    /\ pc[t] \in {"choosing", "waiting"} /\ buffer[t] # <<>> =>
         buffer[t] = <<<<Choosing(t), 0>>>>
    /\ Inside(t) => \A k \in 1 .. Len(buffer[t]) : buffer[t][k][1] = Shared
    /\ pc[t] = "done" /\ buffer[t] # <<>> =>
         /\ buffer[t][Len(buffer[t])] = <<Number(t), 0>>
         /\ \A k \in 1 .. Len(buffer[t]) - 1 : buffer[t][k][1] = Shared

\* What memory holds of a thread.
Stored(t) ==
    /\ pc[t] = "lock" => Num(t) = 0 /\ mem[Choosing(t)] = 0
    /\ pc[t] = "compare" =>
         Num(t) = 0 /\ mem[Choosing(t)] = (IF buffer[t] = <<>> THEN 1 ELSE 0)
    /\ pc[t] \in {"take", "ticket"} => Num(t) = 0 /\ mem[Choosing(t)] = 1
    /\ pc[t] = "chosen" =>
         Num(t) = (IF buffer[t] = <<>> THEN 1 + max[t] ELSE 0) /\ mem[Choosing(t)] = 1
    /\ pc[t] \in {"choosing", "waiting"} =>
         Num(t) > 0 /\ mem[Choosing(t)] = (IF buffer[t] = <<>> THEN 0 ELSE 1)
    /\ pc[t] \in {"smaller", "equal", "enter", "add", "unlock"} =>
         Num(t) > 0 /\ mem[Choosing(t)] = 0
    /\ pc[t] = "done" =>
         /\ IF buffer[t] = <<>> THEN Num(t) = 0 ELSE Num(t) > 0
         /\ mem[Choosing(t)] = 0

\* Where a thread is in its loops.
Index(t) ==
    /\ pc[t] \in {"lock", "ticket", "chosen", "unlock", "done"} => i[t] = 0
    /\ (pc[t] \in {"compare", "take"} \/ Waits(t)) => i[t] \in Thread
    /\ pc[t] = "enter" => i[t] <= NUM_ITERS
    /\ pc[t] = "add" => i[t] < NUM_ITERS

\* A thread leads from the end of its second loop until memory has lost its ticket.
Lead(t) == Inside(t) \/ (pc[t] = "done" /\ Num(t) # 0)

\* Thread t no longer waits for thread u to choose.
Passed(t, u) ==
    \/ Lead(t)
    \/ Waits(t) /\ u < i[t]
    \/ pc[t] \in {"waiting", "smaller", "equal"} /\ u = i[t]

\* Thread t has let thread u go first if that was u's right.
Settled(t, u) == Lead(t) \/ (Waits(t) /\ u < i[t])

HasTicket(u) == Waits(u) \/ Lead(u)

Before(t, u) == Num(t) < Num(u) \/ (Num(t) = Num(u) /\ t < u)

\* A thread that chooses a ticket though t no longer waits for it has seen t's
\* ticket, or has yet to read it.
Door(t, u) ==
    Passed(t, u) =>
      /\ pc[u] = "compare" => i[u] <= t \/ Num(t) <= max[u]
      /\ pc[u] = "take" =>
           i[u] <= t \/ (Num(t) <= max[u] /\ max[u] < Num(i[u]))
      /\ pc[u] \in {"ticket", "chosen"} => Num(t) <= max[u]

Order(t, u) == Settled(t, u) /\ HasTicket(u) => Before(t, u)

Tie(t, u) ==
    pc[t] = "equal" /\ u = i[t] /\ HasTicket(u) => Num(t) <= Num(u)

Pair(t, u) == Door(t, u) /\ Order(t, u) /\ Tie(t, u)

\* The lock.
LockInv ==
    /\ TypeOK
    /\ \A t \in Thread : Delayed(t) /\ Stored(t) /\ Index(t)
    /\ \A t, u \in Thread : t # u => Pair(t, u)

\* The threads that have returned, of those main() created.
Finished == {t \in Thread : t < n /\ pc[t] = "done"}
Made == NUM_ITERS * Cardinality(Finished)

\* What a thread that leads would load of shared_resource.
Sees(t) ==
    LET len == IF pc[t] = "done" THEN Len(buffer[t]) - 1 ELSE Len(buffer[t])
    IN  IF len = 0 THEN mem[Shared] ELSE buffer[t][len][2]

\* The increments that have been made.
CountOf(t) ==
    /\ t >= n => pc[t] = "done" /\ buffer[t] = <<>>
    /\ pc[t] \in {"enter", "add"} => Sees(t) = Made + i[t]
    /\ pc[t] = "add" => reg[t] = Sees(t)
    /\ pc[t] = "unlock" => Sees(t) = Made + NUM_ITERS
    /\ pc[t] = "done" /\ Lead(t) => Sees(t) = Made

CountInv ==
    /\ (\A t \in Thread : ~Lead(t)) => mem[Shared] = Made
    /\ \A t \in Thread : CountOf(t)

BakeryInv == LockInv /\ CountInv

-----------------------------------------------------------------------------
(* Addresses and loads. *)

\* The threads are numbered from 0 on.
LEMMA ThreadFacts ==
    /\ MAX_THREADS \in Nat /\ NUM_ITERS \in Nat
    /\ 0 \in Thread
    /\ \A x \in Thread : x \in Nat /\ x <= MAX_THREADS - 1
    /\ \A x \in Thread : x < MAX_THREADS - 1 => x + 1 \in Thread
BY BakeryAssumption DEF Thread


\* No two of the variables of lock() share an address.
LEMMA Addresses ==
    /\ \A x \in Thread : Number(x) \in Address /\ Choosing(x) \in Address
    /\ Shared \in Address
    /\ \A x, y : Number(x) # Choosing(y) /\ Number(x) # Shared /\ Choosing(x) # Shared
    /\ \A x, y : (Number(x) = Number(y) \/ Choosing(x) = Choosing(y)) => x = y
BY DEF Address, Number, Choosing, Shared

\* What a thread has no store pending for, it loads from memory.
LEMMA LoadMemory ==
    ASSUME TypeOK, NEW t \in Thread, NEW a,
           \A k \in 1 .. Len(buffer[t]) : buffer[t][k][1] # a
    PROVE  Load(t, a) = mem[a]
<1>1. DOMAIN buffer[t] = 1 .. Len(buffer[t])
  BY DEF TypeOK
<1> QED BY <1>1 DEF Load, Pending

\* A thread that compares tickets or holds one loads every ticket from memory.
LEMMA TicketRead ==
    ASSUME LockInv, NEW t \in Thread, NEW x \in Thread,
           pc[t] \in {"compare", "take"} \/ Waits(t) \/ Inside(t)
    PROVE  Load(t, Number(x)) = Num(x)
<1>1. \A k \in 1 .. Len(buffer[t]) : buffer[t][k][1] # Number(x)
  BY Addresses DEF LockInv, Delayed, Waits, Inside
<1> QED BY <1>1, LoadMemory DEF LockInv, Num

\* A thread that waits loads from memory whether another one is choosing.
LEMMA ChoosingRead ==
    ASSUME LockInv, NEW t \in Thread, NEW x \in Thread, pc[t] = "choosing", x # t
    PROVE  Load(t, Choosing(x)) = mem[Choosing(x)]
<1>1. \A k \in 1 .. Len(buffer[t]) : buffer[t][k][1] # Choosing(x)
  BY Addresses DEF LockInv, Delayed
<1> QED BY <1>1, LoadMemory DEF LockInv

-----------------------------------------------------------------------------
(* The steps of a thread. *)

\* The increments a thread that leads would see are those it loads.
LEMMA SharedRead ==
    ASSUME LockInv, NEW t \in Thread, Inside(t)
    PROVE  Load(t, Shared) = Sees(t) /\ Sees(t) \in Nat
<1>0. TypeOK /\ Delayed(t)
  BY DEF LockInv
<1>1. /\ buffer[t] \in Seq(Address \X Nat) /\ Len(buffer[t]) \in Nat
      /\ DOMAIN buffer[t] = 1 .. Len(buffer[t])
  BY <1>0 DEF TypeOK
<1>2. Sees(t) = IF Len(buffer[t]) = 0 THEN mem[Shared] ELSE buffer[t][Len(buffer[t])][2]
  BY DEF Sees, Inside
<1>3. CASE Len(buffer[t]) = 0
  <2>1. Load(t, Shared) = mem[Shared]
    BY <1>0, <1>1, <1>3, LoadMemory
  <2> QED BY <1>0, <1>2, <1>3, <2>1, Addresses DEF TypeOK
<1>4. CASE Len(buffer[t]) # 0
  <2> DEFINE len == Len(buffer[t])
  <2>1. len \in 1 .. len /\ len \in Nat
    BY <1>1, <1>4
  <2>2. Pending(t, Shared) = 1 .. len
    BY <1>0, <1>1 DEF Pending, Delayed
  <2>3. \A k \in 1 .. len : (\A m \in 1 .. len : m <= k) => k = len
    <3> SUFFICES ASSUME NEW k \in 1 .. len, \A m \in 1 .. len : m <= k
                 PROVE  k = len
      OBVIOUS
    <3>1. len <= k
      BY <2>1
    <3> QED BY <2>1, <3>1
  <2>4. (CHOOSE k \in 1 .. len : \A m \in 1 .. len : m <= k) = len
    <3>1. \A m \in 1 .. len : m <= len
      BY <2>1
    <3> HIDE DEF len
    <3> QED BY <2>1, <2>3, <3>1
  <2>5. Load(t, Shared) = buffer[t][len][2]
    <3>1. Pending(t, Shared) # {}
      BY <2>1, <2>2
    <3> QED BY <2>2, <2>4, <3>1 DEF Load
  <2>6. buffer[t][len] \in Address \X Nat
    BY <1>1, <2>1
  <2> QED BY <1>2, <1>4, <2>5, <2>6
<1> QED BY <1>3, <1>4

\* What Append() leaves and adds.
LEMMA AppendLast ==
    ASSUME NEW S, NEW s \in Seq(S), NEW e \in S
    PROVE  /\ Append(s, e) \in Seq(S) /\ Len(Append(s, e)) = Len(s) + 1
           /\ Append(s, e) # <<>> /\ Append(s, e)[Len(s) + 1] = e
           /\ \A k \in 1 .. Len(s) : Append(s, e)[k] = s[k]
OBVIOUS

\* A store comes last in the store buffer of the thread.
LEMMA StoreLast ==
    ASSUME TypeOK, NEW t \in Thread, NEW a \in Address, NEW v \in Nat, Store(t, a, v)
    PROVE  /\ buffer' \in [Thread -> Seq(Address \X Nat)]
           /\ \A u \in Thread \ {t} : buffer'[u] = buffer[u]
           /\ Len(buffer'[t]) = Len(buffer[t]) + 1
           /\ buffer'[t] # <<>>
           /\ buffer'[t][Len(buffer[t]) + 1] = <<a, v>>
           /\ \A k \in 1 .. Len(buffer[t]) : buffer'[t][k] = buffer[t][k]
           /\ buffer[t] = <<>> => buffer'[t] = <<<<a, v>>>>
<1>1. buffer[t] \in Seq(Address \X Nat) /\ <<a, v>> \in Address \X Nat
  BY DEF TypeOK
<1>2. buffer' = [buffer EXCEPT ![t] = Append(buffer[t], <<a, v>>)]
  BY DEF Store
<1>3. Append(buffer[t], <<a, v>>) \in Seq(Address \X Nat)
  BY <1>1
<1>4. buffer'[t] = Append(buffer[t], <<a, v>>)
  BY <1>2 DEF TypeOK
<1>5. buffer' \in [Thread -> Seq(Address \X Nat)] /\ \A u \in Thread \ {t} : buffer'[u] = buffer[u]
  BY <1>2, <1>3 DEF TypeOK
<1>6. buffer[t] = <<>> => buffer'[t] = <<<<a, v>>>>
  BY <1>1, <1>4
<1>7. /\ Len(buffer'[t]) = Len(buffer[t]) + 1 /\ buffer'[t] # <<>>
      /\ buffer'[t][Len(buffer[t]) + 1] = <<a, v>>
      /\ \A k \in 1 .. Len(buffer[t]) : buffer'[t][k] = buffer[t][k]
  <2> DEFINE s == buffer[t]
             e == <<a, v>>
  <2>1. s \in Seq(Address \X Nat) /\ e \in Address \X Nat /\ buffer'[t] = Append(s, e)
    BY <1>1, <1>4
  <2> HIDE DEF s, e
  <2>2. /\ Len(Append(s, e)) = Len(s) + 1 /\ Append(s, e) # <<>>
        /\ Append(s, e)[Len(s) + 1] = e
        /\ \A k \in 1 .. Len(s) : Append(s, e)[k] = s[k]
    BY <2>1, AppendLast
  <2>3. /\ Len(buffer'[t]) = Len(s) + 1 /\ buffer'[t] # <<>> /\ buffer'[t][Len(s) + 1] = e
        /\ \A k \in 1 .. Len(s) : buffer'[t][k] = s[k]
    BY <2>1, <2>2
  <2> QED BY <2>3 DEF s, e
<1> QED BY <1>5, <1>6, <1>7

\* A step that touches one thread and no memory only concerns the pairs with it.
LEMMA OneThread ==
    ASSUME LockInv, TypeOK', NEW t \in Thread, mem' = mem,
           \A u \in Thread \ {t} : /\ pc'[u] = pc[u] /\ buffer'[u] = buffer[u]
                                   /\ i'[u] = i[u] /\ max'[u] = max[u],
           Delayed(t)', Stored(t)', Index(t)',
           \A u \in Thread \ {t} : Pair(t, u)' /\ Pair(u, t)'
    PROVE  LockInv'
<1>1. ASSUME NEW u \in Thread PROVE Delayed(u)' /\ Stored(u)' /\ Index(u)'
  BY DEF LockInv, Delayed, Stored, Index, Inside, Waits, Num
<1>2. ASSUME NEW s \in Thread, NEW u \in Thread, s # u PROVE Pair(s, u)'
  <2>1. CASE s # t /\ u # t
    <3>1. Pair(s, u)
      BY <1>2 DEF LockInv
    <3> QED BY <2>1, <3>1 DEF Pair, Door, Order, Tie, Passed, Settled, HasTicket,
                  Before, Lead, Inside, Waits, Num
  <2> QED BY <1>2, <2>1
<1> QED BY <1>1, <1>2 DEF LockInv

\* A loop over the threads goes to the next one or ends.
LEMMA RoundSteps ==
    ASSUME TypeOK, NEW t \in Thread, i[t] \in Thread, NEW l, NEW next, Round(t, l, next)
    PROVE  \/ /\ i[t] + 1 \in Thread
              /\ i' = [i EXCEPT ![t] = i[t] + 1] /\ pc' = [pc EXCEPT ![t] = l]
           \/ /\ i[t] = MAX_THREADS - 1
              /\ i' = [i EXCEPT ![t] = 0] /\ pc' = [pc EXCEPT ![t] = next]
<1>1. i[t] \in Nat /\ i[t] <= MAX_THREADS - 1 /\ MAX_THREADS \in Nat
  BY ThreadFacts
<1>2. CASE i[t] < MAX_THREADS - 1
  <2>1. i[t] + 1 \in Thread
    BY <1>2, ThreadFacts
  <2>2. i' = [i EXCEPT ![t] = i[t] + 1] /\ pc' = [pc EXCEPT ![t] = l]
    BY <1>2 DEF Round, Goto
  <2> QED BY <2>1, <2>2
<1>3. CASE ~(i[t] < MAX_THREADS - 1)
  <2>1. i[t] = MAX_THREADS - 1
    BY <1>1, <1>3
  <2>2. i' = [i EXCEPT ![t] = 0] /\ pc' = [pc EXCEPT ![t] = next]
    BY <1>3 DEF Round, Goto
  <2> QED BY <2>1, <2>2
<1> QED BY <1>2, <1>3

LEMMA StepStartChoosing ==
    ASSUME LockInv, NEW t \in Thread, StartChoosing(t)
    PROVE  LockInv'
<1>0. TypeOK /\ Delayed(t) /\ Stored(t) /\ Index(t)
  BY DEF LockInv
<1>1. /\ pc[t] = "lock" /\ pc' = [pc EXCEPT ![t] = "compare"]
      /\ max' = [max EXCEPT ![t] = 0] /\ Store(t, Choosing(t), 1)
      /\ mem' = mem /\ i' = i /\ reg' = reg /\ n' = n
  BY DEF StartChoosing, Goto
<1>2. /\ buffer' \in [Thread -> Seq(Address \X Nat)]
      /\ \A u \in Thread \ {t} : buffer'[u] = buffer[u]
      /\ buffer'[t] = <<<<Choosing(t), 1>>>> /\ buffer'[t] # <<>>
  BY <1>0, <1>1, StoreLast, Addresses DEF Delayed
<1>3. TypeOK'
  BY <1>0, <1>1, <1>2 DEF TypeOK, Label
<1>4. Delayed(t)' /\ Stored(t)' /\ Index(t)'
  <2>1. Delayed(t)'
    BY <1>0, <1>1, <1>2 DEF TypeOK, Delayed, Index, Inside
  <2>2. Stored(t)'
    BY <1>0, <1>1, <1>2 DEF TypeOK, Stored, Num
  <2>3. Index(t)'
    BY <1>0, <1>1, <1>2, ThreadFacts DEF TypeOK, Index, Waits
  <2> QED BY <2>1, <2>2, <2>3
<1>5. ASSUME NEW u \in Thread \ {t} PROVE Pair(t, u)' /\ Pair(u, t)'
  BY <1>0, <1>1, ThreadFacts DEF TypeOK, Index, Pair, Door, Order, Tie, Passed, Settled,
     HasTicket, Before,
     Lead, Inside, Waits, Num
<1> QED BY <1>0, <1>1, <1>2, <1>3, <1>4, <1>5, OneThread DEF TypeOK

LEMMA StepCompare ==
    ASSUME LockInv, NEW t \in Thread, Compare(t)
    PROVE  LockInv'
<1>0. TypeOK /\ Delayed(t) /\ Stored(t) /\ Index(t)
  BY DEF LockInv
<1>1. /\ pc[t] = "compare" /\ buffer[t] = <<>> /\ i[t] \in Thread
      /\ mem' = mem /\ buffer' = buffer /\ max' = max /\ reg' = reg /\ n' = n
      /\ \/ /\ Num(i[t]) > max[t]
            /\ pc' = [pc EXCEPT ![t] = "take"] /\ i' = i
         \/ /\ ~(Num(i[t]) > max[t])
            /\ i[t] + 1 \in Thread
            /\ i' = [i EXCEPT ![t] = i[t] + 1] /\ pc' = [pc EXCEPT ![t] = "compare"]
         \/ /\ ~(Num(i[t]) > max[t])
            /\ i[t] = MAX_THREADS - 1
            /\ i' = [i EXCEPT ![t] = 0] /\ pc' = [pc EXCEPT ![t] = "ticket"]
  <2>1. i[t] \in Thread /\ pc[t] = "compare" /\ buffer[t] = <<>>
    BY <1>0 DEF Compare, Fenced, Index
  <2>2. Load(t, Number(i[t])) = Num(i[t])
    BY <2>1, TicketRead
  <2>3. \/ Num(i[t]) > max[t] /\ Goto(t, "take") /\ UNCHANGED i
        \/ ~(Num(i[t]) > max[t]) /\ Round(t, "compare", "ticket")
    BY <2>2 DEF Compare
  <2>4. mem' = mem /\ buffer' = buffer /\ max' = max /\ reg' = reg /\ n' = n
    BY DEF Compare
  <2> QED BY <1>0, <2>1, <2>3, <2>4, RoundSteps DEF Goto
<1>3. TypeOK'
  <2>1. pc' \in [Thread -> Label]
    BY <1>0, <1>1 DEF TypeOK, Label
  <2>2. i' \in [Thread -> Nat]
    BY <1>0, <1>1, ThreadFacts DEF TypeOK
  <2>3. max' \in [Thread -> Nat]
    BY <1>0, <1>1 DEF TypeOK
  <2> QED BY <1>0, <1>1, <2>1, <2>2, <2>3 DEF TypeOK
<1>4. Delayed(t)' /\ Stored(t)' /\ Index(t)'
  <2>1. Delayed(t)'
    BY <1>0, <1>1 DEF TypeOK, Delayed, Inside
  <2>2. Stored(t)'
    BY <1>0, <1>1 DEF TypeOK, Stored, Num
  <2>3. Index(t)'
    BY <1>0, <1>1, ThreadFacts DEF TypeOK, Index, Waits
  <2> QED BY <2>1, <2>2, <2>3
<1>5. ASSUME NEW u \in Thread \ {t} PROVE Pair(t, u)' /\ Pair(u, t)'
  <2>1. Door(u, t)
    BY DEF LockInv, Pair
  <2>2. /\ pc'[u] = pc[u] /\ i'[u] = i[u] /\ Num(u)' = Num(u)
        /\ max'[t] = max[t]
        /\ Num(u) \in Nat /\ Num(i[t]) \in Nat /\ max[t] \in Nat
        /\ u \in Nat /\ i[t] \in Nat /\ MAX_THREADS \in Nat /\ u <= MAX_THREADS - 1
    BY <1>0, <1>1, Addresses, ThreadFacts DEF TypeOK, Num
  <2>3. pc'[t] \in {"compare", "take", "ticket"}
    BY <1>0, <1>1 DEF TypeOK
  <2>4. Pair(t, u)' /\ Order(u, t)' /\ Tie(u, t)'
    BY <2>3 DEF Pair, Door, Order, Tie, Passed, Settled, HasTicket, Lead, Inside, Waits
  <2>5. ASSUME Passed(u, t)' PROVE Passed(u, t)
    BY <2>2, <2>5 DEF Passed, Lead, Inside, Waits
  <2>6. Door(u, t)'
    <3>1. CASE pc' = [pc EXCEPT ![t] = "take"] /\ i' = i /\ Num(i[t]) > max[t]
      <4>1. pc'[t] = "take" /\ i'[t] = i[t] /\ Num(i[t])' = Num(i[t])
        BY <1>0, <1>1, <3>1 DEF TypeOK, Num
      <4> QED BY <1>1, <2>1, <2>2, <2>5, <3>1, <4>1 DEF Door
    <3>2. CASE /\ ~(Num(i[t]) > max[t])
               /\ i' = [i EXCEPT ![t] = i[t] + 1] /\ pc' = [pc EXCEPT ![t] = "compare"]
      <4>1. pc'[t] = "compare" /\ i'[t] = i[t] + 1
        BY <1>0, <3>2 DEF TypeOK
      <4> QED BY <1>1, <2>1, <2>2, <2>5, <3>2, <4>1 DEF Door
    <3>3. CASE /\ ~(Num(i[t]) > max[t]) /\ i[t] = MAX_THREADS - 1
               /\ i' = [i EXCEPT ![t] = 0] /\ pc' = [pc EXCEPT ![t] = "ticket"]
      <4>1. pc'[t] = "ticket"
        BY <1>0, <3>3 DEF TypeOK
      <4> QED BY <1>1, <2>1, <2>2, <2>5, <3>3, <4>1 DEF Door
    <3> QED BY <1>1, <3>1, <3>2, <3>3
  <2> QED BY <2>4, <2>6 DEF Pair
<1> QED BY <1>0, <1>1, <1>3, <1>4, <1>5, OneThread DEF TypeOK

LEMMA StepTake ==
    ASSUME LockInv, NEW t \in Thread, Take(t)
    PROVE  LockInv'
<1>0. TypeOK /\ Delayed(t) /\ Stored(t) /\ Index(t)
  BY DEF LockInv
<1>1. /\ pc[t] = "take" /\ i[t] \in Thread
      /\ mem' = mem /\ buffer' = buffer /\ reg' = reg /\ n' = n
      /\ max' = [max EXCEPT ![t] = Num(i[t])] /\ Num(i[t]) \in Nat
      /\ \/ /\ i[t] + 1 \in Thread
            /\ i' = [i EXCEPT ![t] = i[t] + 1] /\ pc' = [pc EXCEPT ![t] = "compare"]
         \/ /\ i[t] = MAX_THREADS - 1
            /\ i' = [i EXCEPT ![t] = 0] /\ pc' = [pc EXCEPT ![t] = "ticket"]
  <2>1. i[t] \in Thread /\ pc[t] = "take"
    BY <1>0 DEF Take, Index
  <2>2. Load(t, Number(i[t])) = Num(i[t]) /\ Num(i[t]) \in Nat
    BY <1>0, <2>1, TicketRead, Addresses DEF TypeOK, Num
  <2>3. Round(t, "compare", "ticket")
    BY DEF Take
  <2>4. /\ mem' = mem /\ buffer' = buffer /\ reg' = reg /\ n' = n
        /\ max' = [max EXCEPT ![t] = Num(i[t])]
    BY <2>2 DEF Take
  <2> QED BY <1>0, <2>1, <2>2, <2>3, <2>4, RoundSteps
<1>3. TypeOK'
  <2>1. pc' \in [Thread -> Label]
    BY <1>0, <1>1 DEF TypeOK, Label
  <2>2. i' \in [Thread -> Nat]
    BY <1>0, <1>1, ThreadFacts DEF TypeOK
  <2>3. max' \in [Thread -> Nat]
    BY <1>0, <1>1 DEF TypeOK
  <2> QED BY <1>0, <1>1, <2>1, <2>2, <2>3 DEF TypeOK
<1>4. Delayed(t)' /\ Stored(t)' /\ Index(t)'
  <2>1. Delayed(t)'
    BY <1>0, <1>1 DEF TypeOK, Delayed, Inside
  <2>2. Stored(t)'
    BY <1>0, <1>1 DEF TypeOK, Stored, Delayed, Num
  <2>3. Index(t)'
    BY <1>0, <1>1, ThreadFacts DEF TypeOK, Index, Waits
  <2> QED BY <2>1, <2>2, <2>3
<1>5. ASSUME NEW u \in Thread \ {t} PROVE Pair(t, u)' /\ Pair(u, t)'
  <2>1. Door(u, t)
    BY DEF LockInv, Pair
  <2>2. /\ pc'[u] = pc[u] /\ i'[u] = i[u] /\ Num(u)' = Num(u)
        /\ max'[t] = Num(i[t])
        /\ Num(u) \in Nat /\ Num(i[t]) \in Nat /\ max[t] \in Nat
        /\ u \in Nat /\ i[t] \in Nat /\ MAX_THREADS \in Nat /\ u <= MAX_THREADS - 1
    BY <1>0, <1>1, Addresses, ThreadFacts DEF TypeOK, Num
  <2>3. pc'[t] \in {"compare", "take", "ticket"}
    BY <1>0, <1>1 DEF TypeOK
  <2>4. Pair(t, u)' /\ Order(u, t)' /\ Tie(u, t)'
    BY <2>3 DEF Pair, Door, Order, Tie, Passed, Settled, HasTicket, Lead, Inside, Waits
  <2>5. ASSUME Passed(u, t)' PROVE Passed(u, t)
    BY <2>2, <2>5 DEF Passed, Lead, Inside, Waits
  <2>6. Door(u, t)'
    <3>2. CASE i' = [i EXCEPT ![t] = i[t] + 1] /\ pc' = [pc EXCEPT ![t] = "compare"]
      <4>1. pc'[t] = "compare" /\ i'[t] = i[t] + 1
        BY <1>0, <3>2 DEF TypeOK
      <4> QED BY <1>1, <2>1, <2>2, <2>5, <3>2, <4>1 DEF Door
    <3>3. CASE /\ i[t] = MAX_THREADS - 1
               /\ i' = [i EXCEPT ![t] = 0] /\ pc' = [pc EXCEPT ![t] = "ticket"]
      <4>1. pc'[t] = "ticket"
        BY <1>0, <3>3 DEF TypeOK
      <4> QED BY <1>1, <2>1, <2>2, <2>5, <3>3, <4>1 DEF Door
    <3> QED BY <1>1, <3>2, <3>3
  <2> QED BY <2>4, <2>6 DEF Pair
<1> QED BY <1>0, <1>1, <1>3, <1>4, <1>5, OneThread DEF TypeOK

LEMMA StepTicket ==
    ASSUME LockInv, NEW t \in Thread, Ticket(t)
    PROVE  LockInv'
<1>0. TypeOK /\ Delayed(t) /\ Stored(t) /\ Index(t)
  BY DEF LockInv
<1>1. /\ pc[t] = "ticket" /\ pc' = [pc EXCEPT ![t] = "chosen"]
      /\ buffer[t] = <<>> /\ Store(t, Number(t), 1 + max[t])
      /\ mem' = mem /\ i' = i /\ max' = max /\ reg' = reg /\ n' = n
  BY DEF Ticket, Fenced, Goto, local
<1>2. /\ buffer' \in [Thread -> Seq(Address \X Nat)]
      /\ \A u \in Thread \ {t} : buffer'[u] = buffer[u]
      /\ buffer'[t] = <<<<Number(t), 1 + max[t]>>>> /\ buffer'[t] # <<>>
  <2>1. 1 + max[t] \in Nat
    BY <1>0 DEF TypeOK
  <2> QED BY <1>0, <1>1, <2>1, StoreLast, Addresses
<1>3. TypeOK'
  BY <1>0, <1>1, <1>2 DEF TypeOK, Label
<1>4. Delayed(t)' /\ Stored(t)' /\ Index(t)'
  <2>1. Delayed(t)'
    BY <1>0, <1>1, <1>2 DEF TypeOK, Delayed, Inside
  <2>2. Stored(t)'
    BY <1>0, <1>1, <1>2 DEF TypeOK, Stored, Num
  <2>3. Index(t)'
    BY <1>0, <1>1, <1>2 DEF TypeOK, Index, Waits
  <2> QED BY <2>1, <2>2, <2>3
<1>5. ASSUME NEW u \in Thread \ {t} PROVE Pair(t, u)' /\ Pair(u, t)'
  <2>1. Pair(t, u) /\ Pair(u, t)
    BY DEF LockInv
  <2> QED BY <1>0, <1>1, <2>1, ThreadFacts
         DEF TypeOK, Pair, Door, Order, Tie, Passed, Settled, HasTicket,
     Before, Lead, Inside, Waits, Num
<1> QED BY <1>0, <1>1, <1>2, <1>3, <1>4, <1>5, OneThread DEF TypeOK

LEMMA StepEndChoosing ==
    ASSUME LockInv, NEW t \in Thread, EndChoosing(t)
    PROVE  LockInv'
<1>0. TypeOK /\ Delayed(t) /\ Stored(t) /\ Index(t)
  BY DEF LockInv
<1>1. /\ pc[t] = "chosen" /\ pc' = [pc EXCEPT ![t] = "choosing"]
      /\ buffer[t] = <<>> /\ Store(t, Choosing(t), 0)
      /\ mem' = mem /\ i' = i /\ max' = max /\ reg' = reg /\ n' = n
  BY DEF EndChoosing, Fenced, Goto, local
<1>2. /\ buffer' \in [Thread -> Seq(Address \X Nat)]
      /\ \A u \in Thread \ {t} : buffer'[u] = buffer[u]
      /\ buffer'[t] = <<<<Choosing(t), 0>>>> /\ buffer'[t] # <<>>
  <2>1. 0 \in Nat
    BY <1>0 DEF TypeOK
  <2> QED BY <1>0, <1>1, <2>1, StoreLast, Addresses
<1>3. TypeOK'
  BY <1>0, <1>1, <1>2 DEF TypeOK, Label
<1>4. Delayed(t)' /\ Stored(t)' /\ Index(t)'
  <2>1. Delayed(t)'
    BY <1>0, <1>1, <1>2 DEF TypeOK, Delayed, Inside
  <2>2. Stored(t)'
    BY <1>0, <1>1, <1>2 DEF TypeOK, Stored, Num
  <2>3. Index(t)'
    BY <1>0, <1>1, <1>2, ThreadFacts DEF TypeOK, Index, Waits
  <2> QED BY <2>1, <2>2, <2>3
<1>5. ASSUME NEW u \in Thread \ {t} PROVE Pair(t, u)' /\ Pair(u, t)'
  <2>1. Pair(t, u) /\ Pair(u, t)
    BY DEF LockInv
  <2>2. Num(u) \in Nat /\ Num(t) = 1 + max[t] /\ i[t] = 0
    BY <1>0, <1>1, Addresses DEF TypeOK, Num, Stored, Index
  <2> QED BY <1>0, <1>1, <2>1, <2>2, ThreadFacts, SMTT(60)
         DEF TypeOK, Pair, Door, Order, Tie, Passed, Settled, HasTicket,
     Before, Lead, Inside, Waits, Num
<1> QED BY <1>0, <1>1, <1>2, <1>3, <1>4, <1>5, OneThread DEF TypeOK

\* What others know of a thread that keeps its ticket.
LEMMA KeepsTicket ==
    ASSUME LockInv, NEW t \in Thread, NEW u \in Thread, t # u, mem' = mem,
           pc'[u] = pc[u], i'[u] = i[u], HasTicket(t), HasTicket(t)'
    PROVE  Pair(u, t)'
<1>1. Pair(u, t)
  BY DEF LockInv
<1>2. Num(t)' = Num(t) /\ Num(u)' = Num(u)
  BY DEF Num
<1>3. Order(u, t)' /\ Tie(u, t)'
  BY <1>1, <1>2 DEF Pair, Order, Tie, Settled, Before, Lead, Inside, Waits
<1>4. Door(u, t)'
  BY DEF Door, HasTicket, Lead, Inside, Waits
<1> QED BY <1>3, <1>4 DEF Pair

\* What a thread knows that leads and goes on leading.
LEMMA KeepsLead ==
    ASSUME LockInv, NEW t \in Thread, NEW u \in Thread, t # u, mem' = mem,
           pc'[u] = pc[u], i'[u] = i[u], max'[u] = max[u], Lead(t), Lead(t)'
    PROVE  Pair(t, u)' /\ Pair(u, t)'
<1>1. Pair(t, u)
  BY DEF LockInv
<1>2. Num(t)' = Num(t) /\ Num(u)' = Num(u) /\ Num(i[u])' = Num(i[u])
  BY DEF Num
<1>3. HasTicket(u)' <=> HasTicket(u)
  BY <1>2 DEF HasTicket, Lead, Inside, Waits
<1>4. Pair(t, u)'
  BY <1>1, <1>2, <1>3 DEF Pair, Door, Order, Tie, Passed, Settled, Before, Lead, Inside
<1>5. Pair(u, t)'
  BY KeepsTicket DEF HasTicket
<1> QED BY <1>4, <1>5

LEMMA StepWaitChoosing ==
    ASSUME LockInv, NEW t \in Thread, WaitChoosing(t)
    PROVE  LockInv'
<1>0. TypeOK /\ Delayed(t) /\ Stored(t) /\ Index(t)
  BY DEF LockInv
<1>1. /\ pc[t] = "choosing" /\ pc' = [pc EXCEPT ![t] = "waiting"]
      /\ mem' = mem /\ buffer' = buffer /\ i' = i /\ max' = max /\ reg' = reg /\ n' = n
      /\ i[t] # t => mem[Choosing(i[t])] = 0
  <2>1. pc[t] = "choosing" /\ i[t] \in Thread
    BY <1>0 DEF WaitChoosing, Index, Waits
  <2>2. i[t] # t => Load(t, Choosing(i[t])) = mem[Choosing(i[t])]
    BY <2>1, ChoosingRead
  <2> QED BY <2>1, <2>2 DEF WaitChoosing, Goto, local
<1>2. TypeOK'
  <2>1. pc' \in [Thread -> Label]
    BY <1>0, <1>1 DEF TypeOK, Label
  <2>2. i' \in [Thread -> Nat]
    BY <1>0, <1>1, ThreadFacts DEF TypeOK
  <2> QED BY <1>0, <1>1, <2>1, <2>2 DEF TypeOK
<1>3. Delayed(t)' /\ Stored(t)' /\ Index(t)'
  <2>1. Delayed(t)'
    BY <1>0, <1>1 DEF TypeOK, Delayed, Inside
  <2>2. Stored(t)'
    BY <1>0, <1>1 DEF TypeOK, Stored, Num
  <2>3. Index(t)'
    BY <1>0, <1>1, ThreadFacts DEF TypeOK, Index, Waits
  <2> QED BY <2>1, <2>2, <2>3
<1>4. ASSUME NEW u \in Thread \ {t} PROVE Pair(t, u)' /\ Pair(u, t)'
  <2>1. Pair(t, u)
    BY DEF LockInv
  <2>2. /\ pc'[u] = pc[u] /\ i'[u] = i[u] /\ max'[u] = max[u]
        /\ Num(u)' = Num(u) /\ Num(t)' = Num(t) /\ Num(i[u])' = Num(i[u])
        /\ Num(u) \in Nat /\ Num(t) \in Nat /\ max[u] \in Nat
        /\ u \in Nat /\ t \in Nat /\ i[t] \in Nat /\ u <= MAX_THREADS - 1 /\ i[u] \in Nat
    BY <1>0, <1>1, Addresses, ThreadFacts DEF TypeOK, Num
  <2>3. HasTicket(t) /\ HasTicket(t)'
    BY <1>0, <1>1 DEF TypeOK, HasTicket, Lead, Inside, Waits
  <2>4. Pair(u, t)'
    BY <1>1, <2>2, <2>3, KeepsTicket
  <2>5. HasTicket(u)' <=> HasTicket(u)
    BY <2>2 DEF HasTicket, Lead, Inside, Waits
  <2>6. Stored(u) /\ Delayed(u) /\ Index(u)
    BY DEF LockInv
  <2>7. i'[t] = i[t] /\ pc'[t] = "waiting"
    BY <1>0, <1>1 DEF TypeOK
  <2>8. Order(t, u)' /\ Tie(t, u)'
    BY <1>1, <2>1, <2>2, <2>5, <2>7 DEF Pair, Order, Tie, Settled, Before, Lead, Inside, Waits
  <2>9. Door(t, u)'
    <3>1. CASE Passed(t, u)
      BY <2>1, <2>2, <3>1 DEF Pair, Door
    <3>2. CASE ~Passed(t, u) /\ Passed(t, u)'
      <4>1. u = i[t] /\ mem[Choosing(u)] = 0
        BY <1>1, <2>7, <3>2 DEF Passed, Lead, Inside, Waits
      <4>2. pc[u] = "compare" => i[u] = 0
        BY <4>1, <2>6 DEF Stored, Delayed
      <4>3. pc[u] \notin {"take", "ticket", "chosen"}
        BY <4>1, <2>6 DEF Stored
      <4> QED BY <2>2, <4>2, <4>3 DEF Door
    <3> QED BY <3>1, <3>2 DEF Door
  <2> QED BY <2>4, <2>8, <2>9 DEF Pair
<1> QED BY <1>0, <1>1, <1>2, <1>3, <1>4, OneThread DEF TypeOK

LEMMA StepNoTicket ==
    ASSUME LockInv, NEW t \in Thread, NoTicket(t)
    PROVE  LockInv'
<1>0. TypeOK /\ Delayed(t) /\ Stored(t) /\ Index(t)
  BY DEF LockInv
<1>1. /\ pc[t] = "waiting" /\ buffer[t] = <<>> /\ i[t] \in Thread
      /\ mem' = mem /\ buffer' = buffer /\ max' = max /\ reg' = reg /\ n' = n
      /\ \/ pc' = [pc EXCEPT ![t] = "smaller"] /\ i' = i
         \/ /\ Num(i[t]) = 0
            /\ i[t] + 1 \in Thread
            /\ i' = [i EXCEPT ![t] = i[t] + 1] /\ pc' = [pc EXCEPT ![t] = "choosing"]
         \/ /\ Num(i[t]) = 0
            /\ i[t] = MAX_THREADS - 1
            /\ i' = [i EXCEPT ![t] = 0] /\ pc' = [pc EXCEPT ![t] = "enter"]
  <2>1. pc[t] = "waiting" /\ buffer[t] = <<>> /\ i[t] \in Thread
    BY <1>0 DEF NoTicket, Fenced, Index, Waits
  <2>2. Load(t, Number(i[t])) = Num(i[t])
    BY <2>1, TicketRead DEF Waits
  <2>3. \/ Num(i[t]) = 0 /\ Round(t, "choosing", "enter")
        \/ Goto(t, "smaller") /\ UNCHANGED i
    BY <2>2 DEF NoTicket
  <2>4. mem' = mem /\ buffer' = buffer /\ max' = max /\ reg' = reg /\ n' = n
    BY DEF NoTicket
  <2> QED BY <1>0, <2>1, <2>3, <2>4, RoundSteps DEF Goto
<1>2. TypeOK'
  <2>1. pc' \in [Thread -> Label]
    BY <1>0, <1>1 DEF TypeOK, Label
  <2>2. i' \in [Thread -> Nat]
    BY <1>0, <1>1, ThreadFacts DEF TypeOK
  <2> QED BY <1>0, <1>1, <2>1, <2>2 DEF TypeOK
<1>3. Delayed(t)' /\ Stored(t)' /\ Index(t)'
  <2>1. Delayed(t)'
    BY <1>0, <1>1 DEF TypeOK, Delayed, Inside
  <2>2. Stored(t)'
    BY <1>0, <1>1 DEF TypeOK, Stored, Num
  <2>3. Index(t)'
    <3>1. \/ pc'[t] = "smaller" /\ i'[t] \in Thread
          \/ pc'[t] = "choosing" /\ i'[t] \in Thread
          \/ pc'[t] = "enter" /\ i'[t] = 0
      BY <1>0, <1>1 DEF TypeOK
    <3> QED BY <3>1, ThreadFacts DEF Index, Waits
  <2> QED BY <2>1, <2>2, <2>3
<1>4. ASSUME NEW u \in Thread \ {t} PROVE Pair(t, u)' /\ Pair(u, t)'
  <2>1. Pair(t, u)
    BY DEF LockInv
  <2>2. /\ pc'[u] = pc[u] /\ i'[u] = i[u] /\ max'[u] = max[u]
        /\ Num(u)' = Num(u) /\ Num(t)' = Num(t) /\ Num(i[u])' = Num(i[u])
        /\ Num(u) \in Nat /\ Num(t) \in Nat /\ max[u] \in Nat
        /\ u \in Nat /\ t \in Nat /\ i[t] \in Nat /\ u <= MAX_THREADS - 1 /\ i[u] \in Nat
    BY <1>0, <1>1, Addresses, ThreadFacts DEF TypeOK, Num
  <2>3. HasTicket(t) /\ HasTicket(t)'
    BY <1>0, <1>1 DEF TypeOK, HasTicket, Lead, Inside, Waits
  <2>4. Pair(u, t)'
    BY <1>1, <2>2, <2>3, KeepsTicket
  <2>5. HasTicket(u)' <=> HasTicket(u)
    BY <2>2 DEF HasTicket, Lead, Inside, Waits
  <2>6. Stored(u) /\ Delayed(u) /\ Index(u)
    BY DEF LockInv
  <2>7. CASE pc' = [pc EXCEPT ![t] = "smaller"] /\ i' = i
    <3>1. pc'[t] = "smaller" /\ i'[t] = i[t]
      BY <1>0, <2>7 DEF TypeOK
    <3>2. (Passed(t, u)' <=> Passed(t, u)) /\ (Settled(t, u)' <=> Settled(t, u))
      BY <1>1, <3>1 DEF Passed, Settled, Lead, Inside, Waits
    <3>3. Pair(t, u)'
      BY <2>1, <2>2, <2>5, <3>1, <3>2 DEF Pair, Door, Order, Tie, Before
    <3> QED BY <2>4, <3>3
  <2>8. Num(i[t]) = 0 => (u = i[t] /\ HasTicket(u) => Before(t, u))
    <3>1. HasTicket(u) => Num(u) # 0
      BY <2>2, <2>6 DEF HasTicket, Stored, Lead, Inside, Waits
    <3> QED BY <3>1
  <2>9. CASE /\ Num(i[t]) = 0
             /\ i[t] + 1 \in Thread
             /\ i' = [i EXCEPT ![t] = i[t] + 1] /\ pc' = [pc EXCEPT ![t] = "choosing"]
    <3>1. pc'[t] = "choosing" /\ i'[t] = i[t] + 1
      BY <1>0, <2>9 DEF TypeOK
    <3>2. Settled(t, u)' => Settled(t, u) \/ u = i[t]
      BY <1>1, <2>2, <3>1 DEF Settled, Lead, Inside, Waits
    <3>3. Passed(t, u)' => Passed(t, u)
      BY <1>1, <2>2, <3>1 DEF Passed, Lead, Inside, Waits
    <3>4. u = i[t] /\ HasTicket(u) => Before(t, u)
      BY <2>8, <2>9
    <3>5. Order(t, u)' /\ Tie(t, u)'
      BY <2>1, <2>2, <2>5, <3>1, <3>2, <3>4 DEF Pair, Order, Tie, Before
    <3>6. Door(t, u)'
      BY <2>1, <2>2, <3>3 DEF Pair, Door
    <3> QED BY <2>4, <3>5, <3>6 DEF Pair
  <2>10. CASE /\ Num(i[t]) = 0
              /\ i[t] = MAX_THREADS - 1
              /\ i' = [i EXCEPT ![t] = 0] /\ pc' = [pc EXCEPT ![t] = "enter"]
    <3>1. pc'[t] = "enter"
      BY <1>0, <2>10 DEF TypeOK
    <3>2. Settled(t, u) \/ u = i[t]
      BY <1>1, <2>2, <2>10, ThreadFacts DEF Settled, Waits
    <3>3. Passed(t, u)
      BY <1>1, <3>2 DEF Passed, Settled, Lead, Inside, Waits
    <3>4. u = i[t] /\ HasTicket(u) => Before(t, u)
      BY <2>8, <2>10
    <3>5. Order(t, u)' /\ Tie(t, u)'
      BY <2>1, <2>2, <2>5, <3>1, <3>2, <3>4 DEF Pair, Order, Tie, Before
    <3>6. Door(t, u)'
      BY <2>1, <2>2, <3>3 DEF Pair, Door
    <3> QED BY <2>4, <3>5, <3>6 DEF Pair
  <2> QED BY <1>1, <2>7, <2>9, <2>10
<1> QED BY <1>0, <1>1, <1>2, <1>3, <1>4, OneThread DEF TypeOK

LEMMA StepSmaller ==
    ASSUME LockInv, NEW t \in Thread, Smaller(t)
    PROVE  LockInv'
<1>0. TypeOK /\ Delayed(t) /\ Stored(t) /\ Index(t)
  BY DEF LockInv
<1>1. /\ pc[t] = "smaller" /\ i[t] \in Thread
      /\ mem' = mem /\ buffer' = buffer /\ i' = i /\ max' = max /\ reg' = reg /\ n' = n
      /\ \/ pc' = [pc EXCEPT ![t] = "waiting"]
         \/ pc' = [pc EXCEPT ![t] = "equal"] /\ ~(Num(i[t]) < Num(t))
  <2>1. pc[t] = "smaller" /\ i[t] \in Thread
    BY <1>0 DEF Smaller, Index, Waits
  <2>2. Load(t, Number(i[t])) = Num(i[t]) /\ Load(t, Number(t)) = Num(t)
    BY <2>1, TicketRead DEF Waits
  <2> QED BY <2>1, <2>2 DEF Smaller, Goto, local
<1>2. TypeOK'
  <2>1. pc' \in [Thread -> Label]
    BY <1>0, <1>1 DEF TypeOK, Label
  <2>2. i' \in [Thread -> Nat]
    BY <1>0, <1>1, ThreadFacts DEF TypeOK
  <2> QED BY <1>0, <1>1, <2>1, <2>2 DEF TypeOK
<1>3. Delayed(t)' /\ Stored(t)' /\ Index(t)'
  <2>1. Delayed(t)'
    BY <1>0, <1>1 DEF TypeOK, Delayed, Inside
  <2>2. Stored(t)'
    BY <1>0, <1>1 DEF TypeOK, Stored, Delayed, Num
  <2>3. Index(t)'
    BY <1>0, <1>1, ThreadFacts DEF TypeOK, Index, Waits
  <2> QED BY <2>1, <2>2, <2>3
<1>4. ASSUME NEW u \in Thread \ {t} PROVE Pair(t, u)' /\ Pair(u, t)'
  <2>1. Pair(t, u)
    BY DEF LockInv
  <2>2. /\ pc'[u] = pc[u] /\ i'[u] = i[u] /\ max'[u] = max[u]
        /\ Num(u)' = Num(u) /\ Num(t)' = Num(t) /\ Num(i[u])' = Num(i[u])
        /\ Num(u) \in Nat /\ Num(t) \in Nat /\ max[u] \in Nat
        /\ u \in Nat /\ t \in Nat /\ i[t] \in Nat /\ u <= MAX_THREADS - 1 /\ i[u] \in Nat
    BY <1>0, <1>1, Addresses, ThreadFacts DEF TypeOK, Num
  <2>3. HasTicket(t) /\ HasTicket(t)'
    BY <1>0, <1>1 DEF TypeOK, HasTicket, Lead, Inside, Waits
  <2>4. Pair(u, t)'
    BY <1>1, <2>2, <2>3, KeepsTicket
  <2>5. HasTicket(u)' <=> HasTicket(u)
    BY <2>2 DEF HasTicket, Lead, Inside, Waits
  <2>6. Stored(u) /\ Delayed(u) /\ Index(u)
    BY DEF LockInv
  <2>7. /\ i'[t] = i[t] /\ pc'[t] \in {"waiting", "equal"}
        /\ pc'[t] = "equal" => ~(Num(i[t]) < Num(t))
    BY <1>0, <1>1 DEF TypeOK
  <2>8. (Passed(t, u)' <=> Passed(t, u)) /\ (Settled(t, u)' <=> Settled(t, u))
    BY <1>1, <2>7 DEF Passed, Settled, Lead, Inside, Waits
  <2>9. Door(t, u)' /\ Order(t, u)'
    BY <2>1, <2>2, <2>5, <2>8 DEF Pair, Door, Order, Before
  <2>10. Tie(t, u)'
    BY <2>2, <2>7 DEF Tie
  <2> QED BY <2>4, <2>9, <2>10 DEF Pair
<1> QED BY <1>0, <1>1, <1>2, <1>3, <1>4, OneThread DEF TypeOK

LEMMA StepEqual ==
    ASSUME LockInv, NEW t \in Thread, Equal(t)
    PROVE  LockInv'
<1>0. TypeOK /\ Delayed(t) /\ Stored(t) /\ Index(t)
  BY DEF LockInv
<1>1. /\ pc[t] = "equal" /\ i[t] \in Thread
      /\ mem' = mem /\ buffer' = buffer /\ max' = max /\ reg' = reg /\ n' = n
      /\ \/ pc' = [pc EXCEPT ![t] = "waiting"] /\ i' = i
         \/ /\ ~(Num(i[t]) = Num(t) /\ i[t] < t)
            /\ i[t] + 1 \in Thread
            /\ i' = [i EXCEPT ![t] = i[t] + 1] /\ pc' = [pc EXCEPT ![t] = "choosing"]
         \/ /\ ~(Num(i[t]) = Num(t) /\ i[t] < t)
            /\ i[t] = MAX_THREADS - 1
            /\ i' = [i EXCEPT ![t] = 0] /\ pc' = [pc EXCEPT ![t] = "enter"]
  <2>1. pc[t] = "equal" /\ i[t] \in Thread
    BY <1>0 DEF Equal, Index, Waits
  <2>2. Load(t, Number(i[t])) = Num(i[t]) /\ Load(t, Number(t)) = Num(t)
    BY <2>1, TicketRead DEF Waits
  <2>3. \/ ~(Num(i[t]) = Num(t) /\ i[t] < t) /\ Round(t, "choosing", "enter")
        \/ Goto(t, "waiting") /\ UNCHANGED i
    BY <2>2 DEF Equal
  <2>4. mem' = mem /\ buffer' = buffer /\ max' = max /\ reg' = reg /\ n' = n
    BY DEF Equal
  <2> QED BY <1>0, <2>1, <2>3, <2>4, RoundSteps DEF Goto
<1>2. TypeOK'
  <2>1. pc' \in [Thread -> Label]
    BY <1>0, <1>1 DEF TypeOK, Label
  <2>2. i' \in [Thread -> Nat]
    BY <1>0, <1>1, ThreadFacts DEF TypeOK
  <2> QED BY <1>0, <1>1, <2>1, <2>2 DEF TypeOK
<1>3. Delayed(t)' /\ Stored(t)' /\ Index(t)'
  <2>1. Delayed(t)'
    BY <1>0, <1>1 DEF TypeOK, Delayed, Inside
  <2>2. Stored(t)'
    BY <1>0, <1>1 DEF TypeOK, Stored, Delayed, Num
  <2>3. Index(t)'
    <3>1. \/ pc'[t] = "waiting" /\ i'[t] \in Thread
          \/ pc'[t] = "choosing" /\ i'[t] \in Thread
          \/ pc'[t] = "enter" /\ i'[t] = 0
      BY <1>0, <1>1 DEF TypeOK
    <3> QED BY <3>1, ThreadFacts DEF Index, Waits
  <2> QED BY <2>1, <2>2, <2>3
<1>4. ASSUME NEW u \in Thread \ {t} PROVE Pair(t, u)' /\ Pair(u, t)'
  <2>1. Pair(t, u)
    BY DEF LockInv
  <2>2. /\ pc'[u] = pc[u] /\ i'[u] = i[u] /\ max'[u] = max[u]
        /\ Num(u)' = Num(u) /\ Num(t)' = Num(t) /\ Num(i[u])' = Num(i[u])
        /\ Num(u) \in Nat /\ Num(t) \in Nat /\ max[u] \in Nat
        /\ u \in Nat /\ t \in Nat /\ i[t] \in Nat /\ u <= MAX_THREADS - 1 /\ i[u] \in Nat
    BY <1>0, <1>1, Addresses, ThreadFacts DEF TypeOK, Num
  <2>3. HasTicket(t) /\ HasTicket(t)'
    BY <1>0, <1>1 DEF TypeOK, HasTicket, Lead, Inside, Waits
  <2>4. Pair(u, t)'
    BY <1>1, <2>2, <2>3, KeepsTicket
  <2>5. HasTicket(u)' <=> HasTicket(u)
    BY <2>2 DEF HasTicket, Lead, Inside, Waits
  <2>6. Stored(u) /\ Delayed(u) /\ Index(u)
    BY DEF LockInv
  <2>7. CASE pc' = [pc EXCEPT ![t] = "waiting"] /\ i' = i
    <3>1. pc'[t] = "waiting" /\ i'[t] = i[t]
      BY <1>0, <2>7 DEF TypeOK
    <3>2. (Passed(t, u)' <=> Passed(t, u)) /\ (Settled(t, u)' <=> Settled(t, u))
      BY <1>1, <3>1 DEF Passed, Settled, Lead, Inside, Waits
    <3>3. Pair(t, u)'
      BY <2>1, <2>2, <2>5, <3>1, <3>2 DEF Pair, Door, Order, Tie, Before
    <3> QED BY <2>4, <3>3
  <2>8. ~(Num(i[t]) = Num(t) /\ i[t] < t) => (u = i[t] /\ HasTicket(u) => Before(t, u))
    <3>1. u = i[t] /\ HasTicket(u) => Num(t) <= Num(u)
      BY <1>1, <2>1 DEF Pair, Tie
    <3>2. u < t \/ t < u
      BY <2>2
    <3> QED BY <2>2, <3>1, <3>2 DEF Before
  <2>9. CASE /\ ~(Num(i[t]) = Num(t) /\ i[t] < t)
             /\ i[t] + 1 \in Thread
             /\ i' = [i EXCEPT ![t] = i[t] + 1] /\ pc' = [pc EXCEPT ![t] = "choosing"]
    <3>1. pc'[t] = "choosing" /\ i'[t] = i[t] + 1
      BY <1>0, <2>9 DEF TypeOK
    <3>2. Settled(t, u)' => Settled(t, u) \/ u = i[t]
      BY <1>1, <2>2, <3>1 DEF Settled, Lead, Inside, Waits
    <3>3. Passed(t, u)' => Passed(t, u)
      BY <1>1, <2>2, <3>1 DEF Passed, Lead, Inside, Waits
    <3>4. u = i[t] /\ HasTicket(u) => Before(t, u)
      BY <2>8, <2>9
    <3>5. Order(t, u)' /\ Tie(t, u)'
      BY <2>1, <2>2, <2>5, <3>1, <3>2, <3>4 DEF Pair, Order, Tie, Before
    <3>6. Door(t, u)'
      BY <2>1, <2>2, <3>3 DEF Pair, Door
    <3> QED BY <2>4, <3>5, <3>6 DEF Pair
  <2>10. CASE /\ ~(Num(i[t]) = Num(t) /\ i[t] < t)
              /\ i[t] = MAX_THREADS - 1
              /\ i' = [i EXCEPT ![t] = 0] /\ pc' = [pc EXCEPT ![t] = "enter"]
    <3>1. pc'[t] = "enter"
      BY <1>0, <2>10 DEF TypeOK
    <3>2. Settled(t, u) \/ u = i[t]
      BY <1>1, <2>2, <2>10, ThreadFacts DEF Settled, Waits
    <3>3. Passed(t, u)
      BY <1>1, <3>2 DEF Passed, Settled, Lead, Inside, Waits
    <3>4. u = i[t] /\ HasTicket(u) => Before(t, u)
      BY <2>8, <2>10
    <3>5. Order(t, u)' /\ Tie(t, u)'
      BY <2>1, <2>2, <2>5, <3>1, <3>2, <3>4 DEF Pair, Order, Tie, Before
    <3>6. Door(t, u)'
      BY <2>1, <2>2, <3>3 DEF Pair, Door
    <3> QED BY <2>4, <3>5, <3>6 DEF Pair
  <2> QED BY <1>1, <2>7, <2>9, <2>10
<1> QED BY <1>0, <1>1, <1>2, <1>3, <1>4, OneThread DEF TypeOK

\* A thread that leads changes nothing of what the others may rely on.
LEMMA StepEnter ==
    ASSUME LockInv, NEW t \in Thread, Enter(t)
    PROVE  LockInv'
<1>0. TypeOK /\ Delayed(t) /\ Stored(t) /\ Index(t)
  BY DEF LockInv
<1>1. /\ pc[t] = "enter" /\ mem' = mem /\ buffer' = buffer /\ max' = max /\ n' = n
      /\ reg' \in [Thread -> Nat]
      /\ \/ pc' = [pc EXCEPT ![t] = "add"] /\ i' = i /\ i[t] < NUM_ITERS
         \/ pc' = [pc EXCEPT ![t] = "unlock"] /\ i' = [i EXCEPT ![t] = 0]
  <2>1. pc[t] = "enter" /\ Load(t, Shared) \in Nat
    BY SharedRead DEF Enter, Inside
  <2> QED BY <1>0, <2>1 DEF TypeOK, Enter, Goto
<1>2. TypeOK'
  <2>1. pc' \in [Thread -> Label]
    BY <1>0, <1>1 DEF TypeOK, Label
  <2>2. i' \in [Thread -> Nat]
    <3>1. i' = i \/ i' = [i EXCEPT ![t] = 0]
      BY <1>1
    <3>2. CASE i' = i
      BY <1>0, <3>2 DEF TypeOK
    <3>3. CASE i' = [i EXCEPT ![t] = 0]
      BY <1>0, <3>3 DEF TypeOK
    <3> QED BY <3>1, <3>2, <3>3
  <2> QED BY <1>0, <1>1, <2>1, <2>2 DEF TypeOK
<1>3. Delayed(t)' /\ Stored(t)' /\ Index(t)'
  <2>1. Delayed(t)'
    BY <1>0, <1>1 DEF TypeOK, Delayed, Inside
  <2>2. Stored(t)'
    BY <1>0, <1>1 DEF TypeOK, Stored, Num
  <2>3. Index(t)'
    BY <1>0, <1>1 DEF TypeOK, Index, Waits
  <2> QED BY <2>1, <2>2, <2>3
<1>4. ASSUME NEW u \in Thread \ {t} PROVE Pair(t, u)' /\ Pair(u, t)'
  <2>1. Lead(t) /\ Lead(t)'
    BY <1>0, <1>1 DEF TypeOK, Lead, Inside
  <2>2. pc'[u] = pc[u] /\ i'[u] = i[u] /\ max'[u] = max[u]
    BY <1>0, <1>1 DEF TypeOK
  <2> QED BY <1>1, <2>1, <2>2, KeepsLead
<1> QED BY <1>0, <1>1, <1>2, <1>3, <1>4, OneThread DEF TypeOK

LEMMA StepAdd ==
    ASSUME LockInv, NEW t \in Thread, Add(t)
    PROVE  LockInv'
<1>0. TypeOK /\ Delayed(t) /\ Stored(t) /\ Index(t)
  BY DEF LockInv
<1>1. /\ pc[t] = "add" /\ pc' = [pc EXCEPT ![t] = "enter"] /\ Store(t, Shared, reg[t] + 1)
      /\ mem' = mem /\ i' = [i EXCEPT ![t] = i[t] + 1] /\ max' = max /\ reg' = reg /\ n' = n
  BY DEF Add, Goto, local
<1>2. /\ buffer' \in [Thread -> Seq(Address \X Nat)]
      /\ \A u \in Thread \ {t} : buffer'[u] = buffer[u]
      /\ Len(buffer'[t]) = Len(buffer[t]) + 1 /\ Len(buffer[t]) \in Nat
      /\ buffer'[t] # <<>>
      /\ buffer'[t][Len(buffer[t]) + 1] = <<Shared, reg[t] + 1>>
      /\ \A k \in 1 .. Len(buffer[t]) : buffer'[t][k] = buffer[t][k]
  <2>1. reg[t] + 1 \in Nat
    BY <1>0 DEF TypeOK
  <2>2. Len(buffer[t]) \in Nat
    BY <1>0 DEF TypeOK
  <2> QED BY <1>0, <1>1, <2>1, <2>2, StoreLast, Addresses
<1>3. TypeOK'
  <2>1. pc' \in [Thread -> Label] /\ i' \in [Thread -> Nat]
    BY <1>0, <1>1 DEF TypeOK, Label
  <2> QED BY <1>0, <1>1, <1>2, <2>1 DEF TypeOK
<1>4. Delayed(t)' /\ Stored(t)' /\ Index(t)'
  <2>1. pc'[t] = "enter" /\ i'[t] = i[t] + 1
    BY <1>0, <1>1 DEF TypeOK
  <2>2. \A k \in 1 .. Len(buffer[t]) : buffer[t][k][1] = Shared
    BY <1>0, <1>1 DEF Delayed, Inside
  <2>3. Delayed(t)'
    <3>1. ASSUME NEW k \in 1 .. Len(buffer'[t]) PROVE buffer'[t][k][1] = Shared
      <4>1. k \in 1 .. Len(buffer[t]) \/ k = Len(buffer[t]) + 1
        BY <1>2
      <4>2. CASE k \in 1 .. Len(buffer[t])
        BY <1>2, <2>2, <4>2
      <4>3. CASE k = Len(buffer[t]) + 1
        <5>1. buffer'[t][k] = <<Shared, reg[t] + 1>>
          BY <1>2, <4>3
        <5> QED BY <5>1
      <4> QED BY <4>1, <4>2, <4>3
    <3> QED BY <2>1, <3>1 DEF Delayed, Inside
  <2>4. Stored(t)'
    BY <1>0, <1>1, <1>2, <2>1 DEF Stored, Num
  <2>5. Index(t)'
    BY <1>0, <1>1, <2>1, ThreadFacts DEF TypeOK, Index, Waits
  <2> QED BY <2>3, <2>4, <2>5
<1>5. ASSUME NEW u \in Thread \ {t} PROVE Pair(t, u)' /\ Pair(u, t)'
  <2>1. Num(t) > 0
    BY <1>0, <1>1 DEF Stored
  <2>2. Lead(t) /\ Lead(t)'
    BY <1>0, <1>1, <2>1 DEF TypeOK, Lead, Inside, Num
  <2>3. pc'[u] = pc[u] /\ i'[u] = i[u] /\ max'[u] = max[u]
    BY <1>0, <1>1 DEF TypeOK
  <2> QED BY <1>1, <2>2, <2>3, KeepsLead
<1> QED BY <1>0, <1>1, <1>2, <1>3, <1>4, <1>5, OneThread DEF TypeOK

LEMMA StepUnlock ==
    ASSUME LockInv, NEW t \in Thread, Unlock(t)
    PROVE  LockInv'
<1>0. TypeOK /\ Delayed(t) /\ Stored(t) /\ Index(t)
  BY DEF LockInv
<1>1. /\ pc[t] = "unlock" /\ pc' = [pc EXCEPT ![t] = "done"] /\ Store(t, Number(t), 0)
      /\ mem' = mem /\ i' = i /\ max' = max /\ reg' = reg /\ n' = n
  BY DEF Unlock, Goto, local
<1>2. /\ buffer' \in [Thread -> Seq(Address \X Nat)]
      /\ \A u \in Thread \ {t} : buffer'[u] = buffer[u]
      /\ Len(buffer'[t]) = Len(buffer[t]) + 1 /\ Len(buffer[t]) \in Nat
      /\ buffer'[t] # <<>>
      /\ buffer'[t][Len(buffer[t]) + 1] = <<Number(t), 0>>
      /\ \A k \in 1 .. Len(buffer[t]) : buffer'[t][k] = buffer[t][k]
  <2>1. 0 \in Nat
    BY <1>0 DEF TypeOK
  <2>2. Len(buffer[t]) \in Nat
    BY <1>0 DEF TypeOK
  <2> QED BY <1>0, <1>1, <2>1, <2>2, StoreLast, Addresses
<1>3. TypeOK'
  <2>1. pc' \in [Thread -> Label] /\ i' \in [Thread -> Nat]
    BY <1>0, <1>1 DEF TypeOK, Label
  <2> QED BY <1>0, <1>1, <1>2, <2>1 DEF TypeOK
<1>4. Delayed(t)' /\ Stored(t)' /\ Index(t)'
  <2>1. pc'[t] = "done" /\ i'[t] = i[t]
    BY <1>0, <1>1 DEF TypeOK
  <2>2. \A k \in 1 .. Len(buffer[t]) : buffer[t][k][1] = Shared
    BY <1>0, <1>1 DEF Delayed, Inside
  <2>3. Delayed(t)'
    <3>1. Len(buffer'[t]) - 1 = Len(buffer[t])
      BY <1>2
    <3>2. \A k \in 1 .. Len(buffer'[t]) - 1 : buffer'[t][k][1] = Shared
      BY <1>2, <2>2, <3>1
    <3>3. buffer'[t][Len(buffer'[t])] = <<Number(t), 0>>
      BY <1>2
    <3> QED BY <2>1, <3>2, <3>3 DEF Delayed, Inside
  <2>4. Stored(t)'
    BY <1>0, <1>1, <1>2, <2>1 DEF Stored, Num
  <2>5. Index(t)'
    BY <1>0, <1>1, <2>1, ThreadFacts DEF TypeOK, Index, Waits
  <2> QED BY <2>3, <2>4, <2>5
<1>5. ASSUME NEW u \in Thread \ {t} PROVE Pair(t, u)' /\ Pair(u, t)'
  <2>1. Num(t) > 0
    BY <1>0, <1>1 DEF Stored
  <2>2. Lead(t) /\ Lead(t)'
    BY <1>0, <1>1, <2>1 DEF TypeOK, Lead, Inside, Num
  <2>3. pc'[u] = pc[u] /\ i'[u] = i[u] /\ max'[u] = max[u]
    BY <1>0, <1>1 DEF TypeOK
  <2> QED BY <1>1, <2>2, <2>3, KeepsLead
<1> QED BY <1>0, <1>1, <1>2, <1>3, <1>4, <1>5, OneThread DEF TypeOK

-----------------------------------------------------------------------------
(* What a flush does. *)

\* The oldest store of a thread reaches memory: one of five.
LEMMA FlushEffect ==
    ASSUME LockInv, NEW t \in Thread, Flush(t)
    PROVE  /\ UNCHANGED <<pc, i, max, reg, n>>
           /\ \A u \in Thread \ {t} : buffer'[u] = buffer[u]
           /\ buffer'[t] = Tail(buffer[t]) /\ buffer[t] # <<>>
           /\ \/ /\ pc[t] = "compare" /\ buffer'[t] = <<>>
                 /\ mem' = [mem EXCEPT ![Choosing(t)] = 1]
              \/ /\ pc[t] = "chosen" /\ buffer'[t] = <<>>
                 /\ mem' = [mem EXCEPT ![Number(t)] = 1 + max[t]]
              \/ /\ pc[t] \in {"choosing", "waiting"} /\ buffer'[t] = <<>>
                 /\ mem' = [mem EXCEPT ![Choosing(t)] = 0]
              \/ /\ Inside(t) \/ (pc[t] = "done" /\ Len(buffer[t]) > 1)
                 /\ mem' = [mem EXCEPT ![Shared] = buffer[t][1][2]]
              \/ /\ pc[t] = "done" /\ Len(buffer[t]) = 1 /\ buffer'[t] = <<>>
                 /\ mem' = [mem EXCEPT ![Number(t)] = 0]
<1>0. TypeOK /\ Delayed(t)
  BY DEF LockInv
<1>1. /\ buffer[t] \in Seq(Address \X Nat) /\ buffer[t] # <<>>
      /\ Len(buffer[t]) \in Nat /\ Len(buffer[t]) >= 1
      /\ Head(buffer[t]) = buffer[t][1]
  BY <1>0 DEF TypeOK, Flush
<1>2. /\ UNCHANGED <<pc, i, max, reg, n>>
      /\ mem' = [mem EXCEPT ![buffer[t][1][1]] = buffer[t][1][2]]
      /\ buffer' = [buffer EXCEPT ![t] = Tail(buffer[t])]
  BY <1>1 DEF Flush, local
<1>3. buffer'[t] = Tail(buffer[t]) /\ \A u \in Thread \ {t} : buffer'[u] = buffer[u]
  BY <1>0, <1>2 DEF TypeOK
<1>4. CASE pc[t] = "compare"
  <2>1. buffer[t] = <<<<Choosing(t), 1>>>>
    BY <1>0, <1>1, <1>4 DEF Delayed
  <2>2. buffer[t][1] = <<Choosing(t), 1>> /\ Tail(buffer[t]) = <<>>
    BY <2>1
  <2>3. mem' = [mem EXCEPT ![Choosing(t)] = 1]
    BY <1>2, <2>2
  <2>4. buffer'[t] = <<>>
    BY <1>3, <2>2
  <2> QED BY <1>1, <1>2, <1>3, <1>4, <2>3, <2>4
<1>5. CASE pc[t] = "chosen"
  <2>1. buffer[t] = <<<<Number(t), 1 + max[t]>>>>
    BY <1>0, <1>1, <1>5 DEF Delayed
  <2>2. buffer[t][1] = <<Number(t), 1 + max[t]>> /\ Tail(buffer[t]) = <<>>
    BY <2>1
  <2>3. mem' = [mem EXCEPT ![Number(t)] = 1 + max[t]]
    BY <1>2, <2>2
  <2>4. buffer'[t] = <<>>
    BY <1>3, <2>2
  <2> QED BY <1>1, <1>2, <1>3, <1>5, <2>3, <2>4
<1>6. CASE pc[t] \in {"choosing", "waiting"}
  <2>1. buffer[t] = <<<<Choosing(t), 0>>>>
    BY <1>0, <1>1, <1>6 DEF Delayed
  <2>2. buffer[t][1] = <<Choosing(t), 0>> /\ Tail(buffer[t]) = <<>>
    BY <2>1
  <2>3. mem' = [mem EXCEPT ![Choosing(t)] = 0]
    BY <1>2, <2>2
  <2>4. buffer'[t] = <<>>
    BY <1>3, <2>2
  <2> QED BY <1>1, <1>2, <1>3, <1>6, <2>3, <2>4
<1>7. CASE Inside(t) \/ (pc[t] = "done" /\ Len(buffer[t]) > 1)
  <2>1. buffer[t][1][1] = Shared
    BY <1>0, <1>1, <1>7 DEF Delayed, Inside
  <2>2. mem' = [mem EXCEPT ![Shared] = buffer[t][1][2]]
    BY <1>2, <2>1
  <2> QED BY <1>1, <1>2, <1>3, <1>7, <2>2
<1>8. CASE pc[t] = "done" /\ Len(buffer[t]) = 1
  <2>1. buffer[t][1] = <<Number(t), 0>>
    BY <1>0, <1>1, <1>8 DEF Delayed
  <2>2. Tail(buffer[t]) = <<>>
    <3>1. Tail(buffer[t]) \in Seq(Address \X Nat) /\ Len(Tail(buffer[t])) = 0
      BY <1>1, <1>8
    <3> QED BY <3>1, EmptySeq
  <2>3. mem' = [mem EXCEPT ![Number(t)] = 0]
    BY <1>2, <2>1
  <2>4. buffer'[t] = <<>>
    BY <1>3, <2>2
  <2> QED BY <1>1, <1>2, <1>3, <1>8, <2>3, <2>4
<1>9. pc[t] \in {"compare", "chosen", "choosing", "waiting", "enter", "add", "unlock", "done"}
  BY <1>0, <1>1 DEF TypeOK, Delayed, Label
<1>10. Len(buffer[t]) > 1 \/ Len(buffer[t]) = 1
  <2>1. \A l \in Nat : l >= 1 => l > 1 \/ l = 1
    OBVIOUS
  <2> QED BY <1>1, <2>1
<1> QED BY <1>4, <1>5, <1>6, <1>7, <1>8, <1>9, <1>10 DEF Inside

\* A flush that changes no ticket leaves the pairs alone.
LEMMA SameTickets ==
    ASSUME LockInv, pc' = pc, i' = i, max' = max, \A x \in Thread : Num(x)' = Num(x)
    PROVE  \A s, u \in Thread : s # u => Pair(s, u)'
<1> SUFFICES ASSUME NEW s \in Thread, NEW u \in Thread, s # u PROVE Pair(s, u)'
  OBVIOUS
<1>1. Pair(s, u) /\ Index(u)
  BY DEF LockInv
<1>2. Num(s)' = Num(s) /\ Num(u)' = Num(u)
  OBVIOUS
<1>3. /\ Passed(s, u)' <=> Passed(s, u)
      /\ Settled(s, u)' <=> Settled(s, u)
      /\ HasTicket(u)' <=> HasTicket(u)
  BY <1>2 DEF Passed, Settled, HasTicket, Lead, Inside, Waits
<1>4. pc[u] = "take" => Num(i[u])' = Num(i[u])
  <2> SUFFICES ASSUME pc[u] = "take" PROVE Num(i[u])' = Num(i[u])
    OBVIOUS
  <2>1. i[u] \in Thread
    BY <1>1 DEF Index
  <2>2. PICK x \in Thread : x = i[u]
    BY <2>1
  <2> QED BY <2>2 DEF Num
<1> QED BY <1>1, <1>2, <1>3, <1>4 DEF Pair, Door, Order, Tie, Before

\* A ticket that is taken back has been read by nobody who still needs it.
LEMMA StepFlush ==
    ASSUME LockInv, NEW t \in Thread, Flush(t)
    PROVE  LockInv'
<1>0. TypeOK /\ Delayed(t) /\ Stored(t) /\ Index(t)
  BY DEF LockInv
<1>1. /\ UNCHANGED <<pc, i, max, reg, n>>
      /\ \A u \in Thread \ {t} : buffer'[u] = buffer[u]
      /\ buffer'[t] = Tail(buffer[t]) /\ buffer[t] # <<>>
  BY FlushEffect
<1>2. /\ buffer[t] \in Seq(Address \X Nat) /\ Len(buffer[t]) \in Nat
      /\ buffer'[t] \in Seq(Address \X Nat) /\ Len(buffer'[t]) = Len(buffer[t]) - 1
      /\ \A k \in 1 .. Len(buffer'[t]) : buffer'[t][k] = buffer[t][k + 1]
      /\ buffer[t][1] \in Address \X Nat
  <2>1. buffer[t] \in Seq(Address \X Nat)
    BY <1>0 DEF TypeOK
  <2>2. Len(buffer[t]) \in Nat /\ Head(buffer[t]) = buffer[t][1]
    BY <1>1, <2>1
  <2> QED BY <1>1, <2>1, <2>2, HeadTailProperties
<1>3. buffer' \in [Thread -> Seq(Address \X Nat)]
  BY <1>0, <1>2 DEF TypeOK, Flush
<1>4. \A u \in Thread \ {t} : Delayed(u)' /\ Index(u)'
  BY <1>1 DEF LockInv, Delayed, Index, Inside, Waits
<1>5. Index(t)'
  BY <1>0, <1>1 DEF Index, Waits
<1>6. ASSUME mem' \in [Address -> Nat], Delayed(t)', Stored(t)',
             \A u \in Thread \ {t} : /\ Num(u)' = Num(u)
                                     /\ mem'[Choosing(u)] = mem[Choosing(u)],
             \A s, u \in Thread : s # u => Pair(s, u)'
      PROVE  LockInv'
  <2>1. TypeOK'
    BY <1>0, <1>1, <1>3, <1>6 DEF TypeOK
  <2>2. ASSUME NEW u \in Thread \ {t} PROVE Stored(u)'
    BY <1>1, <1>6 DEF LockInv, Stored
  <2> QED BY <1>4, <1>5, <1>6, <2>1, <2>2 DEF LockInv
<1>7. ASSUME NEW v \in Nat, mem' = [mem EXCEPT ![Choosing(t)] = v],
             Delayed(t)', Stored(t)'
      PROVE  LockInv'
  <2>1. mem' \in [Address -> Nat] /\ \A x \in Thread : Num(x)' = Num(x)
    BY <1>0, <1>7, Addresses DEF TypeOK, Num
  <2>2. \A u \in Thread \ {t} : mem'[Choosing(u)] = mem[Choosing(u)]
    BY <1>0, <1>7, Addresses DEF TypeOK
  <2>3. \A s, u \in Thread : s # u => Pair(s, u)'
    BY <1>1, <2>1, SameTickets
  <2> QED BY <1>6, <1>7, <2>1, <2>2, <2>3
<1>8. CASE /\ pc[t] = "compare" /\ buffer'[t] = <<>>
           /\ mem' = [mem EXCEPT ![Choosing(t)] = 1]
  <2>1. Delayed(t)'
    BY <1>1, <1>8 DEF Delayed, Inside
  <2>2. Stored(t)'
    BY <1>0, <1>1, <1>8, Addresses DEF TypeOK, Stored, Num
  <2> QED BY <1>7, <1>8, <2>1, <2>2
<1>9. CASE /\ pc[t] \in {"choosing", "waiting"} /\ buffer'[t] = <<>>
           /\ mem' = [mem EXCEPT ![Choosing(t)] = 0]
  <2>1. Delayed(t)'
    BY <1>1, <1>9 DEF Delayed, Inside
  <2>2. Stored(t)'
    BY <1>0, <1>1, <1>9, Addresses DEF TypeOK, Stored, Num
  <2> QED BY <1>7, <1>9, <2>1, <2>2
<1>10. CASE /\ Inside(t) \/ (pc[t] = "done" /\ Len(buffer[t]) > 1)
            /\ mem' = [mem EXCEPT ![Shared] = buffer[t][1][2]]
  <2>1. mem' \in [Address -> Nat] /\ \A x \in Thread : Num(x)' = Num(x)
    BY <1>0, <1>2, <1>10, Addresses DEF TypeOK, Num
  <2>2. \A u \in Thread : mem'[Choosing(u)] = mem[Choosing(u)]
    BY <1>0, <1>10, Addresses DEF TypeOK
  <2>3. \A s, u \in Thread : s # u => Pair(s, u)'
    BY <1>1, <2>1, SameTickets
  <2>4. CASE Inside(t)
    <3>1. ASSUME NEW k \in 1 .. Len(buffer'[t]) PROVE buffer'[t][k][1] = Shared
      <4>1. k + 1 \in 1 .. Len(buffer[t])
        BY <1>2
      <4>2. buffer[t][k + 1][1] = Shared
        BY <1>0, <2>4, <4>1 DEF Delayed
      <4> QED BY <1>2, <4>2
    <3>2. Delayed(t)'
      BY <1>1, <2>4, <3>1 DEF Delayed, Inside
    <3>3. Stored(t)'
      BY <1>0, <1>1, <2>1, <2>2, <2>4 DEF Stored, Inside
    <3> QED BY <1>6, <2>1, <2>2, <2>3, <3>2, <3>3
  <2>5. CASE pc[t] = "done" /\ Len(buffer[t]) > 1
    <3>1. \A k \in 1 .. Len(buffer'[t]) - 1 : buffer'[t][k][1] = Shared
      BY <1>0, <1>1, <1>2, <2>5 DEF Delayed
    <3>2. buffer'[t][Len(buffer'[t])] = <<Number(t), 0>> /\ buffer'[t] # <<>>
      <4>1. buffer[t][Len(buffer[t])] = <<Number(t), 0>>
        BY <1>0, <1>1, <2>5 DEF Delayed
      <4>2. Len(buffer'[t]) \in 1 .. Len(buffer'[t]) /\ Len(buffer'[t]) + 1 = Len(buffer[t])
        BY <1>2, <2>5
      <4>3. buffer'[t] # <<>>
        BY <1>2, <4>2, EmptySeq
      <4> QED BY <1>2, <4>1, <4>2, <4>3
    <3>3. Delayed(t)'
      BY <1>1, <2>5, <3>1, <3>2 DEF Delayed, Inside
    <3>4. Stored(t)'
      BY <1>0, <1>1, <2>1, <2>2, <2>5, <3>2 DEF Stored
    <3> QED BY <1>6, <2>1, <2>2, <2>3, <3>3, <3>4
  <2> QED BY <1>10, <2>4, <2>5
<1>11. CASE /\ pc[t] = "chosen" /\ buffer'[t] = <<>>
            /\ mem' = [mem EXCEPT ![Number(t)] = 1 + max[t]]
  <2>1. /\ mem' \in [Address -> Nat] /\ Num(t)' = 1 + max[t] /\ max[t] \in Nat /\ Num(t) = 0
        /\ mem'[Choosing(t)] = mem[Choosing(t)]
    BY <1>0, <1>1, <1>11, Addresses, SMTT(60) DEF TypeOK, Num, Stored
  <2>2. \A u \in Thread \ {t} : Num(u)' = Num(u) /\ mem'[Choosing(u)] = mem[Choosing(u)]
    BY <1>0, <1>11, Addresses DEF TypeOK, Num
  <2>3. Delayed(t)'
    BY <1>1, <1>11 DEF Delayed, Inside
  <2>4. Stored(t)'
    BY <1>0, <1>1, <1>11, <2>1 DEF Stored
  <2>5. ASSUME NEW s \in Thread, NEW u \in Thread, s # u PROVE Pair(s, u)'
    <3>1. Pair(s, u) /\ Index(u) /\ max[u] \in Nat
      BY <1>0, <2>5 DEF LockInv, TypeOK
    <3>2. CASE s = t
      BY <1>1, <1>11, <3>2 DEF Pair, Door, Order, Tie, Passed, Settled, Lead, Inside, Waits
    <3>3. CASE s # t
      <4>1. Num(s)' = Num(s) /\ (u # t => Num(u)' = Num(u))
        BY <2>2, <3>3
      <4>2. (Passed(s, u)' <=> Passed(s, u)) /\ (Settled(s, u)' <=> Settled(s, u))
        BY <1>1, <4>1 DEF Passed, Settled, Lead, Inside, Waits
      <4>3. HasTicket(u)' => u # t /\ HasTicket(u)
        BY <1>1, <1>11, <4>1 DEF HasTicket, Lead, Inside, Waits
      <4>4. Order(s, u)' /\ Tie(s, u)'
        BY <1>1, <3>1, <4>1, <4>2, <4>3 DEF Pair, Order, Tie, Before
      <4>5. ASSUME Passed(s, u)', pc[u] = "take"
            PROVE  i[u] <= s \/ (Num(s) <= max[u] /\ max[u] < Num(i[u])')
        <5>1. i[u] <= s \/ (Num(s) <= max[u] /\ max[u] < Num(i[u]))
          BY <3>1, <4>2, <4>5 DEF Pair, Door
        <5>2. i[u] = t => ~(max[u] < Num(i[u]))
          BY <2>1, <3>1
        <5>3. i[u] # t => Num(i[u])' = Num(i[u])
          <6> SUFFICES ASSUME i[u] # t PROVE Num(i[u])' = Num(i[u])
            OBVIOUS
          <6>1. PICK x \in Thread \ {t} : x = i[u]
            BY <3>1, <4>5 DEF Index
          <6> QED BY <1>1, <2>2, <6>1 DEF Num
        <5> QED BY <5>1, <5>2, <5>3
      <4>6. Door(s, u)'
        BY <1>1, <3>1, <4>1, <4>2, <4>5 DEF Pair, Door
      <4> QED BY <4>4, <4>6 DEF Pair
    <3> QED BY <3>2, <3>3
  <2> QED BY <1>6, <2>1, <2>2, <2>3, <2>4, <2>5
<1>12. CASE /\ pc[t] = "done" /\ buffer'[t] = <<>>
            /\ mem' = [mem EXCEPT ![Number(t)] = 0]
  <2>1. /\ mem' \in [Address -> Nat] /\ Num(t)' = 0 /\ Num(t) > 0 /\ Num(t) \in Nat
        /\ mem'[Choosing(t)] = mem[Choosing(t)]
    BY <1>0, <1>1, <1>12, Addresses DEF TypeOK, Num, Stored
  <2>2. \A u \in Thread \ {t} : Num(u)' = Num(u) /\ mem'[Choosing(u)] = mem[Choosing(u)]
    BY <1>0, <1>12, Addresses DEF TypeOK, Num
  <2>3. Delayed(t)'
    BY <1>1, <1>12 DEF Delayed, Inside
  <2>4. Stored(t)'
    BY <1>0, <1>1, <1>12, <2>1 DEF Stored
  <2>5. ASSUME NEW s \in Thread, NEW u \in Thread, s # u PROVE Pair(s, u)'
    <3>1. Pair(s, u) /\ Index(u) /\ max[u] \in Nat
      BY <1>0, <2>5 DEF LockInv, TypeOK
    <3>2. CASE s = t
      BY <1>1, <1>12, <2>1, <3>2 DEF Pair, Door, Order, Tie, Passed, Settled, Lead, Inside, Waits
    <3>3. CASE s # t
      <4>1. Num(s)' = Num(s) /\ (u # t => Num(u)' = Num(u)) /\ Num(s) \in Nat
        BY <1>0, <2>2, <3>3, Addresses DEF TypeOK, Num
      <4>2. (Passed(s, u)' <=> Passed(s, u)) /\ (Settled(s, u)' <=> Settled(s, u))
        BY <1>1, <4>1 DEF Passed, Settled, Lead, Inside, Waits
      <4>3. HasTicket(u)' => u # t /\ HasTicket(u)
        BY <1>1, <1>12, <2>1, <4>1 DEF HasTicket, Lead, Inside, Waits
      <4>4. Order(s, u)' /\ Tie(s, u)'
        BY <1>1, <3>1, <4>1, <4>2, <4>3 DEF Pair, Order, Tie, Before
      <4>5. ASSUME Passed(s, u)', pc[u] = "take"
            PROVE  i[u] <= s \/ (Num(s) <= max[u] /\ max[u] < Num(i[u])')
        <5>1. i[u] <= s \/ (Num(s) <= max[u] /\ max[u] < Num(i[u]))
          BY <3>1, <4>2, <4>5 DEF Pair, Door
        <5>2. Num(t) <= Num(s)
          <6>1. Order(t, s)
            BY <3>3 DEF LockInv, Pair
          <6>2. Settled(t, s)
            BY <1>12, <2>1 DEF Settled, Lead
          <6>3. HasTicket(s)
            BY <4>2, <4>5 DEF Passed, HasTicket, Waits
          <6> QED BY <2>1, <4>1, <6>1, <6>2, <6>3 DEF Order, Before
        <5>3. i[u] = t => ~(Num(s) <= max[u] /\ max[u] < Num(i[u]))
          BY <2>1, <3>1, <4>1, <5>2
        <5>4. i[u] # t => Num(i[u])' = Num(i[u])
          <6> SUFFICES ASSUME i[u] # t PROVE Num(i[u])' = Num(i[u])
            OBVIOUS
          <6>1. PICK x \in Thread \ {t} : x = i[u]
            BY <3>1, <4>5 DEF Index
          <6> QED BY <1>1, <2>2, <6>1 DEF Num
        <5> QED BY <5>1, <5>3, <5>4
      <4>6. Door(s, u)'
        BY <1>1, <3>1, <4>1, <4>2, <4>5 DEF Pair, Door
      <4> QED BY <4>4, <4>6 DEF Pair
    <3> QED BY <3>2, <3>3
  <2> QED BY <1>6, <2>1, <2>2, <2>3, <2>4, <2>5
<1> QED BY <1>8, <1>9, <1>10, <1>11, <1>12, FlushEffect

-----------------------------------------------------------------------------
(* The lock: every step. *)

\* main() creates threads when nobody holds a ticket.
LEMMA StepCreate ==
    ASSUME LockInv, Create
    PROVE  LockInv'
<1>0. TypeOK /\ \A t \in Thread : Delayed(t) /\ Stored(t) /\ Index(t)
  BY DEF LockInv
<1>1. /\ \A t \in Thread : pc[t] = "done" /\ buffer[t] = <<>>
      /\ n' \in 0 .. MAX_THREADS - 1 /\ buffer' = buffer /\ i' = i
      /\ mem' = [mem EXCEPT ![Shared] = 0]
      /\ pc' = [t \in Thread |-> IF t < n' THEN "lock" ELSE "done"]
      /\ reg' = [t \in Thread |-> 0] /\ max' = [t \in Thread |-> 0]
  BY DEF Create, Joined
<1>2. TypeOK'
  <2>1. mem' \in [Address -> Nat]
    BY <1>0, <1>1 DEF TypeOK
  <2>2. pc' \in [Thread -> Label]
    BY <1>1 DEF Label
  <2>3. reg' \in [Thread -> Nat] /\ max' \in [Thread -> Nat]
    BY <1>1
  <2> QED BY <1>0, <1>1, <2>1, <2>2, <2>3 DEF TypeOK
<1>3. ASSUME NEW t \in Thread PROVE Delayed(t)' /\ Stored(t)' /\ Index(t)'
  <2>1. /\ Num(t)' = 0 /\ mem'[Choosing(t)] = 0 /\ i'[t] = 0 /\ buffer'[t] = <<>>
        /\ pc'[t] \in {"lock", "done"}
    BY <1>0, <1>1, Addresses DEF TypeOK, Num, Stored, Index
  <2> QED BY <2>1 DEF Delayed, Stored, Index, Inside, Waits
<1>4. ASSUME NEW s \in Thread, NEW u \in Thread PROVE Pair(s, u)'
  <2>1. Num(s)' = 0 /\ pc'[s] \in {"lock", "done"}
    BY <1>0, <1>1, Addresses DEF TypeOK, Num, Stored
  <2> QED BY <2>1 DEF Pair, Door, Order, Tie, Passed, Settled, Lead, Inside, Waits
<1> QED BY <1>2, <1>3, <1>4 DEF LockInv

LEMMA LockInit == Init => LockInv
<1> SUFFICES ASSUME Init PROVE LockInv
  OBVIOUS
<1>1. TypeOK
  BY ThreadFacts DEF Init, TypeOK, Label
<1>2. ASSUME NEW t \in Thread PROVE Delayed(t) /\ Stored(t) /\ Index(t)
  BY Addresses DEF Init, Delayed, Stored, Index, Inside, Waits, Num
<1>3. ASSUME NEW s \in Thread, NEW u \in Thread PROVE Pair(s, u)
  BY Addresses DEF Init, Pair, Door, Order, Tie, Passed, Settled, Lead, Inside, Waits, Num
<1> QED BY <1>1, <1>2, <1>3 DEF LockInv

LEMMA LockNext == LockInv /\ [Next]_vars => LockInv'
<1> SUFFICES ASSUME LockInv, [Next]_vars PROVE LockInv'
  OBVIOUS
<1>1. CASE Create
  BY <1>1, StepCreate
<1>2. ASSUME NEW t \in Thread, Step(t) PROVE LockInv'
  BY <1>2, StepStartChoosing, StepCompare, StepTake, StepTicket, StepEndChoosing,
     StepWaitChoosing, StepNoTicket, StepSmaller, StepEqual, StepEnter, StepAdd,
     StepUnlock DEF Step
<1>3. ASSUME NEW t \in Thread, Flush(t) PROVE LockInv'
  BY <1>3, StepFlush
<1>4. CASE UNCHANGED vars
  BY <1>4 DEF vars, local, LockInv, TypeOK, Delayed, Stored, Index, Pair, Door, Order,
     Tie, Passed, Settled, HasTicket, Before, Lead, Inside, Waits, Num
<1> QED BY <1>1, <1>2, <1>3, <1>4 DEF Next

-----------------------------------------------------------------------------
(* Mutual exclusion, and the increments. *)

\* Two threads that lead would each have to come before the other.
OneLeads == \A t, u \in Thread : Lead(t) /\ Lead(u) => t = u

LEMMA OneLead == LockInv => OneLeads
<1> SUFFICES ASSUME LockInv, NEW t \in Thread, NEW u \in Thread, Lead(t), Lead(u), t # u
             PROVE  FALSE
  BY DEF OneLeads
<1>1. Order(t, u) /\ Order(u, t)
  BY DEF LockInv, Pair
<1>2. Before(t, u) /\ Before(u, t)
  BY <1>1 DEF Order, Settled, HasTicket
<1>3. Num(t) \in Nat /\ Num(u) \in Nat /\ t \in Nat /\ u \in Nat
  BY Addresses, ThreadFacts DEF LockInv, TypeOK, Num
<1> QED BY <1>2, <1>3 DEF Before

LEMMA OneLeadNext == LockInv' => OneLeads'
BY OneLead, PTL

\* The threads that have returned can be counted.
LEMMA FinishedFinite == IsFiniteSet(Finished) /\ Cardinality(Finished) \in Nat /\ Made \in Nat
<1>1. IsFiniteSet(Thread)
  BY ThreadFacts, FS_Interval DEF Thread
<1>2. IsFiniteSet(Finished)
  BY <1>1, FS_Subset DEF Finished
<1>3. Cardinality(Finished) \in Nat
  BY <1>2, FS_CardinalityType
<1>4. Made \in Nat
  BY <1>3, ThreadFacts DEF Made
<1> QED BY <1>2, <1>3, <1>4

\* A step that touches one thread, which does not lead, makes no increment.
LEMMA CountQuiet ==
    ASSUME LockInv, CountInv, NEW t \in Thread, mem' = mem, n' = n,
           \A u \in Thread \ {t} : /\ pc'[u] = pc[u] /\ buffer'[u] = buffer[u]
                                   /\ i'[u] = i[u] /\ reg'[u] = reg[u],
           pc[t] # "done", pc'[t] # "done", ~Inside(t), ~Inside(t)'
    PROVE  CountInv'
<1>1. Finished' = Finished
  BY DEF Finished
<1>2. Made' = Made
  BY <1>1 DEF Made
<1>3. ASSUME NEW u \in Thread PROVE Lead(u)' <=> Lead(u)
  BY DEF Lead, Inside, Num
<1>4. ASSUME NEW u \in Thread PROVE CountOf(u)'
  <2>1. CountOf(u)
    BY DEF CountInv
  <2>2. CASE u = t
    BY <2>1, <2>2 DEF CountOf, Inside
  <2>3. CASE u # t
    <3>1. Sees(u)' = Sees(u)
      BY <2>3 DEF Sees
    <3> QED BY <1>2, <1>3, <2>1, <2>3, <3>1 DEF CountOf
  <2> QED BY <2>2, <2>3
<1> QED BY <1>2, <1>3, <1>4 DEF CountInv

\* The thread that gets the lock sees the increments of all before it.
LEMMA CountEnters ==
    ASSUME LockInv, CountInv, LockInv', NEW t \in Thread, mem' = mem, n' = n,
           \A u \in Thread \ {t} : pc'[u] = pc[u],
           buffer[t] = <<>>, buffer' = buffer,
           pc[t] # "done", ~Inside(t), pc'[t] = "enter", i'[t] = 0
    PROVE  CountInv'
<1>1. Finished' = Finished
  BY DEF Finished
<1>2. Made' = Made
  BY <1>1 DEF Made
<1>3. Lead(t)'
  BY DEF Lead, Inside
<1>4. ASSUME NEW u \in Thread PROVE ~Lead(u)
  <2>1. u # t => ~Lead(u)'
    BY <1>3, OneLeadNext DEF OneLeads
  <2>2. u # t => (Lead(u)' <=> Lead(u))
    BY DEF Lead, Inside, Num
  <2> QED BY <2>1, <2>2 DEF Lead
<1>5. mem[Shared] = Made
  BY <1>4 DEF CountInv
<1>6. Len(<<>>) = 0
  OBVIOUS
<1>7. Sees(t)' = mem[Shared]
  BY <1>6 DEF Sees
<1>8. CountOf(t)'
  <2>1. CountOf(t)
    BY DEF CountInv
  <2> QED BY <1>2, <1>5, <1>7, <2>1, FinishedFinite DEF CountOf
<1>9. ASSUME NEW u \in Thread \ {t} PROVE CountOf(u)'
  <2>1. CountOf(u) /\ ~Lead(u)
    BY <1>4 DEF CountInv
  <2>2. pc'[u] = pc[u] /\ buffer'[u] = buffer[u] /\ ~Lead(u)'
    BY <2>1 DEF Lead, Inside, Num
  <2> QED BY <2>1, <2>2 DEF CountOf, Lead, Inside
<1> QED BY <1>3, <1>8, <1>9 DEF CountInv

\* When one thread leads, only what it sees matters.
LEMMA CountLeads ==
    ASSUME LockInv, CountInv, LockInv', NEW t \in Thread, Lead(t), Lead(t)', n' = n,
           \A u \in Thread \ {t} : pc'[u] = pc[u] /\ buffer'[u] = buffer[u],
           CountOf(t)'
    PROVE  CountInv'
<1>1. ASSUME NEW u \in Thread \ {t} PROVE CountOf(u)'
  <2>1. CountOf(u)
    BY DEF CountInv
  <2>2. ~Lead(u) /\ ~Lead(u)'
    BY OneLead, OneLeadNext DEF OneLeads
  <2> QED BY <2>1, <2>2 DEF CountOf, Lead, Inside
<1> QED BY <1>1 DEF CountInv

LEMMA CountStepQuiet ==
    ASSUME LockInv, CountInv, LockInv', NEW t \in Thread,
           \/ StartChoosing(t) \/ Compare(t) \/ Take(t) \/ Ticket(t) \/ EndChoosing(t)
           \/ WaitChoosing(t) \/ Smaller(t)
    PROVE  CountInv'
<1>0. TypeOK
  BY DEF LockInv
<1>1. mem' = mem /\ n' = n /\ reg' = reg
  BY DEF StartChoosing, Compare, Take, Ticket, EndChoosing, WaitChoosing, Smaller, local
<1>2. \A u \in Thread \ {t} : pc'[u] = pc[u] /\ i'[u] = i[u]
  BY <1>0 DEF TypeOK, StartChoosing, Compare, Take, Ticket, EndChoosing, WaitChoosing,
     Smaller, Round, Goto, local
<1>3. \A u \in Thread \ {t} : buffer'[u] = buffer[u]
  BY <1>0 DEF TypeOK, StartChoosing, Compare, Take, Ticket, EndChoosing, WaitChoosing,
     Smaller, Store
<1>4. pc[t] \in {"lock", "compare", "take", "ticket", "chosen", "choosing", "smaller"}
  BY DEF StartChoosing, Compare, Take, Ticket, EndChoosing, WaitChoosing, Smaller
<1>5. pc'[t] \in {"compare", "take", "ticket", "chosen", "choosing", "waiting", "equal"}
  BY <1>0 DEF TypeOK, StartChoosing, Compare, Take, Ticket, EndChoosing, WaitChoosing,
     Smaller, Round, Goto
<1> QED BY <1>1, <1>2, <1>3, <1>4, <1>5, CountQuiet DEF Inside

LEMMA CountStepWaits ==
    ASSUME LockInv, CountInv, LockInv', NEW t \in Thread, NoTicket(t) \/ Equal(t)
    PROVE  CountInv'
<1>0. TypeOK /\ Delayed(t)
  BY DEF LockInv
<1>1. /\ mem' = mem /\ buffer' = buffer /\ reg' = reg /\ n' = n
      /\ pc[t] \in {"waiting", "equal"} /\ buffer[t] = <<>>
  BY <1>0 DEF NoTicket, Equal, Fenced, Delayed
<1>2. \A u \in Thread \ {t} : pc'[u] = pc[u] /\ i'[u] = i[u]
  BY <1>0 DEF TypeOK, NoTicket, Equal, Round, Goto
<1>3. \/ pc'[t] \in {"waiting", "smaller", "choosing"}
      \/ pc'[t] = "enter" /\ i'[t] = 0
  BY <1>0 DEF TypeOK, NoTicket, Equal, Round, Goto
<1>4. CASE pc'[t] \in {"waiting", "smaller", "choosing"}
  BY <1>1, <1>2, <1>4, CountQuiet DEF Inside
<1>5. CASE pc'[t] = "enter" /\ i'[t] = 0
  BY <1>1, <1>2, <1>5, CountEnters DEF Inside
<1> QED BY <1>3, <1>4, <1>5

LEMMA CountStepEnter ==
    ASSUME LockInv, CountInv, LockInv', NEW t \in Thread, Enter(t)
    PROVE  CountInv'
<1>0. TypeOK /\ Index(t) /\ CountOf(t)
  BY DEF LockInv, CountInv
<1>1. /\ pc[t] = "enter" /\ mem' = mem /\ buffer' = buffer /\ n' = n
      /\ \A u \in Thread \ {t} : pc'[u] = pc[u]
      /\ \/ pc'[t] = "add" /\ i'[t] = i[t] /\ reg'[t] = Load(t, Shared)
         \/ pc'[t] = "unlock" /\ i[t] = NUM_ITERS
  <2>1. pc[t] = "enter" => i[t] \in Nat /\ i[t] <= NUM_ITERS /\ NUM_ITERS \in Nat
    BY <1>0, ThreadFacts DEF TypeOK, Index
  <2>2. ~(i[t] < NUM_ITERS) /\ pc[t] = "enter" => i[t] = NUM_ITERS
    BY <2>1
  <2> QED BY <1>0, <2>2 DEF TypeOK, Enter, Goto
<1>2. Load(t, Shared) = Sees(t)
  BY <1>1, SharedRead DEF Inside
<1>3. Finished' = Finished
  BY <1>1 DEF Finished
<1>4. Made' = Made
  BY <1>3 DEF Made
<1>5. Sees(t)' = Sees(t)
  BY <1>1 DEF Sees
<1>6. CountOf(t)'
  BY <1>0, <1>1, <1>2, <1>4, <1>5 DEF CountOf
<1>7. Lead(t) /\ Lead(t)'
  BY <1>1 DEF Lead, Inside
<1> QED BY <1>1, <1>6, <1>7, CountLeads

LEMMA CountStepAdd ==
    ASSUME LockInv, CountInv, LockInv', NEW t \in Thread, Add(t)
    PROVE  CountInv'
<1>0. TypeOK /\ CountOf(t)
  BY DEF LockInv, CountInv
<1>1. /\ pc[t] = "add" /\ mem' = mem /\ n' = n /\ Store(t, Shared, reg[t] + 1)
      /\ \A u \in Thread \ {t} : pc'[u] = pc[u]
      /\ pc'[t] = "enter" /\ i'[t] = i[t] + 1 /\ i[t] \in Nat /\ reg[t] \in Nat
  BY <1>0 DEF TypeOK, Add, Goto
<1>2. /\ \A u \in Thread \ {t} : buffer'[u] = buffer[u]
      /\ Len(buffer'[t]) = Len(buffer[t]) + 1 /\ Len(buffer[t]) \in Nat
      /\ buffer'[t][Len(buffer[t]) + 1] = <<Shared, reg[t] + 1>>
  <2>1. reg[t] + 1 \in Nat /\ Len(buffer[t]) \in Nat
    BY <1>0, <1>1 DEF TypeOK
  <2> QED BY <1>0, <1>1, <2>1, StoreLast, Addresses
<1>3. Finished' = Finished
  BY <1>1 DEF Finished
<1>4. Made' = Made /\ Made \in Nat
  BY <1>3, FinishedFinite DEF Made
<1>5. Sees(t)' = reg[t] + 1
  <2>1. Len(buffer'[t]) # 0 /\ buffer'[t][Len(buffer'[t])] = <<Shared, reg[t] + 1>>
    BY <1>2
  <2> QED BY <1>1, <2>1 DEF Sees
<1>6. CountOf(t)'
  BY <1>0, <1>1, <1>4, <1>5 DEF CountOf
<1>7. Lead(t) /\ Lead(t)'
  BY <1>1 DEF Lead, Inside
<1> QED BY <1>1, <1>2, <1>6, <1>7, CountLeads

LEMMA CountStepUnlock ==
    ASSUME LockInv, CountInv, LockInv', NEW t \in Thread, Unlock(t)
    PROVE  CountInv'
<1>0. TypeOK /\ CountOf(t) /\ Stored(t)
  BY DEF LockInv, CountInv
<1>1. /\ pc[t] = "unlock" /\ mem' = mem /\ n' = n /\ Store(t, Number(t), 0)
      /\ \A u \in Thread \ {t} : pc'[u] = pc[u]
      /\ pc'[t] = "done"
  BY <1>0 DEF TypeOK, Unlock, Goto
<1>2. /\ \A u \in Thread \ {t} : buffer'[u] = buffer[u]
      /\ Len(buffer'[t]) = Len(buffer[t]) + 1 /\ Len(buffer[t]) \in Nat
      /\ \A k \in 1 .. Len(buffer[t]) : buffer'[t][k] = buffer[t][k]
  <2>1. Len(buffer[t]) \in Nat
    BY <1>0 DEF TypeOK
  <2> QED BY <1>0, <1>1, <2>1, StoreLast, Addresses
<1>3. t \in Nat /\ n \in Nat /\ t < n
  BY <1>0, <1>1, ThreadFacts DEF TypeOK, CountOf
<1>4. Finished' = Finished \cup {t} /\ t \notin Finished
  BY <1>1, <1>3 DEF Finished
<1>5. Made' = Made + NUM_ITERS
  <2>1. Cardinality(Finished') = Cardinality(Finished) + 1
    BY <1>4, FinishedFinite, FS_AddElement
  <2> DEFINE c == Cardinality(Finished)
  <2>2. c \in Nat /\ NUM_ITERS \in Nat
    BY FinishedFinite, ThreadFacts
  <2>3. NUM_ITERS * (c + 1) = NUM_ITERS * c + NUM_ITERS
    <3> HIDE DEF c
    <3> QED BY <2>2
  <2> QED BY <2>1, <2>3 DEF Made
<1>6. Sees(t)' = Sees(t)
  <2> DEFINE len == Len(buffer[t])
  <2>1. Len(buffer'[t]) - 1 = len
    BY <1>2
  <2>2. len # 0 => buffer'[t][len] = buffer[t][len]
    BY <1>2
  <2>3. Sees(t)' = IF len = 0 THEN mem[Shared] ELSE buffer'[t][len][2]
    BY <1>1, <2>1 DEF Sees
  <2>4. Sees(t) = IF len = 0 THEN mem[Shared] ELSE buffer[t][len][2]
    BY <1>1 DEF Sees
  <2> QED BY <2>2, <2>3, <2>4
<1>7. CountOf(t)'
  BY <1>0, <1>1, <1>3, <1>5, <1>6 DEF CountOf
<1>8. Lead(t) /\ Lead(t)'
  BY <1>0, <1>1 DEF Lead, Inside, Stored, Num
<1> QED BY <1>1, <1>2, <1>7, <1>8, CountLeads

LEMMA CountStepFlush ==
    ASSUME LockInv, CountInv, LockInv', NEW t \in Thread, Flush(t)
    PROVE  CountInv'
<1>0. TypeOK /\ CountOf(t) /\ Stored(t) /\ Delayed(t)
  BY DEF LockInv, CountInv
<1>1. /\ UNCHANGED <<pc, i, max, reg, n>>
      /\ \A u \in Thread \ {t} : buffer'[u] = buffer[u]
      /\ buffer'[t] = Tail(buffer[t]) /\ buffer[t] # <<>>
  BY FlushEffect
<1>2. /\ Len(buffer[t]) \in Nat /\ Len(buffer'[t]) = Len(buffer[t]) - 1
      /\ Len(buffer'[t]) \in Nat
      /\ \A k \in 1 .. Len(buffer'[t]) : buffer'[t][k] = buffer[t][k + 1]
  <2>1. buffer[t] \in Seq(Address \X Nat)
    BY <1>0 DEF TypeOK
  <2>2. Len(buffer[t]) \in Nat /\ Len(buffer'[t]) \in Nat
    BY <1>1, <2>1
  <2> QED BY <1>1, <2>1, <2>2, HeadTailProperties
<1>3. Finished' = Finished
  BY <1>1 DEF Finished
<1>4. Made' = Made
  BY <1>3 DEF Made
<1>5. /\ \A u \in Thread \ {t} : Num(u)' = Num(u)
      /\ pc[t] \in {"compare", "chosen", "choosing", "waiting"} => mem'[Shared] = mem[Shared]
  <2>1. ASSUME NEW a \in {Number(t), Choosing(t), Shared}, NEW v,
               mem' = [mem EXCEPT ![a] = v]
        PROVE  /\ \A u \in Thread \ {t} : Num(u)' = Num(u)
               /\ a # Shared => mem'[Shared] = mem[Shared]
    BY <1>0, <2>1, Addresses DEF TypeOK, Num
  <2>2. CASE pc[t] = "compare" /\ mem' = [mem EXCEPT ![Choosing(t)] = 1]
    BY <2>1, <2>2, Addresses
  <2>3. CASE pc[t] = "chosen" /\ mem' = [mem EXCEPT ![Number(t)] = 1 + max[t]]
    BY <2>1, <2>3, Addresses
  <2>4. CASE pc[t] \in {"choosing", "waiting"} /\ mem' = [mem EXCEPT ![Choosing(t)] = 0]
    BY <2>1, <2>4, Addresses
  <2>5. CASE Lead(t) /\ mem' = [mem EXCEPT ![Shared] = buffer[t][1][2]]
    BY <2>1, <2>5 DEF Lead, Inside
  <2>6. CASE pc[t] = "done" /\ mem' = [mem EXCEPT ![Number(t)] = 0]
    BY <2>1, <2>6
  <2>7. pc[t] = "done" => Lead(t)
    BY <1>0, <1>1 DEF Stored, Lead
  <2> QED BY <2>2, <2>3, <2>4, <2>5, <2>6, <2>7, FlushEffect DEF Lead
<1>6. CASE ~Lead(t)
  <2>1. pc[t] \in {"compare", "chosen", "choosing", "waiting"}
    BY <1>0, <1>1, <1>6, FlushEffect DEF Stored, Lead
  <2>2. mem'[Shared] = mem[Shared] /\ \A u \in Thread \ {t} : Num(u)' = Num(u)
    BY <1>5, <2>1
  <2>3. ASSUME NEW u \in Thread PROVE Lead(u)' <=> Lead(u)
    BY <1>1, <2>1, <2>2 DEF Lead, Inside
  <2>4. ASSUME NEW u \in Thread PROVE CountOf(u)'
    <3>1. CountOf(u)
      BY DEF CountInv
    <3>2. CASE u = t
      BY <1>1, <2>1, <3>1, <3>2 DEF CountOf
    <3>3. CASE u # t
      <4>1. Sees(u)' = Sees(u)
        BY <1>1, <2>2, <3>3 DEF Sees
      <4> QED BY <1>1, <1>4, <2>3, <3>1, <3>3, <4>1 DEF CountOf
    <3> QED BY <3>2, <3>3
  <2> QED BY <1>4, <2>2, <2>3, <2>4 DEF CountInv
<1>7. CASE Lead(t)
  <2>1. \A u \in Thread \ {t} : ~Lead(u)
    BY <1>7, OneLead DEF OneLeads
  <2>2. \A u \in Thread \ {t} : Num(u)' = Num(u)
    BY <1>5
  <2>3. \A u \in Thread \ {t} : ~Lead(u)'
    BY <1>1, <2>1, <2>2 DEF Lead, Inside
  <2>4. ASSUME NEW u \in Thread \ {t} PROVE CountOf(u)'
    <3>1. CountOf(u)
      BY DEF CountInv
    <3> QED BY <1>1, <2>1, <2>3, <3>1 DEF CountOf, Lead, Inside
  <2>5. CASE /\ Inside(t) \/ (pc[t] = "done" /\ Len(buffer[t]) > 1)
             /\ mem' = [mem EXCEPT ![Shared] = buffer[t][1][2]]
    <3> DEFINE len == IF pc[t] = "done" THEN Len(buffer[t]) - 1 ELSE Len(buffer[t])
    <3>1. /\ len \in Nat /\ len >= 1 /\ len # 0 /\ len - 1 <= Len(buffer'[t])
          /\ pc[t] = "done" => Len(buffer'[t]) - 1 = len - 1
          /\ pc[t] # "done" => Len(buffer'[t]) = len - 1
      <4>1. Len(buffer[t]) >= 1
        BY <1>2
      <4>2. pc[t] = "done" => Len(buffer[t]) > 1
        BY <2>5 DEF Inside
      <4> QED BY <1>2, <4>1, <4>2
    <3>2. Sees(t) = buffer[t][len][2]
      BY <3>1 DEF Sees
    <3>3. Sees(t)' = IF len - 1 = 0 THEN mem'[Shared] ELSE buffer'[t][len - 1][2]
      <4>1. pc'[t] = pc[t]
        BY <1>1
      <4> QED BY <3>1, <4>1 DEF Sees
    <3>4. len - 1 # 0 => buffer'[t][len - 1] = buffer[t][len]
      <4>1. len - 1 # 0 => len - 1 \in 1 .. Len(buffer'[t])
        <5> HIDE DEF len
        <5> QED BY <1>2, <3>1
      <4>2. (len - 1) + 1 = len
        BY <3>1
      <4> QED BY <1>2, <4>1, <4>2
    <3>5. mem'[Shared] = buffer[t][1][2]
      BY <1>0, <2>5, Addresses DEF TypeOK
    <3>6. Sees(t)' = Sees(t)
      <4>1. len - 1 = 0 => len = 1
        BY <3>1
      <4> HIDE DEF len
      <4> QED BY <3>2, <3>3, <3>4, <3>5, <4>1
    <3>7. Lead(t)'
      BY <1>0, <1>1, <1>7, <2>5, Addresses DEF TypeOK, Lead, Inside, Num
    <3>8. buffer[t] # <<>>
      BY <1>1
    <3>9. CountOf(t)'
      BY <1>0, <1>1, <1>4, <1>7, <3>6, <3>8 DEF CountOf
    <3> QED BY <2>4, <3>7, <3>9 DEF CountInv
  <2>6. CASE /\ pc[t] = "done" /\ Len(buffer[t]) = 1 /\ buffer'[t] = <<>>
             /\ mem' = [mem EXCEPT ![Number(t)] = 0]
    <3>1. Sees(t) = mem[Shared]
      BY <2>6 DEF Sees
    <3>2. mem'[Shared] = Made
      BY <1>0, <1>7, <2>6, <3>1, Addresses DEF TypeOK, CountOf
    <3>3. Num(t)' = 0
      BY <1>0, <2>6, Addresses DEF TypeOK, Num
    <3>4. ~Lead(t)'
      BY <1>1, <2>6, <3>3 DEF Lead, Inside
    <3>5. CountOf(t)'
      BY <1>0, <1>1, <2>6, <3>4 DEF CountOf
    <3> QED BY <1>4, <2>4, <3>2, <3>5 DEF CountInv
  <2> QED BY <1>7, <2>5, <2>6, FlushEffect DEF Lead, Inside
<1> QED BY <1>6, <1>7

LEMMA CountStepCreate ==
    ASSUME LockInv, LockInv', Create
    PROVE  CountInv'
<1>0. TypeOK /\ \A t \in Thread : Stored(t)
  BY DEF LockInv
<1>1. /\ \A t \in Thread : pc[t] = "done" /\ buffer[t] = <<>>
      /\ n' \in 0 .. MAX_THREADS - 1 /\ buffer' = buffer
      /\ mem' = [mem EXCEPT ![Shared] = 0]
      /\ pc' = [t \in Thread |-> IF t < n' THEN "lock" ELSE "done"]
  BY DEF Create, Joined
<1>2. Finished' = {}
  BY <1>1 DEF Finished
<1>3. Made' = 0
  BY <1>2, FS_EmptySet, ThreadFacts DEF Made
<1>4. mem'[Shared] = 0
  BY <1>0, <1>1, Addresses DEF TypeOK
<1>5. ASSUME NEW t \in Thread PROVE CountOf(t)'
  <2>1. Num(t)' = 0
    BY <1>0, <1>1, Addresses DEF TypeOK, Num, Stored
  <2>2. pc'[t] \in {"lock", "done"} /\ buffer'[t] = <<>> /\ (t >= n' => pc'[t] = "done")
    <3>1. t \in Nat /\ n' \in Nat
      BY <1>1, ThreadFacts
    <3>2. pc'[t] = IF t < n' THEN "lock" ELSE "done"
      BY <1>1
    <3> QED BY <1>1, <3>1, <3>2
  <2> QED BY <2>1, <2>2 DEF CountOf, Lead, Inside
<1> QED BY <1>3, <1>4, <1>5 DEF CountInv

LEMMA CountInit == Init => CountInv
<1> SUFFICES ASSUME Init PROVE CountInv
  OBVIOUS
<1>1. Finished = {}
  BY ThreadFacts DEF Init, Finished
<1>2. Made = 0
  BY <1>1, FS_EmptySet, ThreadFacts DEF Made
<1>3. mem[Shared] = 0
  BY Addresses DEF Init
<1>4. ASSUME NEW t \in Thread PROVE CountOf(t)
  <2>1. Num(t) = 0 /\ pc[t] = "done" /\ buffer[t] = <<>>
    BY Addresses DEF Init, Num
  <2> QED BY <2>1 DEF CountOf, Lead, Inside
<1> QED BY <1>2, <1>3, <1>4 DEF CountInv

LEMMA BakeryNext == BakeryInv /\ [Next]_vars => BakeryInv'
<1> SUFFICES ASSUME LockInv, CountInv, [Next]_vars PROVE LockInv' /\ CountInv'
  BY DEF BakeryInv
<1>1. LockInv'
  BY LockNext
<1>2. CASE Create
  BY <1>1, <1>2, CountStepCreate
<1>3. ASSUME NEW t \in Thread, Step(t) PROVE CountInv'
  BY <1>1, <1>3, CountStepQuiet, CountStepWaits, CountStepEnter, CountStepAdd,
     CountStepUnlock DEF Step
<1>4. ASSUME NEW t \in Thread, Flush(t) PROVE CountInv'
  BY <1>1, <1>4, CountStepFlush
<1>5. CASE UNCHANGED vars
  <2>1. UNCHANGED <<mem, buffer, pc, i, max, reg, n>>
    BY <1>5 DEF vars, local
  <2>2. Finished' = Finished
    BY <2>1 DEF Finished
  <2>3. Made' = Made
    BY <2>2 DEF Made
  <2>4. \A t \in Thread : (Lead(t)' <=> Lead(t)) /\ Sees(t)' = Sees(t)
    BY <2>1 DEF Lead, Inside, Num, Sees
  <2>5. ASSUME NEW t \in Thread PROVE CountOf(t)'
    BY <2>1, <2>3, <2>4 DEF CountInv, CountOf
  <2>6. (\A t \in Thread : ~Lead(t)') => mem'[Shared] = Made'
    BY <2>1, <2>3, <2>4 DEF CountInv
  <2> QED BY <1>1, <2>5, <2>6 DEF CountInv
<1> QED BY <1>1, <1>2, <1>3, <1>4, <1>5 DEF Next

-----------------------------------------------------------------------------
(* The theorems. *)

\* The lock, its tickets and the increments stay as lock() and unlock() need them.
THEOREM BakeryInvariant == Spec => []BakeryInv
<1>1. Init => BakeryInv
  BY LockInit, CountInit DEF BakeryInv
<1> QED BY <1>1, BakeryNext, PTL DEF Spec

\* Every variable of pthread_lock_linux.c, and every store buffer, keeps its type.
THEOREM TypeCorrect == Spec => []TypeOK
<1>1. BakeryInv => TypeOK
  BY DEF BakeryInv, LockInv
<1> QED BY <1>1, BakeryInvariant, PTL

\* No two threads are between lock() and unlock(), for any number of threads and
\* whatever the processors delay.
THEOREM Exclusive == Spec => []MutualExclusion
<1>1. BakeryInv => MutualExclusion
  <2>1. LockInv => OneLeads
    BY OneLead
  <2> QED BY <2>1 DEF BakeryInv, MutualExclusion, OneLeads, Lead
<1> QED BY <1>1, BakeryInvariant, PTL

\* Who waits in lock() holds a later ticket than who is inside.
THEOREM FirstCome == Spec => []TicketsInOrder
<1>1. BakeryInv => TicketsInOrder
  <2> SUFFICES ASSUME LockInv, NEW t \in Thread, NEW u \in Thread, Inside(t), Waits(u)
               PROVE  \/ Load(t, Number(t)) < Load(u, Number(u))
                      \/ Load(t, Number(t)) = Load(u, Number(u)) /\ t < u
    BY DEF BakeryInv, TicketsInOrder
  <2>1. t # u
    BY DEF Inside, Waits
  <2>2. Order(t, u)
    BY <2>1 DEF LockInv, Pair
  <2>3. Before(t, u)
    BY <2>2 DEF Order, Settled, HasTicket, Lead
  <2>4. Load(t, Number(t)) = Num(t) /\ Load(u, Number(u)) = Num(u)
    BY TicketRead
  <2> QED BY <2>3, <2>4 DEF Before
<1> QED BY <1>1, BakeryInvariant, PTL

\* main()'s test never fails: no increment of shared_resource is lost.
THEOREM NothingLost == Spec => []TestPasses
<1>1. BakeryInv => TestPasses
  <2> SUFFICES ASSUME LockInv, CountInv, Joined
               PROVE  /\ mem[Shared] = n * NUM_ITERS
                      /\ \A t \in Thread : mem[Number(t)] = 0 /\ mem[Choosing(t)] = 0
    BY DEF BakeryInv, TestPasses
  <2>1. ASSUME NEW t \in Thread PROVE Num(t) = 0 /\ mem[Choosing(t)] = 0 /\ pc[t] = "done"
    BY DEF LockInv, Stored, Joined
  <2>2. mem[Shared] = Made
    BY <2>1 DEF CountInv, Lead, Inside
  <2>3. n \in Nat /\ n <= MAX_THREADS - 1
    BY ThreadFacts DEF LockInv, TypeOK
  <2>4. Finished = 0 .. n - 1
    <3>1. Finished = {t \in Thread : t < n}
      BY <2>1 DEF Finished
    <3> QED BY <2>3, <3>1, ThreadFacts DEF Thread
  <2>5. Cardinality(Finished) = n
    BY <2>3, <2>4, FS_Interval
  <2>6. Made = n * NUM_ITERS
    BY <2>3, <2>5, ThreadFacts DEF Made
  <2> QED BY <2>1, <2>2, <2>6 DEF Num
<1> QED BY <1>1, BakeryInvariant, PTL
=============================================================================
