---------------------------- MODULE Pipes_proofs ----------------------------
(***************************************************************************)
(* Pipes and the file table, proved for any number of processes, files,    *)
(* descriptors, pipes and messages, and any size of the ring: no wakeup of *)
(* a pipe is lost (NobodyForgotten), and what is open is referred to and   *)
(* what is referred to is there (PipeHeld).                                *)
(*                                                                         *)
(* The first proof needs nothing of the files: what a process does to a    *)
(* page that is no pipe wakes and forgets nobody.  The second one uses the *)
(* shapes of the first and little else, its invariant is HeldInv.          *)
(***************************************************************************)
EXTENDS PipesProps, SequenceTheorems, FiniteSetTheorems, WellFoundedInduction, TLAPS

-----------------------------------------------------------------------------
(* The inductive invariant. *)

PState == {"UNUSED", "RUNNABLE", "SLEEPING", "ZOMBIE"}
PcLabel == {"user", "pipe", "close", "exit", "read", "write", "sleep"}

ArgShape(a) ==
    /\ a = [pipe |-> a.pipe, writable |-> a.writable, bytes |-> a.bytes, n |-> a.n]
    /\ a.pipe \in Pipe => a.bytes \in Seq(Nat)
    /\ a.n \in Nat

PipeShape(q) ==
    /\ q = [live |-> q.live, data |-> q.data, nread |-> q.nread, nwrite |-> q.nwrite,
            readopen |-> q.readopen, writeopen |-> q.writeopen, cut |-> q.cut]
    /\ q.nread \in 0 .. UINT - 1 /\ q.nwrite \in 0 .. UINT - 1
    /\ {q.live, q.readopen, q.writeopen, q.cut} \subseteq BOOLEAN

ProcShapes ==
    /\ state \in [Proc -> PState] /\ pc \in [Proc -> PcLabel]
    /\ chan = [p \in Proc |-> chan[p]]
ArgShapes == arg = [p \in Proc |-> arg[p]] /\ \A p \in Proc : ArgShape(arg[p])
PipeShapes == pipe = [i \in Pipe |-> pipe[i]] /\ \A i \in Pipe : PipeShape(pipe[i])
Shapes == ProcShapes /\ ArgShapes /\ PipeShapes

\* A page has a pipe as long as an end of it is open, and a ring that is not overrun.
RingOK(i) ==
    /\ pipe[i].live = (pipe[i].readopen \/ pipe[i].writeopen)
    /\ Used(i) <= PIPESIZE

\* Who is asleep on a pipe waits for what is not there.
AsleepOK(p, i) ==
    state[p] = "SLEEPING" =>
      /\ chan[p] = Nread(i) => pipe[i].writeopen /\ (Empty(i) \/ pipe[i].cut)
      /\ chan[p] = Nwrite(i) => pipe[i].readopen /\ Full(i)

\* The same of who has found out that it has to wait, and keeps the lock of the pipe.
DrowsyOK(p, i) ==
    pc[p] = "sleep" /\ arg[p].pipe = i =>
      IF arg[p].bytes = <<>> THEN pipe[i].writeopen /\ Empty(i)
                             ELSE pipe[i].readopen /\ Full(i)

CallOK(p) ==
    /\ pc[p] = "sleep" => state[p] = "RUNNABLE"
    /\ pc[p] = "read" => arg[p].bytes = <<>>

PipesInv ==
    /\ Shapes
    /\ \A i \in Pipe : RingOK(i)
    /\ \A p \in Proc : CallOK(p) /\ \A i \in Pipe : AsleepOK(p, i) /\ DrowsyOK(p, i)

-----------------------------------------------------------------------------
(* The counters, which count modulo UINT. *)

LEMMA Below == ASSUME NEW n \in Nat \ {0}, NEW a \in 0 .. n - 1 PROVE a % n = a
OBVIOUS

LEMMA Over == ASSUME NEW n \in Nat \ {0}, NEW a \in n .. 2 * n - 1 PROVE a % n = a - n
OBVIOUS

LEMMA Under == ASSUME NEW n \in Nat \ {0}, NEW a \in -n .. -1 PROVE a % n = a + n
OBVIOUS

Mod(x) == x % UINT

\* With w - r bytes in the ring, n of them go out, n come in, or it is filled.
LEMMA Counters ==
    ASSUME NEW r \in 0 .. UINT - 1, NEW w \in 0 .. UINT - 1, NEW u, u = Mod(w - r)
    PROVE  /\ u \in 0 .. UINT - 1
           /\ \A n \in 0 .. u : Mod(r + n) \in 0 .. UINT - 1 /\ Mod(w - Mod(r + n)) = u - n
           /\ \A n \in 0 .. UINT - 1 - u :
                Mod(w + n) \in 0 .. UINT - 1 /\ Mod(Mod(w + n) - r) = u + n
           /\ \A k \in 0 .. UINT - 1 :
                /\ k >= u => Mod(w + (k - u)) = Mod(r + k)
                /\ w = Mod(r + k) => u = k
<1>1. UINT \in Nat \ {0}
  BY PipesAssumption
<1>2. \A x \in 0 .. 2 * UINT - 1 : Mod(x) = IF x < UINT THEN x ELSE x - UINT
  <2>1. TAKE x \in 0 .. 2 * UINT - 1
  <2>2. CASE x < UINT
    BY <1>1, <2>2, Below DEF Mod
  <2>3. CASE ~(x < UINT)
    <3>1. x \in UINT .. 2 * UINT - 1
      BY <1>1, <2>3
    <3> QED
      BY <1>1, <2>3, <3>1, Over DEF Mod
  <2> QED
    BY <2>2, <2>3
<1>3. \A x \in -UINT .. UINT - 1 : Mod(x) = IF x < 0 THEN x + UINT ELSE x
  <2>1. TAKE x \in -UINT .. UINT - 1
  <2>2. CASE x < 0
    BY <1>1, <2>2, Under DEF Mod
  <2>3. CASE ~(x < 0)
    BY <1>1, <2>3, Below DEF Mod
  <2> QED
    BY <2>2, <2>3
<1>4. u = (IF w >= r THEN w - r ELSE w - r + UINT) /\ u \in 0 .. UINT - 1
  BY <1>1, <1>3
<1>5. ASSUME NEW n \in 0 .. u
      PROVE  Mod(r + n) \in 0 .. UINT - 1 /\ Mod(w - Mod(r + n)) = u - n
  <2>1. Mod(r + n) = IF r + n < UINT THEN r + n ELSE r + n - UINT
    BY <1>1, <1>2, <1>4
  <2> QED
    BY <1>1, <1>3, <1>4, <2>1
<1>6. ASSUME NEW n \in 0 .. UINT - 1 - u
      PROVE  Mod(w + n) \in 0 .. UINT - 1 /\ Mod(Mod(w + n) - r) = u + n
  <2>1. Mod(w + n) = IF w + n < UINT THEN w + n ELSE w + n - UINT
    BY <1>1, <1>2, <1>4
  <2> QED
    BY <1>1, <1>3, <1>4, <2>1
<1>7. ASSUME NEW k \in 0 .. UINT - 1
      PROVE  /\ k >= u => Mod(w + (k - u)) = Mod(r + k)
             /\ w = Mod(r + k) => u = k
  <2>1. Mod(r + k) = IF r + k < UINT THEN r + k ELSE r + k - UINT
    BY <1>1, <1>2
  <2>2. k >= u => Mod(w + (k - u)) = Mod(r + k)
    BY <1>1, <1>2, <1>4, <2>1
  <2> QED
    BY <1>1, <1>4, <2>1, <2>2
<1> QED
  BY <1>4, <1>5, <1>6, <1>7

LEMMA Sizes == UINT \in Nat /\ PIPESIZE \in Nat \ {0} /\ PIPESIZE \in 0 .. UINT - 1
BY PipesAssumption

LEMMA MinOfTwo ==
    ASSUME NEW a \in Nat, NEW b \in Nat
    PROVE  Min({a, b}) = IF a <= b THEN a ELSE b
<1>1. CASE a <= b
  <2>1. \A x \in {a, b} : (\A y \in {a, b} : x <= y) <=> x = a
    BY <1>1
  <2> QED
    BY <2>1, <1>1 DEF Min
<1>2. CASE ~(a <= b)
  <2>1. \A x \in {a, b} : (\A y \in {a, b} : x <= y) <=> x = b
    BY <1>2
  <2> QED
    BY <2>1, <1>2 DEF Min
<1> QED
  BY <1>1, <1>2

-----------------------------------------------------------------------------
(* What reading and writing do to a ring. *)

InRing(q) == Mod(q.nwrite - q.nread)

LEMMA Emptied ==
    ASSUME NEW q, PipeShape(q), NEW n \in 0 .. InRing(q)
    PROVE  LET d == Drained(q, n)
           IN  /\ PipeShape(d) /\ InRing(d) = InRing(q) - n
               /\ d.live = q.live /\ d.readopen = q.readopen
               /\ d.writeopen = q.writeopen /\ d.cut = q.cut
<1> DEFINE d == Drained(q, n)
           r == Mod(q.nread + n)
           data == [k \in 0 .. PIPESIZE - 1 |->
                      IF (k - q.nread) % PIPESIZE < n THEN Blank ELSE q.data[k]]
<1>1. r \in 0 .. UINT - 1 /\ Mod(q.nwrite - r) = InRing(q) - n
  BY Counters DEF PipeShape, InRing
<1>2. d = [q EXCEPT !.nread = r, !.data = data]
  BY DEF Drained, PipeShape, Mod
<1> HIDE DEF r, data, d
<1>3. d = [live |-> q.live, data |-> data, nread |-> r, nwrite |-> q.nwrite,
           readopen |-> q.readopen, writeopen |-> q.writeopen, cut |-> q.cut]
  BY <1>2 DEF PipeShape
<1>4. d.nread = r /\ d.nwrite = q.nwrite /\ d.live = q.live /\ d.readopen = q.readopen
      /\ d.writeopen = q.writeopen /\ d.cut = q.cut /\ d.data = data
  BY <1>3
<1>5. PipeShape(d) /\ InRing(d) = InRing(q) - n
  BY <1>1, <1>3, <1>4 DEF PipeShape, InRing
<1> QED
  BY <1>4, <1>5 DEF d

LEMMA PutIn ==
    ASSUME NEW q, PipeShape(q), NEW s, NEW n \in Nat, n + InRing(q) <= PIPESIZE
    PROVE  LET f == Filled(q, s, n)
           IN  /\ PipeShape(f) /\ InRing(f) = InRing(q) + n
               /\ n + InRing(q) = PIPESIZE => f.nwrite = Mod(f.nread + PIPESIZE)
               /\ f.live = q.live /\ f.readopen = q.readopen
               /\ f.writeopen = q.writeopen /\ f.cut = q.cut
<1> DEFINE f == Filled(q, s, n)
           w == Mod(q.nwrite + n)
           data == [k \in 0 .. PIPESIZE - 1 |->
                      LET at == {j \in 1 .. n : (q.nwrite + j - 1) % PIPESIZE = k}
                      IN  IF at = {} THEN q.data[k] ELSE s[Max(at)]]
<1>1. UINT \in Nat /\ PIPESIZE \in 0 .. UINT - 1
  BY Sizes
<1>2. InRing(q) \in 0 .. UINT - 1
  BY Counters DEF PipeShape, InRing
<1>3. w \in 0 .. UINT - 1 /\ Mod(w - q.nread) = InRing(q) + n
  <2>1. n \in 0 .. UINT - 1 - InRing(q)
    BY <1>1, <1>2
  <2> QED
    BY <2>1, Counters DEF PipeShape, InRing
<1>4. n + InRing(q) = PIPESIZE => w = Mod(q.nread + PIPESIZE)
  <2>1. n + InRing(q) = PIPESIZE => n = PIPESIZE - InRing(q) /\ PIPESIZE >= InRing(q)
    BY <1>1, <1>2
  <2> QED
    BY <2>1, <1>1, Counters DEF PipeShape, InRing
<1>5. f = [q EXCEPT !.nwrite = w, !.data = data]
  BY DEF Filled, PipeShape, Mod
<1> HIDE DEF w, data, f
<1>6. f = [live |-> q.live, data |-> data, nread |-> q.nread, nwrite |-> w,
           readopen |-> q.readopen, writeopen |-> q.writeopen, cut |-> q.cut]
  BY <1>5 DEF PipeShape
<1>7. f.nread = q.nread /\ f.nwrite = w /\ f.live = q.live /\ f.readopen = q.readopen
      /\ f.writeopen = q.writeopen /\ f.cut = q.cut /\ f.data = data
  BY <1>6
<1>8. PipeShape(f) /\ InRing(f) = InRing(q) + n
  BY <1>3, <1>6, <1>7 DEF PipeShape, InRing
<1>9. n + InRing(q) = PIPESIZE => f.nwrite = Mod(f.nread + PIPESIZE)
  BY <1>4, <1>7
<1> QED
  BY <1>7, <1>8, <1>9 DEF f

\* A full ring holds PIPESIZE bytes.
LEMMA FullRing ==
    ASSUME NEW q, PipeShape(q)
    PROVE  /\ InRing(q) \in 0 .. UINT - 1
           /\ q.nwrite = Mod(q.nread + PIPESIZE) => InRing(q) = PIPESIZE
<1>1. UINT \in Nat /\ PIPESIZE \in 0 .. UINT - 1
  BY Sizes
<1> QED
  BY <1>1, Counters DEF InRing, PipeShape

-----------------------------------------------------------------------------
(* Who is asleep and who is about to be. *)

LEMMA WokenUp ==
    ASSUME ProcShapes, NEW c, Wakeup(c)
    PROVE  /\ state' \in [Proc -> PState] /\ chan' = [q \in Proc |-> chan'[q]]
           /\ \A q \in Proc :
                /\ state'[q] = "SLEEPING" =>
                     state[q] = "SLEEPING" /\ chan[q] # c /\ chan'[q] = chan[q]
                /\ state[q] = "RUNNABLE" => state'[q] = "RUNNABLE"
BY DEF ProcShapes, PState, Wakeup

\* A step that concerns one pipe only, or none, and lets nobody fall asleep.
LEMMA OnePipe ==
    ASSUME PipesInv, Shapes', NEW j,
           \A i \in Pipe : i # j => pipe'[i] = pipe[i],
           j \in Pipe => RingOK(j)' /\ \A q \in Proc : AsleepOK(q, j)' /\ DrowsyOK(q, j)',
           \A q \in Proc : state'[q] = "SLEEPING" => state[q] = "SLEEPING" /\ chan'[q] = chan[q],
           \A q \in Proc : pc'[q] = "sleep" =>
                             arg'[q].pipe = j \/ (pc[q] = "sleep" /\ arg'[q] = arg[q]),
           \A q \in Proc : CallOK(q)'
    PROVE  PipesInv'
<1>1. ASSUME NEW i \in Pipe, i # j PROVE RingOK(i)'
  BY <1>1 DEF PipesInv, RingOK, Used
<1>2. ASSUME NEW q \in Proc, NEW i \in Pipe, i # j PROVE AsleepOK(q, i)' /\ DrowsyOK(q, i)'
  <2>1. AsleepOK(q, i)'
    BY <1>2 DEF PipesInv, AsleepOK, Empty, Full
  <2>2. DrowsyOK(q, i)'
    BY <1>2 DEF PipesInv, DrowsyOK, Empty, Full
  <2> QED
    BY <2>1, <2>2
<1> QED
  BY <1>1, <1>2 DEF PipesInv

LEMMA NoPipeChanged ==
    ASSUME PipesInv, ProcShapes', ArgShapes', UNCHANGED pipe,
           \A q \in Proc : state'[q] = "SLEEPING" => state[q] = "SLEEPING" /\ chan'[q] = chan[q],
           \A q \in Proc : pc'[q] = "sleep" =>
                             pc[q] = "sleep" /\ arg'[q] = arg[q] /\ state'[q] = state[q],
           \A q \in Proc : pc'[q] = "read" => arg'[q].bytes = <<>>
    PROVE  PipesInv'
<1>1. Shapes'
  BY DEF PipesInv, Shapes, PipeShapes, PipeShape
<1>2. \A q \in Proc : CallOK(q)'
  BY DEF PipesInv, CallOK
<1>3. Null \notin Pipe
  BY DEF Null, Pipe
<1> QED
  BY <1>1, <1>2, <1>3, OnePipe

-----------------------------------------------------------------------------
(* The steps that have no part in waiting. *)

LEMMA Opens ==
    ASSUME PipesInv, NEW p \in Proc, PipeFirst(p) \/ PipeSecond(p) \/ PipeFails(p)
    PROVE  PipesInv'
<1>1. UNCHANGED <<state, chan, arg, pipe>>
  BY DEF PipeFirst, PipeSecond, PipeFails, procVars
<1>2. \E l \in {"pipe", "close"} : pc' = [pc EXCEPT ![p] = l] \/ pc' = pc
  BY DEF PipeFirst, PipeSecond, PipeFails, Goto
<1>3. ProcShapes'
  BY <1>1, <1>2 DEF PipesInv, Shapes, ProcShapes, PcLabel
<1>4. ArgShapes'
  BY <1>1 DEF PipesInv, Shapes, ArgShapes, ArgShape
<1>5. \A q \in Proc : pc'[q] \in {"sleep", "read"} => pc'[q] = pc[q]
  BY <1>2 DEF PipesInv, Shapes, ProcShapes
<1> QED
  BY <1>1, <1>3, <1>4, <1>5, NoPipeChanged DEF PipesInv, CallOK

LEMMA Descriptors ==
    ASSUME PipesInv, NEW p \in Proc, Dup(p) \/ Close(p) \/ Exit(p)
    PROVE  PipesInv'
<1>1. UNCHANGED <<state, chan, arg, pipe>>
  BY DEF Dup, Close, Exit, procVars, local
<1>2. \E l \in {"close", "exit"} : pc' = [pc EXCEPT ![p] = l] \/ pc' = pc
  BY DEF Dup, Close, Exit, Goto, local
<1>3. ProcShapes'
  BY <1>1, <1>2 DEF PipesInv, Shapes, ProcShapes, PcLabel
<1>4. ArgShapes'
  BY <1>1 DEF PipesInv, Shapes, ArgShapes, ArgShape
<1>5. \A q \in Proc : pc'[q] \in {"sleep", "read"} => pc'[q] = pc[q]
  BY <1>2 DEF PipesInv, Shapes, ProcShapes
<1> QED
  BY <1>1, <1>3, <1>4, <1>5, NoPipeChanged DEF PipesInv, CallOK

\* fork(), exit() and wait() change the state of a process, but of none that waits.
LEMMA Lives ==
    ASSUME PipesInv, NEW p \in Proc, Fork(p) \/ Zombie(p) \/ Reap(p) \/ Kill(p)
    PROVE  PipesInv'
<1> USE DEF PipesInv, Shapes
<1>1. UNCHANGED <<arg, pipe>>
  BY DEF Fork, Zombie, Reap, Kill, local
<1>2. ArgShapes'
  BY <1>1 DEF ArgShapes, ArgShape
<1>3. CASE Fork(p)
  <2>1. PICK m : /\ state' = [state EXCEPT ![m] = "RUNNABLE"]
                 /\ pc' = [pc EXCEPT ![m] = "user"] /\ chan' = chan
    BY <1>3 DEF Fork
  <2>2. ProcShapes'
    BY <2>1 DEF ProcShapes, PState, PcLabel
  <2>3. \A q \in Proc : /\ state'[q] = "SLEEPING" => state[q] = "SLEEPING"
                        /\ pc'[q] \in {"sleep", "read"} => pc[q] = pc'[q] /\ state'[q] \in {state[q], "RUNNABLE"}
    BY <2>1 DEF ProcShapes
  <2> QED
    BY <1>1, <1>2, <2>1, <2>2, <2>3, NoPipeChanged DEF CallOK
<1>4. CASE Zombie(p) \/ Reap(p)
  <2>1. pc' = pc /\ chan' = chan
    BY <1>4 DEF Zombie, Reap, local
  <2>2. PICK s \in {"ZOMBIE", "UNUSED"} : state' = [state EXCEPT ![p] = s]
    BY <1>4 DEF Zombie, Reap
  <2>3. pc[p] # "sleep"
    BY <1>4 DEF Zombie, Reap, At, CallOK
  <2>4. ProcShapes'
    BY <2>1, <2>2 DEF ProcShapes, PState
  <2>5. \A q \in Proc : /\ state'[q] = "SLEEPING" => state[q] = "SLEEPING"
                        /\ q # p => state'[q] = state[q]
    BY <2>2 DEF ProcShapes
  <2> QED
    BY <1>1, <1>2, <2>1, <2>3, <2>4, <2>5, NoPipeChanged DEF CallOK
<1>5. CASE Kill(p)
  <2>1. pc' = pc
    BY <1>5 DEF Kill, local
  <2>2. /\ state' = [state EXCEPT ![p] = "RUNNABLE"]
        /\ chan' = [chan EXCEPT ![p] = NoChan]
    BY <1>5 DEF Kill
  <2>3. ProcShapes'
    BY <2>1, <2>2 DEF ProcShapes, PState
  <2>4. \A q \in Proc : /\ state'[q] = "SLEEPING" => state[q] = "SLEEPING" /\ chan'[q] = chan[q]
                        /\ state'[q] \in {state[q], "RUNNABLE"}
    BY <2>2 DEF ProcShapes
  <2> QED
    BY <1>1, <1>2, <2>1, <2>3, <2>4, NoPipeChanged DEF CallOK
<1> QED
  BY <1>3, <1>4, <1>5

LEMMA NoArgShape == ArgShape(NoArg) /\ NoArg.bytes = <<>>
BY DEF ArgShape, NoArg

LEMMA Closes ==
    ASSUME PipesInv, NEW p \in Proc, CloseFile(p) \/ ExitFile(p)
    PROVE  PipesInv'
<1> USE DEF PipesInv, Shapes
<1>0. pc[p] \in {"close", "exit"} /\ \E f, files : Fileclose(p, f, files)
  BY DEF CloseFile, ExitFile, At
<1> PICK f, files : Fileclose(p, f, files)
  BY <1>0
<1>1. pc[p] \in {"close", "exit"} /\ UNCHANGED <<state, chan, pipe>>
  BY <1>0 DEF Fileclose, procVars
<1>2. \E l \in {"user", pc[p]} : pc' = [pc EXCEPT ![p] = l] \/ pc' = pc
  BY DEF Fileclose, GoOn, Goto
<1>3. ProcShapes'
  BY <1>1, <1>2 DEF ProcShapes, PcLabel
<1>4. \A q \in Proc : pc'[q] \in {"sleep", "read"} => pc'[q] = pc[q] /\ q # p
  BY <1>1, <1>2 DEF ProcShapes
<1>5. /\ arg[p] = NoArg
      /\ \E i, w : arg' = [arg EXCEPT ![p].pipe = i, ![p].writable = w] \/ arg' = arg
  BY DEF Fileclose
<1> PICK i, w : arg' = [arg EXCEPT ![p].pipe = i, ![p].writable = w] \/ arg' = arg
  BY <1>5
<1>6. CASE arg' = arg
  <2>1. ArgShapes'
    BY <1>6 DEF ArgShapes, ArgShape
  <2> QED
    BY <1>1, <1>3, <1>4, <1>6, <2>1, NoPipeChanged DEF CallOK
<1>7. CASE arg' = [arg EXCEPT ![p].pipe = i, ![p].writable = w]
  <2>1. /\ arg' = [q \in Proc |-> arg'[q]]
        /\ arg'[p] = [arg[p] EXCEPT !.pipe = i, !.writable = w]
        /\ \A q \in Proc : q # p => arg'[q] = arg[q]
    BY <1>7 DEF ArgShapes
  <2>2. arg'[p] = [pipe |-> i, writable |-> w, bytes |-> arg[p].bytes, n |-> arg[p].n]
    BY <2>1 DEF ArgShapes, ArgShape
  <2>3. ArgShape(arg'[p])
    BY <1>5, <2>2, NoArgShape DEF ArgShapes, ArgShape
  <2>4. ArgShapes'
    BY <2>1, <2>3 DEF ArgShapes, ArgShape
  <2> QED
    BY <1>1, <1>3, <1>4, <2>1, <2>4, NoPipeChanged DEF CallOK
<1> QED
  BY <1>6, <1>7

LEMMA ToRead ==
    ASSUME NEW n \in ReadSize
    PROVE  /\ ArgShape([NoArg EXCEPT !.n = n])
           /\ [NoArg EXCEPT !.n = n].bytes = <<>>
           /\ [NoArg EXCEPT !.n = n].bytes \in Seq(Nat)
<1>1. n \in Nat /\ <<>> \in Seq(Nat)
  BY PipesAssumption
<1>2. [NoArg EXCEPT !.n = n] = [pipe |-> NoArg.pipe, writable |-> NoArg.writable,
                                bytes |-> NoArg.bytes, n |-> n]
  BY NoArgShape DEF ArgShape
<1>3. ArgShape([NoArg EXCEPT !.n = n])
  BY <1>1, <1>2, NoArgShape DEF ArgShape
<1> QED
  BY <1>1, <1>2, <1>3, NoArgShape

LEMMA ToWrite ==
    ASSUME NEW m \in Message
    PROVE  ArgShape([NoArg EXCEPT !.bytes = m]) /\ [NoArg EXCEPT !.bytes = m].bytes \in Seq(Nat)
<1>1. m \in Seq(Nat)
  BY PipesAssumption
<1>2. [NoArg EXCEPT !.bytes = m] = [pipe |-> NoArg.pipe, writable |-> NoArg.writable,
                                    bytes |-> m, n |-> NoArg.n]
  BY NoArgShape DEF ArgShape
<1> QED
  BY <1>1, <1>2, NoArgShape DEF ArgShape

LEMMA Calls ==
    ASSUME PipesInv, NEW p \in Proc, ReadCall(p) \/ WriteCall(p)
    PROVE  PipesInv'
<1> USE DEF PipesInv, Shapes
<1>1. PICK w, l, a : /\ Call(p, w, l, a) /\ l \in {"read", "write"} /\ ArgShape(a)
                     /\ a.bytes \in Seq(Nat) /\ (l = "read" => a.bytes = <<>>)
  <2>1. CASE ReadCall(p)
    <3>1. PICK n \in ReadSize : Call(p, FALSE, "read", [NoArg EXCEPT !.n = n])
      BY <2>1 DEF ReadCall
    <3> DEFINE a == [NoArg EXCEPT !.n = n]
    <3>2. ArgShape(a) /\ a.bytes \in Seq(Nat) /\ a.bytes = <<>>
      BY ToRead
    <3> HIDE DEF a
    <3>3. Call(p, FALSE, "read", a)
      BY <3>1 DEF a
    <3> QED
      BY <3>2, <3>3
  <2>2. CASE WriteCall(p)
    <3>1. PICK m \in Message : Call(p, TRUE, "write", [NoArg EXCEPT !.bytes = m])
      BY <2>2 DEF WriteCall
    <3> DEFINE a == [NoArg EXCEPT !.bytes = m]
    <3>2. ArgShape(a) /\ a.bytes \in Seq(Nat)
      BY ToWrite
    <3> HIDE DEF a
    <3>3. Call(p, TRUE, "write", a)
      BY <3>1 DEF a
    <3>4. \A w, l : w = TRUE /\ l = "write" => Call(p, w, l, a) /\ l # "read"
      BY <3>3
    <3> QED
      BY <3>2, <3>4
  <2> QED
    BY <2>1, <2>2
<1>2. pc' = [pc EXCEPT ![p] = l] /\ UNCHANGED <<state, chan, pipe>>
  BY <1>1 DEF Call, Goto, procVars
<1>3. PICK i : arg' = [arg EXCEPT ![p] = [a EXCEPT !.pipe = i]]
  BY <1>1 DEF Call
<1>4. /\ arg' = [q \in Proc |-> arg'[q]] /\ arg'[p] = [a EXCEPT !.pipe = i]
      /\ \A q \in Proc : q # p => arg'[q] = arg[q]
  BY <1>3 DEF ArgShapes
<1>5. arg'[p] = [pipe |-> i, writable |-> a.writable, bytes |-> a.bytes, n |-> a.n]
  BY <1>1, <1>4 DEF ArgShape
<1>6. arg'[p].bytes = a.bytes /\ ArgShape(arg'[p])
  BY <1>1, <1>5 DEF ArgShape
<1>7. ArgShapes'
  BY <1>4, <1>6 DEF ArgShapes, ArgShape
<1>8. ProcShapes'
  BY <1>1, <1>2 DEF ProcShapes, PcLabel
<1>9. \A q \in Proc : pc'[q] = IF q = p THEN l ELSE pc[q]
  BY <1>2 DEF ProcShapes
<1>10. \A q \in Proc : /\ pc'[q] = "sleep" => pc[q] = "sleep" /\ arg'[q] = arg[q]
                       /\ pc'[q] = "read" => arg'[q].bytes = <<>>
  BY <1>1, <1>4, <1>6, <1>9 DEF CallOK
<1> QED
  BY <1>2, <1>7, <1>8, <1>10, NoPipeChanged

\* A process is given what it read.
LEMMA Given == ASSUME PipesInv, NEW p \in Proc, Taken(p) PROVE PipesInv'
<1>1. UNCHANGED <<state, chan, pc, arg, pipe>>
  BY DEF Taken, procVars
<1>2. ProcShapes' /\ ArgShapes'
  BY <1>1 DEF PipesInv, Shapes, ProcShapes, ArgShapes, ArgShape
<1> QED
  BY <1>1, <1>2, NoPipeChanged DEF PipesInv, CallOK

-----------------------------------------------------------------------------
(* The steps that wait and wake. *)

\* Nobody is about to sleep on a pipe that is not locked.
LEMMA Unlocked ==
    ASSUME PipesInv, NEW i, ~Locked(i)
    PROVE  \A q \in Proc : pc[q] = "sleep" => arg[q].pipe # i
BY DEF PipesInv, CallOK, Locked, At, Awake

\* A call that returns.
LEMMA CallOver ==
    ASSUME ArgShapes, NEW p \in Proc, arg' = [arg EXCEPT ![p] = NoArg]
    PROVE  /\ ArgShapes' /\ arg'[p] = NoArg
           /\ \A q \in Proc : q # p => arg'[q] = arg[q]
<1>1. ArgShape(NoArg)
  BY DEF ArgShape, NoArg
<1>2. /\ arg' = [q \in Proc |-> arg'[q]] /\ arg'[p] = NoArg
      /\ \A q \in Proc : q # p => arg'[q] = arg[q]
  BY DEF ArgShapes
<1> QED
  BY <1>1, <1>2 DEF ArgShapes, ArgShape

LEMMA Waits == ASSUME PipesInv, NEW p \in Proc, ReadWaits(p) PROVE PipesInv'
<1> USE DEF PipesInv, Shapes
<1>1. pc[p] = "read" /\ state[p] = "RUNNABLE" /\ UNCHANGED <<state, chan, pipe>>
  BY DEF ReadWaits, At, Awake, procVars
<1>2. CASE Goto(p, "user") /\ arg' = [arg EXCEPT ![p] = NoArg]
  <2>1. ProcShapes' /\ \A q \in Proc : pc'[q] = IF q = p THEN "user" ELSE pc[q]
    BY <1>1, <1>2 DEF ProcShapes, PcLabel, Goto
  <2> QED
    BY <1>1, <1>2, <2>1, CallOver, NoPipeChanged DEF CallOK
<1>3. CASE Goto(p, "sleep") /\ arg' = arg
  <2>1. ProcShapes' /\ \A q \in Proc : pc'[q] = IF q = p THEN "sleep" ELSE pc[q]
    BY <1>1, <1>3 DEF ProcShapes, PcLabel, Goto
  <2>2. ArgShapes' /\ PipeShapes'
    BY <1>1, <1>3 DEF ArgShapes, ArgShape, PipeShapes, PipeShape
  <2>3. \A q \in Proc : CallOK(q)'
    BY <1>1, <1>3, <2>1 DEF CallOK
  <2>4. \A i \in Pipe : RingOK(i)' /\ \A q \in Proc : AsleepOK(q, i)'
    BY <1>1 DEF RingOK, Used, AsleepOK, Empty, Full
  <2>5. ASSUME NEW i \in Pipe, NEW q \in Proc PROVE DrowsyOK(q, i)'
    <3>1. CASE q = p
      <4>1. arg[p].bytes = <<>> /\ Empty(arg[p].pipe) /\ pipe[arg[p].pipe].writeopen
        BY <1>1 DEF CallOK, ReadWaits
      <4> QED
        BY <1>1, <1>3, <3>1, <4>1 DEF DrowsyOK, Empty, Full
    <3>2. CASE q # p
      BY <1>1, <1>3, <2>1, <3>2 DEF DrowsyOK, Empty, Full
    <3> QED
      BY <3>1, <3>2
  <2> QED
    BY <2>1, <2>2, <2>3, <2>4, <2>5
<1> QED
  BY <1>2, <1>3 DEF ReadWaits

LEMMA Sleeps == ASSUME PipesInv, NEW p \in Proc, FallAsleep(p) PROVE PipesInv'
<1> USE DEF PipesInv, Shapes
<1> DEFINE i == arg[p].pipe
           l == IF arg[p].bytes # <<>> THEN "write" ELSE "read"
           c == IF arg[p].bytes # <<>> THEN Nwrite(i) ELSE Nread(i)
<1>1. pc[p] = "sleep" /\ UNCHANGED <<arg, pipe>>
  BY DEF FallAsleep, At
<1>2. /\ state' = [state EXCEPT ![p] = "SLEEPING"] /\ chan' = [chan EXCEPT ![p] = c]
      /\ pc' = [pc EXCEPT ![p] = l]
  BY DEF FallAsleep, Sleep, Goto
<1>3. \A q \in Proc : /\ state'[q] = IF q = p THEN "SLEEPING" ELSE state[q]
                      /\ chan'[q] = IF q = p THEN c ELSE chan[q]
                      /\ pc'[q] = IF q = p THEN l ELSE pc[q]
  BY <1>2 DEF ProcShapes
<1>4. ProcShapes'
  BY <1>2 DEF ProcShapes, PState, PcLabel
<1>5. ArgShapes' /\ PipeShapes'
  BY <1>1 DEF ArgShapes, ArgShape, PipeShapes, PipeShape
<1>6. \A q \in Proc : CallOK(q)'
  BY <1>1, <1>3 DEF CallOK
<1>7. \A j \in Pipe : RingOK(j)' /\ \A q \in Proc : DrowsyOK(q, j)'
  BY <1>1, <1>3 DEF RingOK, Used, DrowsyOK, Empty, Full
<1>8. ASSUME NEW j \in Pipe, NEW q \in Proc PROVE AsleepOK(q, j)'
  <2>1. CASE q # p
    BY <1>1, <1>3, <2>1 DEF AsleepOK, Empty, Full
  <2>2. CASE q = p
    <3>1. CASE c = Nread(j)
      <4>1. i = j /\ arg[p].bytes = <<>>
        BY <3>1 DEF Nread, Nwrite
      <4> QED
        BY <1>1, <1>3, <2>2, <3>1, <4>1 DEF DrowsyOK, AsleepOK, Empty, Full, Nread, Nwrite
    <3>2. CASE c = Nwrite(j)
      <4>1. i = j /\ arg[p].bytes # <<>>
        BY <3>2 DEF Nread, Nwrite
      <4> QED
        BY <1>1, <1>3, <2>2, <3>2, <4>1 DEF DrowsyOK, AsleepOK, Empty, Full, Nread, Nwrite
    <3>3. CASE c # Nread(j) /\ c # Nwrite(j)
      BY <1>3, <2>2, <3>3 DEF AsleepOK, Nread, Nwrite
    <3> QED
      BY <3>1, <3>2, <3>3
  <2> QED
    BY <2>1, <2>2
<1> QED
  BY <1>4, <1>5, <1>6, <1>7, <1>8

-----------------------------------------------------------------------------
(* The steps that change a pipe. *)

LEMMA Rings ==
    ASSUME NEW i
    PROVE  /\ Used(i) = InRing(pipe[i]) /\ Used(i)' = InRing(pipe'[i])
           /\ Full(i) <=> pipe[i].nwrite = Mod(pipe[i].nread + PIPESIZE)
           /\ Full(i)' <=> pipe'[i].nwrite = Mod(pipe'[i].nread + PIPESIZE)
BY Zenon DEF Used, Full, InRing, Mod

FreshPipe == [NoPipe EXCEPT !.live = TRUE, !.readopen = TRUE, !.writeopen = TRUE]

LEMMA NewRings ==
    /\ PipeShape(NoPipe) /\ InRing(NoPipe) = 0
    /\ ~NoPipe.live /\ ~NoPipe.readopen /\ ~NoPipe.writeopen
    /\ PipeShape(FreshPipe) /\ InRing(FreshPipe) = 0
    /\ FreshPipe.live /\ FreshPipe.readopen /\ FreshPipe.writeopen
<1>1. UINT \in Nat \ {0} /\ 0 \in 0 .. UINT - 1
  BY PipesAssumption
<1>2. Mod(0) = 0
  BY <1>1, Below DEF Mod
<1> DEFINE data == [k \in 0 .. PIPESIZE - 1 |-> Blank]
<1> HIDE DEF data
<1>3. NoPipe = [live |-> FALSE, data |-> data, nread |-> 0, nwrite |-> 0,
                readopen |-> FALSE, writeopen |-> FALSE, cut |-> FALSE]
  BY DEF NoPipe, data
<1>4. PipeShape(NoPipe) /\ NoPipe.nread = 0 /\ NoPipe.nwrite = 0
      /\ ~NoPipe.live /\ ~NoPipe.readopen /\ ~NoPipe.writeopen
  BY <1>1, <1>3 DEF PipeShape
<1> DEFINE t == TRUE
<1>0. FreshPipe = [NoPipe EXCEPT !.live = t, !.readopen = t, !.writeopen = t]
  BY DEF FreshPipe
<1> HIDE DEF t
<1>5. FreshPipe = [live |-> t, data |-> NoPipe.data, nread |-> NoPipe.nread,
                   nwrite |-> NoPipe.nwrite, readopen |-> t, writeopen |-> t,
                   cut |-> NoPipe.cut]
  BY <1>0, <1>4 DEF PipeShape
<1>6. PipeShape(FreshPipe) /\ FreshPipe.nread = 0 /\ FreshPipe.nwrite = 0
      /\ FreshPipe.live /\ FreshPipe.readopen /\ FreshPipe.writeopen
  BY <1>4, <1>5 DEF PipeShape, t
<1>7. InRing(NoPipe) = 0 /\ InRing(FreshPipe) = 0
  BY <1>2, <1>4, <1>6 DEF InRing
<1> QED
  BY <1>4, <1>6, <1>7

LEMMA Made == ASSUME PipesInv, NEW p \in Proc, PipeMade(p) PROVE PipesInv'
<1> USE DEF PipesInv, Shapes
<1>1. UNCHANGED <<state, chan, arg>>
  BY DEF PipeMade, procVars
<1>2. \E l \in {"user", "close"} : pc' = [pc EXCEPT ![p] = l]
  BY DEF PipeMade, Goto
<1>3. PICK i \in Pipe : ~pipe[i].live /\ pipe' = [pipe EXCEPT ![i] = FreshPipe]
  BY DEF PipeMade, FreePages, FreshPipe
<1>4. ProcShapes' /\ ArgShapes'
  BY <1>1, <1>2 DEF ProcShapes, PcLabel, ArgShapes, ArgShape
<1>5. /\ PipeShapes' /\ pipe'[i] = FreshPipe
      /\ \A j \in Pipe : j # i => pipe'[j] = pipe[j]
  <2>1. PipeShape(FreshPipe)
    BY NewRings
  <2>2. /\ pipe' = [j \in Pipe |-> pipe'[j]] /\ pipe'[i] = FreshPipe
        /\ \A j \in Pipe : j # i => pipe'[j] = pipe[j]
    BY <1>3 DEF PipeShapes
  <2> QED
    BY <2>1, <2>2 DEF PipeShapes, PipeShape
<1>6. \A q \in Proc : pc'[q] \in {"sleep", "read"} => pc'[q] = pc[q] /\ q # p
  BY <1>2 DEF ProcShapes
<1>7. RingOK(i)'
  <2>1. Used(i)' = InRing(FreshPipe) /\ 0 <= PIPESIZE
    BY <1>5, Rings, PipesAssumption
  <2> QED
    BY <1>5, <2>1, NewRings DEF RingOK
<1>8. \A q \in Proc : AsleepOK(q, i)' /\ DrowsyOK(q, i)'
  <2>1. ~pipe[i].readopen /\ ~pipe[i].writeopen
    BY <1>3 DEF RingOK
  <2>2. TAKE q \in Proc
  <2>3. AsleepOK(q, i)'
    BY <1>1, <2>1 DEF AsleepOK
  <2>4. DrowsyOK(q, i)'
    BY <1>1, <1>6, <2>1 DEF DrowsyOK
  <2> QED
    BY <2>3, <2>4
<1>9. \A q \in Proc : CallOK(q)'
  BY <1>1, <1>6 DEF CallOK
<1> QED
  BY <1>1, <1>4, <1>5, <1>6, <1>7, <1>8, <1>9, OnePipe

LEMMA Ends == ASSUME PipesInv, NEW p \in Proc, PipeClose(p) PROVE PipesInv'
<1> USE DEF PipesInv, Shapes
<1> PICK i, w : i = arg[p].pipe /\ w = arg[p].writable
  OBVIOUS
<1> DEFINE q == [pipe[i] EXCEPT !.readopen = @ /\ w, !.writeopen = @ /\ ~w]
           s == IF q.readopen \/ q.writeopen THEN q ELSE NoPipe
           c == IF w THEN Nread(i) ELSE Nwrite(i)
<1>1. /\ pc[p] \in {"close", "exit"} /\ ~Locked(i) /\ Wakeup(c)
      /\ pipe' = [pipe EXCEPT ![i] = s] /\ arg' = [arg EXCEPT ![p] = NoArg]
  BY DEF PipeClose, At
<1>2. \E l \in {"user", pc[p]} : pc' = [pc EXCEPT ![p] = l]
  BY DEF PipeClose, GoOn, Goto
<1>3. \A r \in Proc : pc'[r] \in {"sleep", "read"} => pc'[r] = pc[r] /\ r # p
  BY <1>1, <1>2 DEF ProcShapes
<1>4. \A r \in Proc :
        /\ state'[r] = "SLEEPING" => state[r] = "SLEEPING" /\ chan[r] # c /\ chan'[r] = chan[r]
        /\ state[r] = "RUNNABLE" => state'[r] = "RUNNABLE"
  BY <1>1, WokenUp
<1>5. ProcShapes'
  <2>1. pc' \in [Proc -> PcLabel]
    BY <1>1, <1>2 DEF ProcShapes, PcLabel
  <2> QED
    BY <1>1, <2>1, WokenUp DEF ProcShapes
<1>6. ArgShapes' /\ \A r \in Proc : r # p => arg'[r] = arg[r]
  BY <1>1, CallOver
<1>7. \A r \in Proc : CallOK(r)'
  BY <1>3, <1>4, <1>6 DEF CallOK
<1>8. \A r \in Proc : pc[r] = "sleep" => arg[r].pipe # i
  BY <1>1, Unlocked
<1>9. ASSUME i \in Pipe
      PROVE  /\ PipeShape(s) /\ InRing(s) <= PIPESIZE
             /\ s.live = (s.readopen \/ s.writeopen)
             /\ s.readopen = (pipe[i].readopen /\ w)
             /\ s.writeopen = (pipe[i].writeopen /\ ~w)
             /\ s.readopen \/ s.writeopen => s.cut = pipe[i].cut
                                             /\ s.nread = pipe[i].nread /\ s.nwrite = pipe[i].nwrite
  <2> PICK o : o = pipe[i]
    OBVIOUS
  <2> DEFINE ro == o.readopen /\ w
             wo == o.writeopen /\ ~w
  <2>1. PipeShape(o) /\ InRing(o) <= PIPESIZE /\ o.live = (o.readopen \/ o.writeopen)
    BY <1>9, Rings DEF PipeShapes, RingOK
  <2>2. q = [o EXCEPT !.readopen = ro, !.writeopen = wo]
    OBVIOUS
  <2> HIDE DEF q, ro, wo
  <2>3. q = [live |-> o.live, data |-> o.data, nread |-> o.nread, nwrite |-> o.nwrite,
             readopen |-> ro, writeopen |-> wo, cut |-> o.cut]
    BY <2>1, <2>2 DEF PipeShape
  <2>4. /\ q.live = o.live /\ q.cut = o.cut /\ q.nread = o.nread
        /\ q.nwrite = o.nwrite /\ q.data = o.data /\ q.readopen = ro /\ q.writeopen = wo
        /\ q = [live |-> q.live, data |-> q.data, nread |-> q.nread, nwrite |-> q.nwrite,
                readopen |-> q.readopen, writeopen |-> q.writeopen, cut |-> q.cut]
    BY <2>3
  <2>5. PipeShape(q) /\ InRing(q) <= PIPESIZE
    BY <2>1, <2>4 DEF PipeShape, InRing, ro, wo
  <2>6. CASE q.readopen \/ q.writeopen
    <3>1. s = q
      BY <2>6
    <3>2. q.live = (q.readopen \/ q.writeopen)
      BY <2>1, <2>4, <2>6 DEF ro, wo, PipeShape
    <3> HIDE DEF s
    <3> QED
      BY <2>4, <2>5, <3>1, <3>2 DEF ro, wo
  <2>7. CASE ~(q.readopen \/ q.writeopen)
    <3>1. s = NoPipe /\ 0 <= PIPESIZE /\ ~ro /\ ~wo
      BY <2>4, <2>7, PipesAssumption
    <3>2. ~(pipe[i].readopen /\ w) /\ ~(pipe[i].writeopen /\ ~w)
      BY <3>1 DEF ro, wo
    <3> HIDE DEF s
    <3>3. PipeShape(s) /\ InRing(s) <= PIPESIZE
      BY <3>1, NewRings
    <3>4. s.live = FALSE /\ s.readopen = FALSE /\ s.writeopen = FALSE
      BY <3>1, NewRings DEF PipeShape
    <3> QED
      BY <3>2, <3>3, <3>4
  <2> QED
    BY <2>6, <2>7
<1> HIDE DEF s, q
<1>10. /\ PipeShapes' /\ (i \in Pipe => pipe'[i] = s)
       /\ \A j \in Pipe : j # i => pipe'[j] = pipe[j]
  <2>1. i \in Pipe => PipeShape(s)
    BY <1>9
  <2>2. pipe' = [pipe EXCEPT ![i] = s]
    BY <1>1 DEF s, q
  <2>3. /\ pipe' = [j \in Pipe |-> pipe'[j]]
        /\ \A j \in Pipe : pipe'[j] = IF j = i THEN s ELSE pipe[j]
    BY <2>2 DEF PipeShapes
  <2>4. \A j \in Pipe : PipeShape(pipe'[j])
    BY <2>1, <2>3 DEF PipeShapes
  <2>5. PipeShapes'
    BY <2>3, <2>4 DEF PipeShapes, PipeShape
  <2> QED
    BY <2>3, <2>5
<1>11. ASSUME i \in Pipe PROVE RingOK(i)' /\ \A r \in Proc : AsleepOK(r, i)' /\ DrowsyOK(r, i)'
  <2>1. pipe'[i] = s
    BY <1>10, <1>11
  <2>2. RingOK(i)'
    BY <1>9, <1>11, <2>1, Rings DEF RingOK
  <2>3. ASSUME NEW r \in Proc PROVE DrowsyOK(r, i)'
    BY <1>3, <1>6, <1>8 DEF DrowsyOK
  <2>4. ASSUME NEW r \in Proc PROVE AsleepOK(r, i)'
    <3> SUFFICES ASSUME state'[r] = "SLEEPING" PROVE AsleepOK(r, i)'
      BY DEF AsleepOK
    <3>1. chan'[r] = chan[r] /\ state[r] = "SLEEPING" /\ chan[r] # c
      BY <1>4
    <3>2. CASE chan[r] = Nread(i)
      <4>1. ~w /\ pipe[i].writeopen /\ (Empty(i) \/ pipe[i].cut)
        BY <1>11, <3>1, <3>2 DEF AsleepOK
      <4> QED
        BY <1>9, <1>11, <2>1, <3>1, <3>2, <4>1 DEF AsleepOK, Nread, Nwrite, Empty
    <3>3. CASE chan[r] = Nwrite(i)
      <4>1. w /\ pipe[i].readopen /\ Full(i)
        BY <1>11, <3>1, <3>3 DEF AsleepOK
      <4> QED
        BY <1>9, <1>11, <2>1, <3>1, <3>3, <4>1 DEF AsleepOK, Nread, Nwrite, Full
    <3>4. CASE chan[r] # Nread(i) /\ chan[r] # Nwrite(i)
      BY <3>1, <3>4 DEF AsleepOK, Nread, Nwrite
    <3> QED
      BY <3>2, <3>3, <3>4
  <2> QED
    BY <2>2, <2>3, <2>4
<1> QED
  BY <1>3, <1>4, <1>5, <1>6, <1>7, <1>10, <1>11, OnePipe

LEMMA Reads == ASSUME PipesInv, NEW p \in Proc, ReadBytes(p) PROVE PipesInv'
<1> USE DEF PipesInv, Shapes
<1> PICK i, n : i = arg[p].pipe /\ n = Min({arg[p].n, Used(i)})
  OBVIOUS
<1> DEFINE d == Drained(pipe[i], n)
<1>1. /\ pc[p] = "read" /\ ~Locked(i) /\ Wakeup(Nwrite(i))
      /\ ~Empty(i) \/ ~pipe[i].writeopen
      /\ pipe' = [pipe EXCEPT ![i] = d] /\ arg' = [arg EXCEPT ![p] = NoArg]
  BY DEF ReadBytes, At
<1>2. pc' = [pc EXCEPT ![p] = "user"]
  BY DEF ReadBytes, Goto
<1>3. \A r \in Proc : pc'[r] \in {"sleep", "read"} => pc'[r] = pc[r] /\ r # p
  BY <1>2 DEF ProcShapes
<1>4. \A r \in Proc :
        /\ state'[r] = "SLEEPING" =>
             state[r] = "SLEEPING" /\ chan[r] # Nwrite(i) /\ chan'[r] = chan[r]
        /\ state[r] = "RUNNABLE" => state'[r] = "RUNNABLE"
  BY <1>1, WokenUp
<1>5. ProcShapes'
  <2>1. pc' \in [Proc -> PcLabel]
    BY <1>2 DEF ProcShapes, PcLabel
  <2> QED
    BY <1>1, <2>1, WokenUp DEF ProcShapes
<1>6. ArgShapes' /\ \A r \in Proc : r # p => arg'[r] = arg[r]
  BY <1>1, CallOver
<1>7. \A r \in Proc : CallOK(r)'
  BY <1>3, <1>4, <1>6 DEF CallOK
<1>8. \A r \in Proc : pc[r] = "sleep" => arg[r].pipe # i
  BY <1>1, Unlocked
<1>9. ASSUME i \in Pipe
      PROVE  /\ PipeShape(d) /\ InRing(d) <= PIPESIZE
             /\ d.live = pipe[i].live /\ d.readopen = pipe[i].readopen
             /\ d.writeopen = pipe[i].writeopen /\ d.cut = pipe[i].cut
  <2>1. PipeShape(pipe[i]) /\ arg[p].n \in Nat
    BY <1>9 DEF PipeShapes, ArgShapes, ArgShape
  <2>2. Used(i) = InRing(pipe[i]) /\ Used(i) \in Nat /\ Used(i) <= PIPESIZE
    BY <1>9, <2>1, FullRing, Rings DEF RingOK
  <2>3. n \in 0 .. InRing(pipe[i])
    BY <2>1, <2>2, MinOfTwo
  <2>4. InRing(pipe[i]) - n <= PIPESIZE
    BY <2>2, <2>3, PipesAssumption
  <2> QED
    BY <2>1, <2>3, <2>4, Emptied
<1> HIDE DEF d
<1>10. /\ pipe' = [j \in Pipe |-> pipe'[j]]
       /\ \A j \in Pipe : pipe'[j] = IF j = i THEN d ELSE pipe[j]
  BY <1>1 DEF PipeShapes
<1>11. PipeShapes'
  <2>1. \A j \in Pipe : PipeShape(pipe'[j])
    BY <1>9, <1>10 DEF PipeShapes
  <2> QED
    BY <1>10, <2>1 DEF PipeShapes, PipeShape
<1>12. ASSUME i \in Pipe PROVE RingOK(i)' /\ \A r \in Proc : AsleepOK(r, i)' /\ DrowsyOK(r, i)'
  <2>1. pipe'[i] = d
    BY <1>10, <1>12
  <2>2. RingOK(i)'
    BY <1>9, <1>12, <2>1, Rings DEF RingOK
  <2>3. ASSUME NEW r \in Proc PROVE DrowsyOK(r, i)'
    BY <1>3, <1>6, <1>8 DEF DrowsyOK
  <2>4. ASSUME NEW r \in Proc PROVE AsleepOK(r, i)'
    <3> SUFFICES ASSUME state'[r] = "SLEEPING" PROVE AsleepOK(r, i)'
      BY DEF AsleepOK
    <3>1. chan'[r] = chan[r] /\ state[r] = "SLEEPING" /\ chan[r] # Nwrite(i)
      BY <1>4
    <3>2. chan[r] = Nread(i) => pipe[i].writeopen /\ pipe[i].cut
      BY <1>1, <1>12, <3>1 DEF AsleepOK
    <3> QED
      BY <1>9, <1>12, <2>1, <3>1, <3>2 DEF AsleepOK
  <2> QED
    BY <2>2, <2>3, <2>4
<1> QED
  BY <1>3, <1>4, <1>5, <1>6, <1>7, <1>10, <1>11, <1>12, OnePipe

\* Of len bytes, those that fit into a ring of m bytes that holds u.
LEMMA Room ==
    ASSUME NEW m \in Nat, NEW len \in Nat, NEW u \in Nat, u <= m
    PROVE  LET n == Min({len, m - u})
           IN  n \in Nat /\ n + u <= m /\ (u = m \/ n # len => n + u = m)
<1>1. m - u \in Nat
  OBVIOUS
<1> DEFINE n == Min({len, m - u})
<1>2. n = IF len <= m - u THEN len ELSE m - u
  BY <1>1, MinOfTwo
<1> HIDE DEF n
<1>3. CASE len <= m - u
  BY <1>2, <1>3 DEF n
<1>4. CASE ~(len <= m - u)
  BY <1>2, <1>4 DEF n
<1> QED
  BY <1>3, <1>4

LEMMA RestOf ==
    ASSUME NEW s \in Seq(Nat), NEW n \in Nat
    PROVE  /\ SubSeq(s, n + 1, Len(s)) \in Seq(Nat)
           /\ SubSeq(s, n + 1, Len(s)) # <<>> => n # Len(s)
<1>1. Len(s) \in Int /\ n + 1 \in Int /\ \A k \in n + 1 .. Len(s) : s[k] \in Nat
  OBVIOUS
<1>2. SubSeq(s, n + 1, Len(s)) \in Seq(Nat)
  BY <1>1, SubSeqProperties
<1>3. n = Len(s) => Len(SubSeq(s, n + 1, Len(s))) = 0
  BY <1>1, SubSeqProperties
<1>4. SubSeq(s, n + 1, Len(s)) # <<>> => Len(SubSeq(s, n + 1, Len(s))) # 0
  BY <1>2, EmptySeq
<1> QED
  BY <1>2, <1>3, <1>4

LEMMA Fits ==
    ASSUME NEW i \in Pipe, PipeShape(pipe[i]), RingOK(i), NEW s \in Seq(Nat),
           NEW n, n = Min({Len(s), PIPESIZE - Used(i)}),
           NEW rest, rest = SubSeq(s, n + 1, Len(s))
    PROVE  /\ n \in Nat /\ InRing(pipe[i]) \in Nat /\ n + InRing(pipe[i]) <= PIPESIZE
           /\ Full(i) \/ rest # <<>> => n + InRing(pipe[i]) = PIPESIZE
           /\ rest \in Seq(Nat)
<1> PICK u, len : u = Used(i) /\ len = Len(s)
  OBVIOUS
<1>1. u = InRing(pipe[i]) /\ len \in Nat /\ PIPESIZE \in Nat
  BY Rings, Sizes
<1>2. u \in Nat /\ u <= PIPESIZE /\ (Full(i) => u = PIPESIZE)
  BY <1>1, FullRing, Rings DEF RingOK
<1>3. n = Min({len, PIPESIZE - u})
  OBVIOUS
<1>4. n \in Nat /\ n + u <= PIPESIZE /\ (u = PIPESIZE \/ n # len => n + u = PIPESIZE)
  <2> DEFINE m == Min({len, PIPESIZE - u})
  <2>1. m \in Nat /\ m + u <= PIPESIZE /\ (u = PIPESIZE \/ m # len => m + u = PIPESIZE)
    BY <1>1, <1>2, Room
  <2> HIDE DEF m
  <2> QED
    BY <1>3, <2>1 DEF m
<1>5. rest \in Seq(Nat) /\ (rest # <<>> => n # len)
  BY <1>4, RestOf
<1> QED
  BY <1>1, <1>2, <1>4, <1>5

LEMMA Writes == ASSUME PipesInv, NEW p \in Proc, WriteBytes(p) PROVE PipesInv'
<1> USE DEF PipesInv, Shapes
<1> PICK i, s : i = arg[p].pipe /\ s = arg[p].bytes
  OBVIOUS
<1> PICK n, rest : /\ n = Min({Len(s), PIPESIZE - Used(i)})
                   /\ rest = SubSeq(s, n + 1, Len(s))
  OBVIOUS
<1> PICK fails : fails = (rest # <<>> /\ (~pipe[i].readopen \/ killed[p]))
  OBVIOUS
<1> DEFINE f == Filled(pipe[i], s, n)
           cut == f.cut \/ fails
           g == [f EXCEPT !.cut = cut]
           Returns == pc' = [pc EXCEPT ![p] = "user"] /\ arg' = [arg EXCEPT ![p] = NoArg]
           GoesOn == /\ rest # <<>> /\ ~fails
                     /\ pc' = [pc EXCEPT ![p] = "sleep"]
                     /\ arg' = [arg EXCEPT ![p].bytes = rest]
<1>0. /\ pc[p] = "write" /\ state[p] = "RUNNABLE" /\ ~Locked(i)
      /\ pipe' = [pipe EXCEPT ![i] = g]
  <2>1. pc[p] = "write" /\ state[p] = "RUNNABLE" /\ ~Locked(i)
    BY DEF WriteBytes, At, Awake
  <2>2. pipe' = [pipe EXCEPT ![i] = g]
    BY DEF WriteBytes
  <2> QED
    BY <2>1, <2>2
<1>1. /\ Returns \/ GoesOn
      /\ Wakeup(Nread(i)) \/ (fails /\ state' = state /\ chan' = chan)
  BY DEF WriteBytes, Goto, procVars
<1>2. PICK l \in {"user", "sleep"} : pc' = [pc EXCEPT ![p] = l] /\ (l = "sleep" => GoesOn)
  BY <1>1
<1>3. \A r \in Proc : pc'[r] = IF r = p THEN l ELSE pc[r]
  BY <1>2 DEF ProcShapes
<1>4. \A r \in Proc :
        /\ state'[r] = "SLEEPING" =>
             state[r] = "SLEEPING" /\ chan'[r] = chan[r] /\ (chan[r] # Nread(i) \/ fails)
        /\ state[r] = "RUNNABLE" => state'[r] = "RUNNABLE"
  BY <1>1, WokenUp
<1>5. ProcShapes'
  <2>1. pc' \in [Proc -> PcLabel]
    BY <1>2 DEF ProcShapes, PcLabel
  <2>2. state' \in [Proc -> PState] /\ chan' = [r \in Proc |-> chan'[r]]
    BY <1>1, WokenUp DEF ProcShapes
  <2> QED
    BY <2>1, <2>2 DEF ProcShapes
<1>6. i \in Pipe =>
        /\ n \in Nat /\ InRing(pipe[i]) \in Nat /\ n + InRing(pipe[i]) <= PIPESIZE
        /\ Full(i) \/ rest # <<>> => n + InRing(pipe[i]) = PIPESIZE
        /\ rest \in Seq(Nat)
  <2> SUFFICES ASSUME i \in Pipe
               PROVE  /\ n \in Nat /\ InRing(pipe[i]) \in Nat /\ n + InRing(pipe[i]) <= PIPESIZE
                      /\ Full(i) \/ rest # <<>> => n + InRing(pipe[i]) = PIPESIZE
                      /\ rest \in Seq(Nat)
    OBVIOUS
  <2>1. s \in Seq(Nat) /\ PipeShape(pipe[i]) /\ RingOK(i)
    BY DEF ArgShapes, ArgShape, PipeShapes
  <2> QED
    BY <2>1, Fits
<1>7. /\ ArgShapes' /\ \A r \in Proc : r # p => arg'[r] = arg[r]
      /\ l = "sleep" => arg'[p].bytes = rest /\ arg'[p].pipe = i
  <2>1. CASE Returns
    <3>1. l = "user"
      BY <1>2, <2>1 DEF ProcShapes
    <3> QED
      BY <2>1, <3>1, CallOver
  <2>2. CASE GoesOn
    <3>1. /\ arg' = [r \in Proc |-> arg'[r]] /\ arg'[p] = [arg[p] EXCEPT !.bytes = rest]
          /\ \A r \in Proc : r # p => arg'[r] = arg[r]
      BY <2>2 DEF ArgShapes
    <3>2. arg'[p] = [pipe |-> i, writable |-> arg[p].writable, bytes |-> rest, n |-> arg[p].n]
      BY <3>1 DEF ArgShapes, ArgShape
    <3>3. ArgShape(arg'[p])
      <4>1. arg[p].n \in Nat /\ (i \in Pipe => rest \in Seq(Nat))
        BY <1>6 DEF ArgShapes, ArgShape
      <4>2. PICK a : a = arg'[p]
        OBVIOUS
      <4>3. /\ a = [pipe |-> a.pipe, writable |-> a.writable, bytes |-> a.bytes, n |-> a.n]
            /\ a.pipe = i /\ a.bytes = rest /\ a.n = arg[p].n
        <5>1. a = [pipe |-> i, writable |-> arg[p].writable, bytes |-> rest, n |-> arg[p].n]
          BY <3>2, <4>2
        <5> QED
          BY <5>1
      <4> QED
        BY <4>1, <4>2, <4>3 DEF ArgShape
    <3>4. ArgShapes'
      BY <3>1, <3>3 DEF ArgShapes, ArgShape
    <3> QED
      BY <3>1, <3>2, <3>4
  <2> QED
    BY <1>1, <2>1, <2>2
<1>8. \A r \in Proc : CallOK(r)'
  BY <1>0, <1>3, <1>4, <1>7 DEF CallOK
<1>9. \A r \in Proc : pc[r] = "sleep" => arg[r].pipe # i
  BY <1>0, Unlocked
<1>10. ASSUME i \in Pipe
       PROVE  /\ PipeShape(g) /\ InRing(g) <= PIPESIZE
              /\ g.live = pipe[i].live /\ g.readopen = pipe[i].readopen
              /\ g.writeopen = pipe[i].writeopen /\ (fails => g.cut)
              /\ Full(i) \/ rest # <<>> => g.nwrite = Mod(g.nread + PIPESIZE)
  <2>1. PipeShape(pipe[i])
    BY <1>10 DEF PipeShapes
  <2>2. /\ PipeShape(f) /\ InRing(f) = InRing(pipe[i]) + n
        /\ n + InRing(pipe[i]) = PIPESIZE => f.nwrite = Mod(f.nread + PIPESIZE)
        /\ f.live = pipe[i].live /\ f.readopen = pipe[i].readopen
        /\ f.writeopen = pipe[i].writeopen
    BY <1>6, <1>10, <2>1, PutIn
  <2> HIDE DEF f, cut, Returns, GoesOn
  <2>3. g = [live |-> f.live, data |-> f.data, nread |-> f.nread, nwrite |-> f.nwrite,
             readopen |-> f.readopen, writeopen |-> f.writeopen, cut |-> cut]
    BY <2>2 DEF PipeShape
  <2> HIDE DEF g
  <2>4. /\ g.live = f.live /\ g.data = f.data /\ g.nread = f.nread /\ g.nwrite = f.nwrite
        /\ g.readopen = f.readopen /\ g.writeopen = f.writeopen /\ g.cut = cut
    BY <2>3
  <2>5. cut \in BOOLEAN /\ (fails => cut)
    BY DEF cut
  <2>6. PipeShape(g)
    BY <2>2, <2>3, <2>4, <2>5 DEF PipeShape
  <2>7. InRing(g) = InRing(f)
    BY <2>4 DEF InRing
  <2>8. InRing(g) <= PIPESIZE
    BY <1>6, <1>10, <2>2, <2>7
  <2>9. Full(i) \/ rest # <<>> => g.nwrite = Mod(g.nread + PIPESIZE)
    BY <1>6, <1>10, <2>2, <2>4
  <2> QED
    BY <2>2, <2>4, <2>5, <2>6, <2>8, <2>9
<1> HIDE DEF f, cut, g
<1>11. /\ pipe' = [j \in Pipe |-> pipe'[j]]
       /\ \A j \in Pipe : pipe'[j] = IF j = i THEN g ELSE pipe[j]
  BY <1>0 DEF PipeShapes
<1>12. PipeShapes'
  <2>1. \A j \in Pipe : PipeShape(pipe'[j])
    BY <1>10, <1>11 DEF PipeShapes
  <2> QED
    BY <1>11, <2>1 DEF PipeShapes, PipeShape
<1>13. ASSUME i \in Pipe PROVE RingOK(i)' /\ \A r \in Proc : AsleepOK(r, i)' /\ DrowsyOK(r, i)'
  <2>1. pipe'[i] = g
    BY <1>11, <1>13
  <2>2. RingOK(i)'
    BY <1>10, <1>13, <2>1, Rings DEF RingOK
  <2>3. ASSUME NEW r \in Proc PROVE DrowsyOK(r, i)'
    <3>1. CASE r = p /\ l = "sleep"
      <4>1. rest # <<>> /\ pipe[i].readopen
        BY <1>2, <3>1
      <4>2. Full(i)'
        BY <1>10, <1>13, <2>1, <4>1, Rings
      <4> QED
        BY <1>7, <1>10, <1>13, <2>1, <3>1, <4>1, <4>2 DEF DrowsyOK
    <3>2. CASE r # p \/ l # "sleep"
      BY <1>2, <1>3, <1>7, <1>9, <3>2 DEF DrowsyOK
    <3> QED
      BY <3>1, <3>2
  <2>4. ASSUME NEW r \in Proc PROVE AsleepOK(r, i)'
    <3> SUFFICES ASSUME state'[r] = "SLEEPING" PROVE AsleepOK(r, i)'
      BY DEF AsleepOK
    <3>1. /\ chan'[r] = chan[r] /\ state[r] = "SLEEPING"
          /\ chan[r] # Nread(i) \/ fails
      BY <1>4
    <3>2. CASE chan[r] = Nread(i)
      <4>1. fails /\ pipe[i].writeopen
        BY <1>13, <3>1, <3>2 DEF AsleepOK
      <4>2. pipe'[i].writeopen /\ pipe'[i].cut
        BY <1>10, <1>13, <2>1, <4>1
      <4>3. Nread(i) # Nwrite(i)
        BY DEF Nread, Nwrite
      <4> QED
        BY <3>1, <3>2, <4>2, <4>3 DEF AsleepOK
    <3>3. CASE chan[r] = Nwrite(i)
      <4>1. pipe[i].readopen /\ Full(i)
        BY <1>13, <3>1, <3>3 DEF AsleepOK
      <4>2. Full(i)'
        BY <1>10, <1>13, <2>1, <4>1, Rings
      <4> QED
        BY <1>10, <1>13, <2>1, <3>1, <3>3, <4>1, <4>2 DEF AsleepOK, Nread, Nwrite
    <3>4. CASE chan[r] # Nread(i) /\ chan[r] # Nwrite(i)
      BY <3>1, <3>4 DEF AsleepOK, Nread, Nwrite
    <3> QED
      BY <3>2, <3>3, <3>4
  <2> QED
    BY <2>2, <2>3, <2>4
<1>14. \A r \in Proc : pc'[r] = "sleep" =>
                         arg'[r].pipe = i \/ (pc[r] = "sleep" /\ arg'[r] = arg[r])
  BY <1>3, <1>7
<1> QED
  BY <1>4, <1>5, <1>7, <1>8, <1>11, <1>12, <1>13, <1>14, OnePipe

-----------------------------------------------------------------------------
(* The theorems. *)

LEMMA Start == Init => PipesInv
<1> SUFFICES ASSUME Init PROVE PipesInv
  OBVIOUS
<1>1. initproc \in Proc
  BY PipesAssumption
<1>2. ProcShapes
  BY DEF Init, ProcShapes, PState, PcLabel
<1>3. arg = [p \in Proc |-> NoArg] /\ pipe = [i \in Pipe |-> NoPipe]
  BY DEF Init
<1>4. ArgShapes
  BY <1>3, NoArgShape DEF ArgShapes, ArgShape
<1>5. PipeShapes
  BY <1>3, NewRings DEF PipeShapes, PipeShape
<1>6. ASSUME NEW i \in Pipe PROVE RingOK(i)
  <2>1. pipe[i] = NoPipe
    BY <1>3
  <2>2. Used(i) = 0 /\ 0 <= PIPESIZE
    BY <2>1, NewRings, Rings, Sizes
  <2>3. ~pipe[i].live /\ ~pipe[i].readopen /\ ~pipe[i].writeopen /\ PipeShape(pipe[i])
    BY <2>1, NewRings
  <2> QED
    BY <2>2, <2>3 DEF RingOK, PipeShape
<1>7. \A p \in Proc : CallOK(p) /\ \A i \in Pipe : AsleepOK(p, i) /\ DrowsyOK(p, i)
  BY DEF Init, CallOK, AsleepOK, DrowsyOK
<1> QED
  BY <1>2, <1>4, <1>5, <1>6, <1>7 DEF PipesInv, Shapes

LEMMA StepKeepsInv == PipesInv /\ [Next]_vars => PipesInv'
<1> SUFFICES ASSUME PipesInv, [Next]_vars PROVE PipesInv'
  OBVIOUS
<1>1. CASE UNCHANGED vars
  <2>1. UNCHANGED <<state, chan, pc, arg, pipe>>
    BY <1>1 DEF vars, procVars, local
  <2>2. ProcShapes' /\ ArgShapes'
    BY <2>1 DEF PipesInv, Shapes, ProcShapes, ArgShapes, ArgShape
  <2> QED
    BY <2>1, <2>2, NoPipeChanged DEF PipesInv, CallOK
<1>2. ASSUME NEW p \in Proc, Step(p) \/ Kill(p) PROVE PipesInv'
  BY <1>2, Opens, Made, Descriptors, Lives, Closes, Ends, Calls, Given, Waits, Reads, Writes,
     Sleeps DEF Step
<1> QED
  BY <1>1, <1>2 DEF Next

(* The inductive invariant holds in every reachable state. *)
THEOREM PipesInvariant == Spec => []PipesInv
BY Start, StepKeepsInv, PTL DEF Spec

(* No wakeup is lost: for any number of processes and pipes, any ring and    *)
(* any messages, nobody sleeps on a pipe for bytes, for room or for an end   *)
(* of file that is there (piperead, pipewrite, pipeclose), but readers of a  *)
(* pipe a write was cut short on.                                            *)
THEOREM NoneForgotten == Spec => []NobodyForgotten
<1>1. PipesInv => NobodyForgotten
  BY DEF PipesInv, AsleepOK, NobodyForgotten
<1> QED
  BY <1>1, PipesInvariant, PTL

-----------------------------------------------------------------------------
(* References to files. *)

FileRec == [ref : Nat, type : {"none", "pipe"}, writable : BOOLEAN, pipe : Pipe \cup {Null}]
Table == [Proc -> [Fd -> File \cup {Null}]]

HeldTypes ==
    /\ file \in [File -> FileRec] /\ ofile \in Table
    /\ hand \in [Proc -> Seq(File)] /\ \A p \in Proc : Len(hand[p]) <= 2
    /\ \A p \in Proc : arg[p].pipe \in Pipe \cup {Null} /\ arg[p].writable \in BOOLEAN

\* A file that is not in use is blank, and one in use is counted.
FileOK(f) ==
    /\ file[f].type = "pipe" => file[f].pipe \in Pipe
    /\ file[f].ref = 0 => file[f].type = "none"
    /\ file[f].ref = Uses(f)

IsEnd(f, i, w) == file[f].type = "pipe" /\ file[f].pipe = i /\ file[f].writable = w
Closing(p, i, w) == pc[p] \in {"close", "exit"} /\ arg[p].pipe = i /\ arg[p].writable = w
Open(q, w) == IF w THEN q.writeopen ELSE q.readopen

\* An open end is that of one file, or of one pipeclose() to come.
EndOK(i, w) ==
    /\ Open(pipe[i], w) <=> Refers(i, w)
    /\ \A f, g \in File : IsEnd(f, i, w) /\ IsEnd(g, i, w) => f = g
    /\ \A p, q \in Proc : Closing(p, i, w) /\ Closing(q, i, w) => p = q
    /\ \A f \in File, p \in Proc : ~(IsEnd(f, i, w) /\ Closing(p, i, w))

\* The file of the pipe it reads or writes is in its descriptors all the time.
Uses1(p) == \E fd \in Fd : ofile[p][fd] # Null /\ file[ofile[p][fd]].pipe = arg[p].pipe

\* Where a process is and what it has.
HoldOK(p) ==
    /\ \A fd \in Fd : ofile[p][fd] # Null => file[ofile[p][fd]].type = "pipe"
    /\ state[p] \in {"UNUSED", "ZOMBIE"} => FreeFds(p) = Fd /\ hand[p] = <<>> /\ arg[p] = NoArg
    /\ pc[p] \in {"user", "pipe"} => arg[p] = NoArg
    /\ pc[p] \notin {"pipe", "close"} => hand[p] = <<>>
    /\ pc[p] = "pipe" =>
         /\ hand[p] # <<>>
         /\ \A k \in 1 .. Len(hand[p]) : file[hand[p][k]].ref = 1 /\ file[hand[p][k]].type = "none"
    /\ pc[p] \in {"read", "write", "sleep"} => Uses1(p)

HeldInv ==
    /\ HeldTypes
    /\ \A f \in File : FileOK(f)
    /\ \A i \in Pipe, w \in BOOLEAN : EndOK(i, w)
    /\ \A p \in Proc : HoldOK(p)

LEMMA Ranges ==
    /\ Null \notin Pipe /\ Null \notin File
    /\ Pipe \subseteq Nat /\ File \subseteq Nat /\ Fd \subseteq Nat /\ Proc \subseteq Nat
    /\ IsFiniteSet(Proc) /\ IsFiniteSet(Fd)
<1>1. IsFiniteSet(0 .. NOFILE - 1)
  BY PipesAssumption, FS_Interval
<1> QED
  BY <1>1, PipesAssumption DEF Pipe, File, Fd, Null

LEMMA LeastOf == ASSUME NEW S \in SUBSET Nat, S # {} PROVE Min(S) \in S
<1>1. PICK x \in S : \A y \in S : <<y, x>> \notin OpToRel(<, Nat)
  BY NatLessThanWellFounded, WFMin
<1>2. \A y \in S : ~(y < x)
  BY <1>1 DEF OpToRel
<1>3. \A y \in S : x <= y
  BY <1>2
<1> QED BY <1>3 DEF Min

One(b) == IF b THEN 1 ELSE 0

LEMMA OneChanged ==
    ASSUME NEW S, IsFiniteSet(S), NEW T, NEW x, \A u : u # x => (u \in T <=> u \in S)
    PROVE  IsFiniteSet(T) /\ Cardinality(T) = Cardinality(S) + One(x \in T) - One(x \in S)
<1>1. Cardinality(S) \in Nat
  BY FS_CardinalityType
<1>2. CASE x \in S /\ x \notin T
  <2>1. T = S \ {x}
    BY <1>2
  <2> QED BY <1>1, <1>2, <2>1, FS_RemoveElement DEF One
<1>3. CASE x \notin S /\ x \in T
  <2>1. T = S \cup {x}
    BY <1>3
  <2> QED BY <1>1, <1>3, <2>1, FS_AddElement DEF One
<1>4. CASE x \in S <=> x \in T
  <2>1. T = S
    BY <1>4
  <2> QED BY <1>1, <1>4, <2>1 DEF One
<1> QED BY <1>2, <1>3, <1>4

LEMMA TwoChanged ==
    ASSUME NEW S, IsFiniteSet(S), NEW T, NEW x, NEW y, x # y,
           \A u : u # x /\ u # y => (u \in T <=> u \in S)
    PROVE  Cardinality(T) = Cardinality(S) + One(x \in T) - One(x \in S) + One(y \in T) - One(y \in S)
<1> DEFINE R == IF x \in T THEN S \cup {x} ELSE S \ {x}
<1>1. /\ \A u : u # x => (u \in R <=> u \in S)
      /\ x \in R <=> x \in T
      /\ \A u : u # y => (u \in T <=> u \in R)
      /\ y \in R <=> y \in S
  OBVIOUS
<1> HIDE DEF R
<1>2. IsFiniteSet(R) /\ Cardinality(R) = Cardinality(S) + One(x \in R) - One(x \in S)
  BY <1>1, OneChanged
<1>3. Cardinality(T) = Cardinality(R) + One(y \in T) - One(y \in R)
  BY <1>1, <1>2, OneChanged
<1>4. One(x \in R) = One(x \in T) /\ One(y \in R) = One(y \in S)
  BY <1>1 DEF One
<1> QED BY <1>2, <1>3, <1>4

\* Where a file is referred to: in descriptors, and in the hands of pipe() and close().
Descs(o, f) == {u \in Proc \X Fd : o[u[1]][u[2]] = f}
Has(h, p, k, f) == k <= Len(h[p]) /\ h[p][k] = f
InHand(h, f) == {u \in Proc \X (1 .. 2) : Has(h, u[1], u[2], f)}

LEMMA UsesIs ==
    ASSUME NEW f
    PROVE  /\ Uses(f) = Cardinality(Descs(ofile, f)) + Cardinality(InHand(hand, f))
           /\ Uses(f)' = Cardinality(Descs(ofile', f)) + Cardinality(InHand(hand', f))
BY Zenon DEF Uses, Descs, InHand, Has

LEMMA RefsFinite ==
    ASSUME NEW m, NEW f
    PROVE  /\ IsFiniteSet(Descs(m, f)) /\ Cardinality(Descs(m, f)) \in Nat
           /\ IsFiniteSet(InHand(m, f)) /\ Cardinality(InHand(m, f)) \in Nat
<1>0. 1 \in Int /\ 2 \in Int
  OBVIOUS
<1>1. IsFiniteSet(1 .. 2)
  BY <1>0, FS_Interval, Zenon
<1>2. IsFiniteSet(Proc \X Fd) /\ IsFiniteSet(Proc \X (1 .. 2))
  BY <1>1, Ranges, FS_Product
<1>3. IsFiniteSet(Descs(m, f)) /\ IsFiniteSet(InHand(m, f))
  BY <1>2, FS_Subset DEF Descs, InHand
<1> QED BY <1>3, FS_CardinalityType

Put(o, p, a, v) == [o EXCEPT ![p][a] = v]

LEMMA DescsPut ==
    ASSUME NEW o \in Table, NEW p \in Proc, NEW a \in Fd, NEW v \in File \cup {Null}
    PROVE  LET n == Put(o, p, a, v)
           IN  /\ n \in Table /\ n[p][a] = v
               /\ \A q \in Proc, b \in Fd : <<q, b>> # <<p, a>> => n[q][b] = o[q][b]
               /\ \A q \in Proc : q # p => n[q] = o[q]
BY DEF Table, Put

LEMMA DescsCount ==
    ASSUME NEW o \in Table, NEW p \in Proc, NEW a \in Fd, NEW v \in File \cup {Null}, NEW n,
           n = Put(o, p, a, v), NEW f
    PROVE  Cardinality(Descs(n, f)) = Cardinality(Descs(o, f)) + One(v = f) - One(o[p][a] = f)
<1>1. n[p][a] = v /\ \A q \in Proc, b \in Fd : <<q, b>> # <<p, a>> => n[q][b] = o[q][b]
  BY DescsPut
<1>2. \A u : u # <<p, a>> => (u \in Descs(n, f) <=> u \in Descs(o, f))
  BY <1>1 DEF Descs
<1>3. /\ <<p, a>> \in Descs(n, f) <=> v = f
      /\ <<p, a>> \in Descs(o, f) <=> o[p][a] = f
  BY <1>1 DEF Descs
<1>4. /\ One(<<p, a>> \in Descs(n, f)) = One(v = f)
      /\ One(<<p, a>> \in Descs(o, f)) = One(o[p][a] = f)
  BY <1>3 DEF One
<1>5. Cardinality(Descs(n, f)) = Cardinality(Descs(o, f)) + One(<<p, a>> \in Descs(n, f))
                                 - One(<<p, a>> \in Descs(o, f))
  BY <1>2, RefsFinite, OneChanged
<1> QED BY <1>4, <1>5

LEMMA HandPut ==
    ASSUME NEW h, NEW p \in Proc, NEW n, \A q \in Proc : q # p => n[q] = h[q], NEW f
    PROVE  Cardinality(InHand(n, f)) = Cardinality(InHand(h, f))
               + One(Has(n, p, 1, f)) - One(Has(h, p, 1, f))
               + One(Has(n, p, 2, f)) - One(Has(h, p, 2, f))
<1>1. \A u : u # <<p, 1>> /\ u # <<p, 2>> => (u \in InHand(n, f) <=> u \in InHand(h, f))
  BY DEF InHand, Has
<1>2. \A k \in 1 .. 2 : /\ <<p, k>> \in InHand(n, f) <=> Has(n, p, k, f)
                        /\ <<p, k>> \in InHand(h, f) <=> Has(h, p, k, f)
  BY DEF InHand
<1>3. \A k \in 1 .. 2 : /\ One(<<p, k>> \in InHand(n, f)) = One(Has(n, p, k, f))
                        /\ One(<<p, k>> \in InHand(h, f)) = One(Has(h, p, k, f))
  BY <1>2 DEF One
<1>4. Cardinality(InHand(n, f)) = Cardinality(InHand(h, f))
          + One(<<p, 1>> \in InHand(n, f)) - One(<<p, 1>> \in InHand(h, f))
          + One(<<p, 2>> \in InHand(n, f)) - One(<<p, 2>> \in InHand(h, f))
  <2>1. IsFiniteSet(InHand(h, f)) /\ <<p, 1>> # <<p, 2>>
    BY RefsFinite
  <2> QED BY <1>1, <2>1, TwoChanged
<1>5. 1 \in 1 .. 2 /\ 2 \in 1 .. 2
  OBVIOUS
<1> QED BY <1>3, <1>4, <1>5

-----------------------------------------------------------------------------
(* The last reference. *)

LEMMA Members ==
    ASSUME NEW S, IsFiniteSet(S), NEW x \in S
    PROVE  Cardinality(S) \in Nat \ {0} /\ (Cardinality(S) = 1 => \A y \in S : y = x)
<1>1. Cardinality(S) \in Nat /\ Cardinality(S) # 0
  BY FS_CardinalityType, FS_EmptySet
<1>2. Cardinality(S) = 1 => \E y : S = {y}
  BY FS_Singleton
<1> QED BY <1>1, <1>2

\* The places where a file is referred to, n of them.
LEMMA Referred ==
    ASSUME NEW f, NEW o, NEW h, NEW n,
           n = Cardinality(Descs(o, f)) + Cardinality(InHand(h, f))
    PROVE  /\ \A p \in Proc, fd \in Fd : o[p][fd] = f => n \in Nat \ {0}
           /\ \A p \in Proc, k \in 1 .. 2 : Has(h, p, k, f) => n \in Nat \ {0}
           /\ n = 1 =>
                /\ \A p, q \in Proc, a, b \in Fd : o[p][a] = f /\ o[q][b] = f => p = q /\ a = b
                /\ \A p, q \in Proc, a \in Fd, k \in 1 .. 2 : ~(o[p][a] = f /\ Has(h, q, k, f))
                /\ \A p, q \in Proc, j, k \in 1 .. 2 :
                     Has(h, p, j, f) /\ Has(h, q, k, f) => p = q /\ j = k
<1> DEFINE D == Descs(o, f)
           H == InHand(h, f)
<1>2. /\ IsFiniteSet(D) /\ IsFiniteSet(H)
      /\ Cardinality(D) \in Nat /\ Cardinality(H) \in Nat
  BY RefsFinite
<1>3. \A p \in Proc, fd \in Fd : o[p][fd] = f <=> <<p, fd>> \in D
  BY DEF Descs
<1>4. \A p \in Proc, k \in 1 .. 2 : Has(h, p, k, f) <=> <<p, k>> \in H
  BY DEF InHand
<1>1. n = Cardinality(D) + Cardinality(H)
  OBVIOUS
<1> HIDE DEF D, H
<1>5. \A x \in D : Cardinality(D) \in Nat \ {0} /\ (Cardinality(D) = 1 => \A y \in D : y = x)
  BY <1>2, Members
<1>6. \A x \in H : Cardinality(H) \in Nat \ {0} /\ (Cardinality(H) = 1 => \A y \in H : y = x)
  BY <1>2, Members
<1>7. n = 1 => \A x \in D, y \in H : FALSE
  BY <1>1, <1>2, <1>5, <1>6
<1>8. n = 1 => (\A x, y \in D : x = y) /\ (\A x, y \in H : x = y)
  <2>1. D # {} /\ n = 1 => Cardinality(D) = 1
    BY <1>1, <1>2, <1>5, <1>7
  <2>2. H # {} /\ n = 1 => Cardinality(H) = 1
    BY <1>1, <1>2, <1>6, <1>7
  <2> QED BY <1>5, <1>6, <2>1, <2>2
<1>9. (\E x : x \in D \/ x \in H) => n \in Nat \ {0}
  BY <1>1, <1>2, <1>5, <1>6
<1>10. ASSUME n = 1, NEW p \in Proc, NEW q \in Proc
       PROVE  /\ \A a, b \in Fd : o[p][a] = f /\ o[q][b] = f => p = q /\ a = b
              /\ \A a \in Fd, k \in 1 .. 2 : ~(o[p][a] = f /\ Has(h, q, k, f))
              /\ \A j, k \in 1 .. 2 : Has(h, p, j, f) /\ Has(h, q, k, f) => p = q /\ j = k
  <2>1. \A a, b \in Fd : o[p][a] = f /\ o[q][b] = f => <<p, a>> = <<q, b>>
    BY <1>3, <1>8, <1>10, Zenon
  <2>2. \A a \in Fd, k \in 1 .. 2 : ~(o[p][a] = f /\ Has(h, q, k, f))
    BY <1>3, <1>4, <1>7, <1>10, Zenon
  <2>3. \A j, k \in 1 .. 2 : Has(h, p, j, f) /\ Has(h, q, k, f) => <<p, j>> = <<q, k>>
    BY <1>4, <1>8, <1>10, Zenon
  <2> QED BY <2>1, <2>2, <2>3
<1> QED BY <1>3, <1>4, <1>9, <1>10, Zenon

LEMMA FileRefs ==
    ASSUME NEW f, FileOK(f)
    PROVE  file[f].ref = Cardinality(Descs(ofile, f)) + Cardinality(InHand(hand, f))
BY UsesIs DEF FileOK

-----------------------------------------------------------------------------
(* Steps that leave the files alone. *)

LEMMA RefersIs ==
    ASSUME NEW i, NEW w
    PROVE  /\ Refers(i, w) <=> (\E f \in File : IsEnd(f, i, w)) \/ \E p \in Proc : Closing(p, i, w)
           /\ Refers(i, w)' <=> (\E f \in File : IsEnd(f, i, w)') \/ \E p \in Proc : Closing(p, i, w)'
BY DEF Refers, IsEnd, Closing

LEMMA EndsKept ==
    ASSUME NEW i, NEW w, EndOK(i, w), Open(pipe'[i], w) <=> Open(pipe[i], w),
           \A f \in File : IsEnd(f, i, w)' <=> IsEnd(f, i, w),
           \A p \in Proc : Closing(p, i, w)' <=> Closing(p, i, w)
    PROVE  EndOK(i, w)'
<1>1. Refers(i, w)' <=> Refers(i, w)
  BY RefersIs
<1> QED BY <1>1 DEF EndOK

\* A process that has nothing to do with the step.
LEMMA HoldKept ==
    ASSUME NEW q, HoldOK(q),
           pc'[q] = pc[q], arg'[q] = arg[q], hand'[q] = hand[q], ofile'[q] = ofile[q],
           state'[q] \in {"UNUSED", "ZOMBIE"} => state[q] \in {"UNUSED", "ZOMBIE"},
           \A fd \in Fd : LET f == ofile[q][fd]
                          IN  f # Null => file'[f].type = "pipe" /\ file'[f].pipe = file[f].pipe,
           pc[q] = "pipe" =>
             \A k \in 1 .. Len(hand[q]) :
               file'[hand[q][k]].ref = 1 /\ file'[hand[q][k]].type = "none"
    PROVE  HoldOK(q)'
<1>1. FreeFds(q)' = FreeFds(q)
  BY DEF FreeFds
<1>2. Uses1(q) => Uses1(q)'
  BY DEF Uses1
<1> QED BY <1>1, <1>2 DEF HoldOK

LEMMA PlainStep ==
    ASSUME HeldInv, UNCHANGED <<file, ofile, hand>>, NEW p \in Proc,
           \A q \in Proc : q # p =>
             /\ pc'[q] = pc[q] /\ arg'[q] = arg[q]
             /\ state'[q] \in {"UNUSED", "ZOMBIE"} => state[q] \in {"UNUSED", "ZOMBIE"},
           \A i \in Pipe, w \in BOOLEAN : Open(pipe'[i], w) <=> Open(pipe[i], w),
           arg'[p].pipe \in Pipe \cup {Null}, arg'[p].writable \in BOOLEAN,
           \A i \in Pipe, w \in BOOLEAN : Closing(p, i, w)' <=> Closing(p, i, w),
           HoldOK(p)'
    PROVE  HeldInv'
<1> USE DEF HeldInv
<1>1. HeldTypes'
  BY DEF HeldTypes
<1>2. ASSUME NEW f \in File PROVE FileOK(f)'
  BY UsesIs DEF FileOK
<1>3. ASSUME NEW i \in Pipe, NEW w \in BOOLEAN PROVE EndOK(i, w)'
  <2>1. \A q \in Proc : Closing(q, i, w)' <=> Closing(q, i, w)
    BY DEF Closing
  <2> QED BY <2>1, EndsKept DEF IsEnd
<1>4. ASSUME NEW q \in Proc, q # p PROVE HoldOK(q)'
  BY <1>4, HoldKept DEF HoldOK
<1> QED BY <1>1, <1>2, <1>3, <1>4

\* What is true of a call that has begun: its pipe is that of one of the descriptors.
LEMMA OpenSame == ASSUME UNCHANGED pipe, NEW i, NEW w PROVE Open(pipe'[i], w) <=> Open(pipe[i], w)
OBVIOUS

LEMMA NoArgIs == NoArg.pipe = Null /\ NoArg.writable = FALSE
BY DEF NoArg

LEMMA PipeFailsHeld == ASSUME PipesInv, HeldInv, NEW p \in Proc, PipeFails(p) PROVE HeldInv'
<1>1. /\ pc[p] = "pipe" /\ state[p] = "RUNNABLE" /\ pc' = [pc EXCEPT ![p] = "close"]
      /\ UNCHANGED <<state, arg, file, ofile, hand, pipe>>
  BY DEF PipeFails, At, Awake, Goto, procVars
<1>2. pc'[p] = "close" /\ \A q \in Proc : q # p => pc'[q] = pc[q]
  BY <1>1 DEF PipesInv, Shapes, ProcShapes
<1>3. arg[p] = NoArg /\ HoldOK(p)
  BY <1>1 DEF HeldInv, HoldOK
<1>4. HoldOK(p)'
  BY <1>1, <1>2, <1>3 DEF HoldOK, FreeFds
<1>5. \A i \in Pipe, w \in BOOLEAN : ~Closing(p, i, w)' /\ ~Closing(p, i, w)
  BY <1>1, <1>3, NoArgIs, Ranges DEF Closing
<1>6. arg'[p].pipe \in Pipe \cup {Null} /\ arg'[p].writable \in BOOLEAN
  BY <1>1, <1>3, NoArgIs
<1> QED BY <1>1, <1>2, <1>4, <1>5, <1>6, PlainStep

LEMMA ExitHeld == ASSUME PipesInv, HeldInv, NEW p \in Proc, Exit(p) PROVE HeldInv'
<1>1. /\ pc[p] = "user" /\ state[p] = "RUNNABLE" /\ pc' = [pc EXCEPT ![p] = "exit"]
      /\ UNCHANGED <<state, arg, file, ofile, hand, pipe>>
  BY DEF Exit, At, Awake, Goto, procVars
<1>2. pc'[p] = "exit" /\ \A q \in Proc : q # p => pc'[q] = pc[q]
  BY <1>1 DEF PipesInv, Shapes, ProcShapes
<1>3. arg[p] = NoArg /\ HoldOK(p)
  BY <1>1 DEF HeldInv, HoldOK
<1>4. HoldOK(p)'
  BY <1>1, <1>2, <1>3 DEF HoldOK, FreeFds
<1>5. \A i \in Pipe, w \in BOOLEAN : ~Closing(p, i, w)' /\ ~Closing(p, i, w)
  BY <1>1, <1>3, NoArgIs, Ranges DEF Closing
<1>6. arg'[p].pipe \in Pipe \cup {Null} /\ arg'[p].writable \in BOOLEAN
  BY <1>1, <1>3, NoArgIs
<1> QED BY <1>1, <1>2, <1>4, <1>5, <1>6, PlainStep

\* The state of a process changes; one that ends has nothing any more.
LEMMA StateHeld ==
    ASSUME PipesInv, HeldInv, NEW p \in Proc, Zombie(p) \/ Reap(p) \/ Kill(p)
    PROVE  HeldInv'
<1>1. UNCHANGED <<file, ofile, hand, arg, pc, pipe>>
  BY DEF Zombie, Reap, Kill, local
<1>2. \E s \in {"ZOMBIE", "UNUSED", "RUNNABLE"} : state' = [state EXCEPT ![p] = s]
  BY DEF Zombie, Reap, Kill
<1>3. \A q \in Proc : q # p => state'[q] = state[q]
  BY <1>2 DEF PipesInv, Shapes, ProcShapes
<1>4. HoldOK(p) /\ FreeFds(p)' = FreeFds(p) /\ (Uses1(p)' <=> Uses1(p))
  BY <1>1 DEF HeldInv, FreeFds, Uses1
<1>5. state'[p] \in {"UNUSED", "ZOMBIE"} => FreeFds(p) = Fd /\ hand[p] = <<>> /\ arg[p] = NoArg
  <2>1. CASE Zombie(p)
    BY <1>4, <2>1 DEF Zombie, At, HoldOK
  <2>2. CASE Reap(p)
    BY <1>4, <2>2 DEF Reap, HoldOK
  <2>3. CASE Kill(p)
    BY <2>3 DEF Kill, PipesInv, Shapes, ProcShapes
  <2> QED BY <2>1, <2>2, <2>3
<1>6. HoldOK(p)'
  BY <1>1, <1>4, <1>5 DEF HoldOK
<1>7. arg'[p].pipe \in Pipe \cup {Null} /\ arg'[p].writable \in BOOLEAN
  BY <1>1 DEF HeldInv, HeldTypes
<1> QED BY <1>1, <1>3, <1>6, <1>7, PlainStep DEF Closing

Plain(a) == \A i : LET b == [a EXCEPT !.pipe = i] IN b.pipe = i /\ b.writable = FALSE

LEMMA CallHeld ==
    ASSUME PipesInv, HeldInv, NEW p \in Proc, ReadCall(p) \/ WriteCall(p)
    PROVE  HeldInv'
<1>1. PICK w, l, a : Call(p, w, l, a) /\ l \in {"read", "write"} /\ Plain(a)
  <2>1. ASSUME NEW n PROVE Plain([NoArg EXCEPT !.n = n]) /\ Plain([NoArg EXCEPT !.bytes = n])
    BY DEF NoArg, Plain
  <2>2. CASE ReadCall(p)
    <3>1. PICK n \in ReadSize : Call(p, FALSE, "read", [NoArg EXCEPT !.n = n])
      BY <2>2 DEF ReadCall
    <3> DEFINE a == [NoArg EXCEPT !.n = n]
    <3>2. Plain(a)
      BY <2>1
    <3> HIDE DEF a
    <3>3. Call(p, FALSE, "read", a)
      BY <3>1 DEF a
    <3> QED BY <3>2, <3>3
  <2>3. CASE WriteCall(p)
    <3>1. PICK m \in Message : Call(p, TRUE, "write", [NoArg EXCEPT !.bytes = m])
      BY <2>3 DEF WriteCall
    <3> DEFINE a == [NoArg EXCEPT !.bytes = m]
    <3>2. Plain(a)
      BY <2>1
    <3> HIDE DEF a
    <3>3. Call(p, TRUE, "write", a)
      BY <3>1 DEF a
    <3>4. \A w, l : w = TRUE /\ l = "write" => Call(p, w, l, a)
      BY <3>3
    <3> QED BY <3>2, <3>4
  <2> QED BY <2>2, <2>3
<1>2. /\ pc[p] = "user" /\ state[p] = "RUNNABLE" /\ pc' = [pc EXCEPT ![p] = l]
      /\ UNCHANGED <<state, file, ofile, hand, pipe>>
  BY <1>1 DEF Call, InUser, At, Awake, Goto, procVars
<1>3. PICK fd \in Fd \ FreeFds(p) :
        arg' = [arg EXCEPT ![p] = [a EXCEPT !.pipe = file[ofile[p][fd]].pipe]]
  BY <1>1 DEF Call
<1>4. /\ pc'[p] = l /\ arg'[p] = [a EXCEPT !.pipe = file[ofile[p][fd]].pipe]
      /\ \A q \in Proc : q # p => pc'[q] = pc[q] /\ arg'[q] = arg[q]
  BY <1>2, <1>3 DEF PipesInv, Shapes, ProcShapes, ArgShapes
<1>5. arg'[p].pipe = file[ofile[p][fd]].pipe /\ arg'[p].writable = FALSE
  BY <1>1, <1>4 DEF Plain
<1>6. HoldOK(p) /\ ofile[p][fd] \in File
  BY <1>3 DEF HeldInv, HeldTypes, Table, FreeFds
<1>7. file[ofile[p][fd]].pipe \in Pipe
  BY <1>6, <1>3 DEF HeldInv, HoldOK, FreeFds, FileOK
<1>8. Uses1(p)'
  BY <1>2, <1>3, <1>5 DEF Uses1, FreeFds
<1>9. HoldOK(p)'
  BY <1>1, <1>2, <1>4, <1>6, <1>8 DEF HoldOK
<1>10. \A i, v : ~Closing(p, i, v) /\ ~Closing(p, i, v)'
  BY <1>1, <1>2, <1>4 DEF Closing
<1>11. arg'[p].pipe \in Pipe \cup {Null} /\ arg'[p].writable \in BOOLEAN
  BY <1>5, <1>7
<1> QED BY <1>2, <1>4, <1>9, <1>10, <1>11, PlainStep

-----------------------------------------------------------------------------
(* Reading and writing, which open and close no end. *)

LEMMA DrainedEnds ==
    ASSUME NEW q, PipeShape(q), NEW n, NEW w
    PROVE  Open(Drained(q, n), w) <=> Open(q, w)
<1> DEFINE d == Drained(q, n)
<1>1. d.readopen = q.readopen /\ d.writeopen = q.writeopen
  BY DEF PipeShape, Drained
<1> HIDE DEF d
<1>2. Open(d, w) <=> Open(q, w)
  BY <1>1 DEF Open
<1> QED BY <1>2 DEF d

LEMMA FilledEnds ==
    ASSUME NEW q, PipeShape(q), NEW s, NEW n, NEW c, NEW w
    PROVE  Open([Filled(q, s, n) EXCEPT !.cut = c], w) <=> Open(q, w)
<1> DEFINE f == [Filled(q, s, n) EXCEPT !.cut = c]
<1>1. f.readopen = q.readopen /\ f.writeopen = q.writeopen
  BY DEF PipeShape, Filled
<1> HIDE DEF f
<1>2. Open(f, w) <=> Open(q, w)
  BY <1>1 DEF Open
<1> QED BY <1>2 DEF f

InCall(p) == pc[p] \in {"read", "write", "sleep"}

LEMMA CallStep ==
    ASSUME PipesInv, HeldInv, NEW p \in Proc, InCall(p), state[p] = "RUNNABLE",
           UNCHANGED <<file, ofile, hand>>,
           \A q \in Proc : /\ q # p => pc'[q] = pc[q] /\ arg'[q] = arg[q]
                           /\ state'[q] \in {state[q], "RUNNABLE", "SLEEPING"},
           \A i \in Pipe, w \in BOOLEAN : Open(pipe'[i], w) <=> Open(pipe[i], w),
           \/ pc'[p] = "user" /\ arg'[p] = NoArg
           \/ /\ InCall(p)'
              /\ arg'[p].pipe = arg[p].pipe /\ arg'[p].writable = arg[p].writable
    PROVE  HeldInv'
<1>1. HoldOK(p) /\ arg[p].pipe \in Pipe \cup {Null} /\ arg[p].writable \in BOOLEAN
  BY DEF HeldInv, HeldTypes
<1>2. hand'[p] = <<>> /\ FreeFds(p)' = FreeFds(p) /\ state'[p] \in {"RUNNABLE", "SLEEPING"}
  BY <1>1 DEF HoldOK, FreeFds, InCall
<1>3. InCall(p)' => Uses1(p)'
  <2>1. Uses1(p)
    BY <1>1 DEF HoldOK, InCall
  <2> QED BY <2>1 DEF Uses1, InCall, NoArg
<1>4. HoldOK(p)'
  BY <1>1, <1>2, <1>3 DEF HoldOK, InCall
<1>5. \A i, w : ~Closing(p, i, w) /\ ~Closing(p, i, w)'
  BY DEF Closing, InCall
<1>6. arg'[p].pipe \in Pipe \cup {Null} /\ arg'[p].writable \in BOOLEAN
  BY <1>1, NoArgIs
<1>7. \A q \in Proc : state'[q] \in {"UNUSED", "ZOMBIE"} => state[q] \in {"UNUSED", "ZOMBIE"}
  OBVIOUS
<1> QED BY <1>4, <1>5, <1>6, <1>7, PlainStep

LEMMA StateWoken ==
    ASSUME PipesInv, NEW c, Wakeup(c)
    PROVE  \A q \in Proc : state'[q] \in {state[q], "RUNNABLE"}
BY DEF PipesInv, Shapes, ProcShapes, Wakeup

LEMMA ArgChanged ==
    ASSUME PipesInv, NEW p \in Proc, NEW a, arg' = [arg EXCEPT ![p] = a]
    PROVE  arg'[p] = a /\ \A q \in Proc : q # p => arg'[q] = arg[q]
BY DEF PipesInv, Shapes, ArgShapes

LEMMA PcChanged ==
    ASSUME PipesInv, NEW p \in Proc, NEW l, Goto(p, l)
    PROVE  pc'[p] = l /\ \A q \in Proc : q # p => pc'[q] = pc[q]
BY DEF PipesInv, Shapes, ProcShapes, Goto

LEMMA RingChanged ==
    ASSUME PipesInv, NEW i, NEW r, pipe' = [pipe EXCEPT ![i] = r]
    PROVE  \A j \in Pipe : pipe'[j] = IF j = i THEN r ELSE pipe[j]
BY DEF PipesInv, Shapes, PipeShapes

LEMMA ReturnStep ==
    ASSUME PipesInv, HeldInv, NEW p \in Proc, InCall(p), state[p] = "RUNNABLE",
           UNCHANGED <<file, ofile, hand>>, Goto(p, "user"), arg' = [arg EXCEPT ![p] = NoArg],
           \A q \in Proc : state'[q] \in {state[q], "RUNNABLE"},
           \A i \in Pipe, w \in BOOLEAN : Open(pipe'[i], w) <=> Open(pipe[i], w)
    PROVE  HeldInv'
<1>1. pc'[p] = "user" /\ \A q \in Proc : q # p => pc'[q] = pc[q]
  BY PcChanged
<1>2. arg'[p] = NoArg /\ \A q \in Proc : q # p => arg'[q] = arg[q]
  BY ArgChanged
<1> QED BY <1>1, <1>2, CallStep

LEMMA ReadWaitsHeld == ASSUME PipesInv, HeldInv, NEW p \in Proc, ReadWaits(p) PROVE HeldInv'
<1>1. /\ pc[p] = "read" /\ state[p] = "RUNNABLE" /\ UNCHANGED <<state, file, ofile, hand, pipe>>
      /\ \/ Goto(p, "user") /\ arg' = [arg EXCEPT ![p] = NoArg]
         \/ Goto(p, "sleep") /\ UNCHANGED arg
  BY DEF ReadWaits, At, Awake, procVars
<1>2. CASE Goto(p, "user") /\ arg' = [arg EXCEPT ![p] = NoArg]
  BY <1>1, <1>2, ReturnStep DEF InCall
<1>3. CASE Goto(p, "sleep") /\ UNCHANGED arg
  BY <1>1, <1>3, PcChanged, CallStep DEF InCall
<1> QED BY <1>1, <1>2, <1>3

LEMMA ReadBytesHeld == ASSUME PipesInv, HeldInv, NEW p \in Proc, ReadBytes(p) PROVE HeldInv'
<1>1. /\ pc[p] = "read" /\ state[p] = "RUNNABLE" /\ UNCHANGED <<file, ofile, hand>>
      /\ Goto(p, "user") /\ arg' = [arg EXCEPT ![p] = NoArg] /\ Wakeup(Nwrite(arg[p].pipe))
  BY DEF ReadBytes, At, Awake
<1>2. PICK i, n : pipe' = [pipe EXCEPT ![i] = Drained(pipe[i], n)]
  BY DEF ReadBytes
<1>3. ASSUME NEW j \in Pipe, NEW w \in BOOLEAN
      PROVE  Open(pipe'[j], w) <=> Open(pipe[j], w)
  <2>1. PipeShape(pipe[j])
    BY DEF PipesInv, Shapes, PipeShapes
  <2>2. pipe'[j] = IF j = i THEN Drained(pipe[i], n) ELSE pipe[j]
    BY <1>2, RingChanged
  <2>3. Open(Drained(pipe[j], n), w) <=> Open(pipe[j], w)
    BY <2>1, DrainedEnds, Zenon
  <2> QED BY <2>2, <2>3
<1>4. \A q \in Proc : state'[q] \in {state[q], "RUNNABLE"}
  BY <1>1, StateWoken
<1> QED BY <1>1, <1>3, <1>4, ReturnStep DEF InCall

LEMMA TakenHeld == ASSUME PipesInv, HeldInv, NEW p \in Proc, Taken(p) PROVE HeldInv'
<1>1. UNCHANGED <<state, file, ofile, hand, pc, arg, pipe>>
  BY DEF Taken, procVars
<1>2. HoldOK(p) /\ arg[p].pipe \in Pipe \cup {Null} /\ arg[p].writable \in BOOLEAN
  BY DEF HeldInv, HeldTypes
<1>3. HoldOK(p)'
  BY <1>1, <1>2 DEF HoldOK, FreeFds, Uses1
<1> QED BY <1>1, <1>2, <1>3, PlainStep DEF Closing

LEMMA WriteBytesHeld == ASSUME PipesInv, HeldInv, NEW p \in Proc, WriteBytes(p) PROVE HeldInv'
<1>1. /\ pc[p] = "write" /\ state[p] = "RUNNABLE" /\ UNCHANGED <<file, ofile, hand>>
      /\ \E c : Wakeup(c) \/ UNCHANGED procVars
  BY DEF WriteBytes, At, Awake
<1>2. PICK i, s, n, c : pipe' = [pipe EXCEPT ![i] = [Filled(pipe[i], s, n) EXCEPT !.cut = c]]
  BY DEF WriteBytes
<1>3. ASSUME NEW j \in Pipe, NEW w \in BOOLEAN
      PROVE  Open(pipe'[j], w) <=> Open(pipe[j], w)
  <2>1. PipeShape(pipe[j])
    BY DEF PipesInv, Shapes, PipeShapes
  <2>2. pipe'[j] = IF j = i THEN [Filled(pipe[i], s, n) EXCEPT !.cut = c] ELSE pipe[j]
    BY <1>2, RingChanged
  <2>3. Open([Filled(pipe[j], s, n) EXCEPT !.cut = c], w) <=> Open(pipe[j], w)
    BY <2>1, FilledEnds, Zenon
  <2> QED BY <2>2, <2>3
<1>4. \A q \in Proc : state'[q] \in {state[q], "RUNNABLE"}
  <2>1. CASE UNCHANGED procVars
    BY <2>1 DEF procVars
  <2> QED BY <1>1, <2>1, StateWoken
<1>5. \/ Goto(p, "user") /\ arg' = [arg EXCEPT ![p] = NoArg]
      \/ Goto(p, "sleep") /\ \E s2 : arg' = [arg EXCEPT ![p].bytes = s2]
  BY DEF WriteBytes
<1>6. CASE Goto(p, "user") /\ arg' = [arg EXCEPT ![p] = NoArg]
  BY <1>1, <1>3, <1>4, <1>6, ReturnStep DEF InCall
<1>7. CASE Goto(p, "sleep") /\ \E s2 : arg' = [arg EXCEPT ![p].bytes = s2]
  <2>1. PICK s2 : arg' = [arg EXCEPT ![p].bytes = s2]
    BY <1>7
  <2>2. /\ arg'[p].pipe = arg[p].pipe /\ arg'[p].writable = arg[p].writable
        /\ \A q \in Proc : q # p => arg'[q] = arg[q]
    BY <2>1 DEF PipesInv, Shapes, ArgShapes, ArgShape
  <2> QED BY <1>1, <1>3, <1>4, <1>7, <2>2, PcChanged, CallStep DEF InCall
<1> QED BY <1>5, <1>6, <1>7

LEMMA FallAsleepHeld == ASSUME PipesInv, HeldInv, NEW p \in Proc, FallAsleep(p) PROVE HeldInv'
<1>1. /\ pc[p] = "sleep" /\ state[p] = "RUNNABLE" /\ UNCHANGED <<arg, file, ofile, hand, pipe>>
      /\ \E l \in {"read", "write"} : Goto(p, l)
      /\ state' = [state EXCEPT ![p] = "SLEEPING"]
  BY DEF FallAsleep, At, Awake, Sleep
<1>2. \A q \in Proc : state'[q] \in {state[q], "SLEEPING"}
  BY <1>1 DEF PipesInv, Shapes, ProcShapes
<1> QED BY <1>1, <1>2, PcChanged, CallStep DEF InCall

-----------------------------------------------------------------------------
(* pipeclose() *)

LEMMA PipeCloseHeld == ASSUME PipesInv, HeldInv, NEW p \in Proc, PipeClose(p) PROVE HeldInv'
<1> DEFINE i == arg[p].pipe
           w == arg[p].writable
           s == [pipe[i] EXCEPT !.readopen = @ /\ w, !.writeopen = @ /\ ~w]
           r == IF s.readopen \/ s.writeopen THEN s ELSE NoPipe
<1>1. /\ pc[p] \in {"close", "exit"} /\ i # Null /\ UNCHANGED <<file, ofile, hand>>
      /\ pipe' = [pipe EXCEPT ![i] = r] /\ arg' = [arg EXCEPT ![p] = NoArg]
      /\ \E c : Wakeup(c)
  BY DEF PipeClose, At
<1>2. Goto(p, IF pc[p] = "close" /\ hand[p] = <<>> THEN "user" ELSE pc[p])
  BY DEF PipeClose, GoOn
<1>3. i \in Pipe /\ w \in BOOLEAN /\ HoldOK(p)
  BY <1>1 DEF HeldInv, HeldTypes
<1>4. /\ pc'[p] = (IF pc[p] = "close" /\ hand[p] = <<>> THEN "user" ELSE pc[p])
      /\ arg'[p] = NoArg
      /\ \A q \in Proc : q # p => pc'[q] = pc[q] /\ arg'[q] = arg[q]
  BY <1>1, <1>2, PcChanged, ArgChanged
<1>5. \A q \in Proc : state'[q] \in {state[q], "RUNNABLE"}
  BY <1>1, StateWoken
<1>6. \A v \in BOOLEAN : Open(r, v) <=> Open(pipe[i], v) /\ v # w
  <2>1. PipeShape(pipe[i])
    BY <1>3 DEF PipesInv, Shapes, PipeShapes
  <2>2. /\ s.readopen <=> pipe[i].readopen /\ w
        /\ s.writeopen <=> pipe[i].writeopen /\ ~w
    BY <1>3, <2>1 DEF PipeShape
  <2>3. ~NoPipe.readopen /\ ~NoPipe.writeopen
    BY NewRings
  <2> HIDE DEF s, i, w
  <2> QED BY <1>3, <2>2, <2>3 DEF Open
<1> HIDE DEF r, i, w
<1>7. \A j \in Pipe : pipe'[j] = IF j = i THEN r ELSE pipe[j]
  BY <1>1, RingChanged
<1>8. /\ Closing(p, i, w) /\ \A j \in Pipe, v \in BOOLEAN : ~Closing(p, j, v)'
      /\ \A j, v : Closing(p, j, v) => j = i /\ v = w
      /\ \A j, v : \A q \in Proc : q # p => (Closing(q, j, v)' <=> Closing(q, j, v))
  BY <1>1, <1>4, NoArgIs, Ranges DEF Closing, i, w
<1>9. HeldTypes'
  BY <1>1, <1>4, NoArgIs DEF HeldInv, HeldTypes
<1>10. ASSUME NEW f \in File PROVE FileOK(f)'
  BY <1>1, UsesIs DEF HeldInv, FileOK
<1>11. ASSUME NEW j \in Pipe, NEW v \in BOOLEAN PROVE EndOK(j, v)'
  <2>1. EndOK(j, v)
    BY DEF HeldInv
  <2>2. \A f \in File : IsEnd(f, j, v)' <=> IsEnd(f, j, v)
    BY <1>1 DEF IsEnd
  <2>3. CASE j = i /\ v = w
    <3>1. ~Open(pipe'[j], v)
      BY <1>6, <1>7, <2>3
    <3>2. ~Refers(j, v)'
      BY <1>8, <2>1, <2>2, <2>3, RefersIs DEF EndOK
    <3> QED BY <1>8, <2>1, <2>2, <2>3, <3>1, <3>2 DEF EndOK
  <2>4. CASE ~(j = i /\ v = w)
    <3>1. Open(pipe'[j], v) <=> Open(pipe[j], v)
      BY <1>6, <1>7, <2>4
    <3>2. \A q \in Proc : Closing(q, j, v)' <=> Closing(q, j, v)
      BY <1>8, <2>4
    <3> QED BY <2>1, <2>2, <3>1, <3>2, EndsKept
  <2> QED BY <2>3, <2>4
<1>12. ASSUME NEW q \in Proc PROVE HoldOK(q)'
  <2>1. CASE q = p
    <3>1. FreeFds(p)' = FreeFds(p) /\ state'[p] \in {state[p], "RUNNABLE"}
      BY <1>1, <1>5 DEF FreeFds
    <3> QED BY <1>1, <1>3, <1>4, <2>1, <3>1 DEF HoldOK
  <2>2. CASE q # p
    <3>1. /\ pc'[q] = pc[q] /\ arg'[q] = arg[q] /\ HoldOK(q)
          /\ state'[q] \in {"UNUSED", "ZOMBIE"} => state[q] \in {"UNUSED", "ZOMBIE"}
      BY <1>4, <1>5, <2>2 DEF HeldInv
    <3> QED BY <1>1, <3>1, HoldKept DEF HoldOK
  <2> QED BY <2>1, <2>2
<1> QED BY <1>9, <1>10, <1>11, <1>12 DEF HeldInv

-----------------------------------------------------------------------------
(* Steps that change files and descriptors. *)

\* One entry of the file table changes.
LEMMA FileChanged ==
    ASSUME HeldInv, NEW f \in File, NEW r \in FileRec, file' = [file EXCEPT ![f] = r]
    PROVE  /\ file' \in [File -> FileRec] /\ file'[f] = r
           /\ \A g \in File : g # f => file'[g] = file[g]
BY DEF HeldInv, HeldTypes

LEMMA RecIs ==
    ASSUME NEW r \in FileRec, NEW n \in Nat
    PROVE  /\ [r EXCEPT !.ref = n] \in FileRec /\ [r EXCEPT !.ref = n].ref = n
           /\ [r EXCEPT !.ref = n].type = r.type /\ [r EXCEPT !.ref = n].pipe = r.pipe
           /\ [r EXCEPT !.ref = n].writable = r.writable
           /\ NoFile \in FileRec /\ NoFile.ref = 0 /\ NoFile.type = "none"
BY DEF FileRec, NoFile

\* A process that is at "pipe" and holds a file is the only one that has it.
LEMMA HandIs ==
    ASSUME HeldInv, NEW p \in Proc, NEW k \in 1 .. Len(hand[p])
    PROVE  hand[p][k] \in File /\ k \in 1 .. 2 /\ Has(hand, p, k, hand[p][k])
<1>1. hand[p] \in Seq(File) /\ Len(hand[p]) <= 2 /\ Len(hand[p]) \in Nat
  BY DEF HeldInv, HeldTypes
<1> QED BY <1>1 DEF Has

LEMMA FileallocHeld ==
    ASSUME PipesInv, HeldInv, NEW p \in Proc, PipeFirst(p) \/ PipeSecond(p)
    PROVE  HeldInv'
<1> DEFINE f == Min(FreeFiles)
<1>1. /\ FreeFiles # {} /\ file' = [file EXCEPT ![f].ref = 1]
      /\ hand' = [hand EXCEPT ![p] = Append(@, f)]
      /\ pc[p] \in {"user", "pipe"} /\ state[p] = "RUNNABLE"
      /\ pc[p] = "pipe" => Len(hand[p]) = 1
      /\ UNCHANGED <<state, ofile, pipe, arg>>
  BY DEF PipeFirst, PipeSecond, Filealloc, InUser, At, Awake, procVars
<1>2. pc'[p] = "pipe" /\ \A q \in Proc : q # p => pc'[q] = pc[q]
  <2>1. Goto(p, "pipe") \/ (pc[p] = "pipe" /\ pc' = pc)
    BY DEF PipeFirst, PipeSecond, At
  <2> QED BY <2>1, PcChanged
<1>3. f \in File /\ file[f].ref = 0
  <2>1. FreeFiles \in SUBSET Nat
    BY Ranges DEF FreeFiles
  <2>2. f \in FreeFiles
    BY <1>1, <2>1, LeastOf
  <2> QED BY <2>2 DEF FreeFiles
<1> HIDE DEF f
<1> DEFINE r == [file[f] EXCEPT !.ref = 1]
<1>4. /\ r \in FileRec /\ r.ref = 1 /\ r.type = "none" /\ file[f].type = "none"
      /\ r.pipe = file[f].pipe /\ r.writable = file[f].writable
  <2>1. file[f] \in FileRec /\ file[f].type = "none" /\ 1 \in Nat
    BY <1>3 DEF HeldInv, HeldTypes, FileOK
  <2> QED BY <2>1, RecIs
<1>5. /\ file' \in [File -> FileRec] /\ file'[f] = r
      /\ \A g \in File : g # f => file'[g] = file[g]
  BY <1>1, <1>3, <1>4, FileChanged
<1> HIDE DEF r
<1>6. hand[p] \in Seq(File) /\ Len(hand[p]) = (IF pc[p] = "pipe" THEN 1 ELSE 0)
  <2>1. pc[p] = "user" => hand[p] = <<>>
    BY DEF HeldInv, HoldOK
  <2> QED BY <1>1, <2>1 DEF HeldInv, HeldTypes
<1>7. /\ hand'[p] = Append(hand[p], f) /\ hand' \in [Proc -> Seq(File)]
      /\ \A q \in Proc : q # p => hand'[q] = hand[q]
  BY <1>1, <1>3 DEF HeldInv, HeldTypes
<1>8. /\ Len(hand'[p]) = Len(hand[p]) + 1 /\ hand'[p] # <<>>
      /\ hand'[p][Len(hand[p]) + 1] = f
      /\ \A k \in 1 .. Len(hand[p]) : hand'[p][k] = hand[p][k]
  BY <1>3, <1>6, <1>7
<1>9. HeldTypes'
  BY <1>1, <1>5, <1>6, <1>7, <1>8 DEF HeldInv, HeldTypes
<1>10. ASSUME NEW g \in File PROVE FileOK(g)'
  <2>1. Cardinality(InHand(hand', g)) = Cardinality(InHand(hand, g)) + One(g = f)
    <3>1. Cardinality(InHand(hand', g)) = Cardinality(InHand(hand, g))
               + One(Has(hand', p, 1, g)) - One(Has(hand, p, 1, g))
               + One(Has(hand', p, 2, g)) - One(Has(hand, p, 2, g))
      BY <1>7, HandPut
    <3>2. CASE pc[p] = "pipe"
      <4>1. /\ Has(hand', p, 1, g) <=> Has(hand, p, 1, g)
            /\ Has(hand', p, 2, g) <=> g = f
            /\ ~Has(hand, p, 2, g)
        BY <1>6, <1>8, <3>2 DEF Has
      <4> QED BY <3>1, <4>1, RefsFinite DEF One
    <3>3. CASE pc[p] # "pipe"
      <4>1. /\ Has(hand', p, 1, g) <=> g = f
            /\ ~Has(hand, p, 1, g) /\ ~Has(hand, p, 2, g) /\ ~Has(hand', p, 2, g)
        BY <1>6, <1>8, <3>3 DEF Has
      <4> QED BY <3>1, <4>1, RefsFinite DEF One
    <3> QED BY <3>2, <3>3
  <2>2. Uses(g)' = Uses(g) + One(g = f)
    <3>1. Cardinality(Descs(ofile', g)) = Cardinality(Descs(ofile, g))
      BY <1>1
    <3>2. One(g = f) \in Nat
      BY DEF One
    <3> QED BY <2>1, <3>1, <3>2, UsesIs, RefsFinite
  <2>3. FileOK(g)
    BY DEF HeldInv
  <2>4. CASE g = f
    BY <1>3, <1>4, <1>5, <2>2, <2>3, <2>4 DEF FileOK, One
  <2>5. CASE g # f
    <3>1. Uses(g) = file[g].ref /\ file[g].ref \in Nat
      BY <2>3 DEF FileOK, HeldInv, HeldTypes, FileRec
    <3> QED BY <1>5, <2>2, <2>3, <2>5, <3>1 DEF FileOK, One
  <2> QED BY <2>4, <2>5
<1>11. ASSUME NEW i \in Pipe, NEW w \in BOOLEAN PROVE EndOK(i, w)'
  <2>1. \A g \in File : IsEnd(g, i, w)' <=> IsEnd(g, i, w)
    BY <1>4, <1>5 DEF IsEnd
  <2>2. \A q \in Proc : Closing(q, i, w)' <=> Closing(q, i, w)
    BY <1>1, <1>2 DEF Closing
  <2> QED BY <1>1, <2>1, <2>2, EndsKept DEF HeldInv
<1>12. ASSUME NEW q \in Proc, q # p PROVE HoldOK(q)'
  <2>1. HoldOK(q) /\ ofile[q] \in [Fd -> File \cup {Null}]
    BY DEF HeldInv, HeldTypes, Table
  <2>2. \A fd \in Fd : LET g == ofile[q][fd]
                       IN  g # Null => file'[g].type = "pipe" /\ file'[g].pipe = file[g].pipe
    BY <1>4, <1>5, <2>1 DEF HoldOK
  <2>3. pc[q] = "pipe" =>
          \A k \in 1 .. Len(hand[q]) : file'[hand[q][k]].ref = 1 /\ file'[hand[q][k]].type = "none"
    BY <1>3, <1>5, <2>1, HandIs DEF HoldOK
  <2> QED BY <1>1, <1>2, <1>7, <1>12, <2>1, <2>2, <2>3, HoldKept
<1>13. HoldOK(p)'
  <2>1. HoldOK(p) /\ ofile[p] \in [Fd -> File \cup {Null}]
    BY DEF HeldInv, HeldTypes, Table
  <2>2. \A fd \in Fd : ofile[p][fd] # Null => file'[ofile[p][fd]].type = "pipe"
    BY <1>4, <1>5, <2>1 DEF HoldOK
  <2>3. \A k \in 1 .. Len(hand'[p]) : file'[hand'[p][k]].ref = 1 /\ file'[hand'[p][k]].type = "none"
    <3>1. TAKE k \in 1 .. Len(hand'[p])
    <3>2. CASE k = Len(hand[p]) + 1
      BY <1>4, <1>5, <1>8, <3>2
    <3>3. CASE k # Len(hand[p]) + 1
      <4>1. k \in 1 .. Len(hand[p]) /\ pc[p] = "pipe"
        BY <1>6, <1>8, <3>3
      <4> QED BY <1>3, <1>5, <1>8, <2>1, <4>1, HandIs DEF HoldOK
    <3> QED BY <3>2, <3>3
  <2>4. arg[p] = NoArg
    BY <1>1, <2>1 DEF HoldOK
  <2> QED BY <1>1, <1>2, <1>8, <2>2, <2>3, <2>4 DEF HoldOK
<1> QED BY <1>9, <1>10, <1>11, <1>12, <1>13 DEF HeldInv

LEMMA DupHeld == ASSUME PipesInv, HeldInv, NEW p \in Proc, Dup(p) PROVE HeldInv'
<1> DEFINE n == Min(FreeFds(p))
<1>1. /\ FreeFds(p) # {} /\ pc[p] = "user" /\ state[p] = "RUNNABLE"
      /\ UNCHANGED <<state, pipe, pc, arg, hand>>
  BY DEF Dup, InUser, At, Awake, procVars, local
<1>2. PICK fd \in Fd \ FreeFds(p) :
        /\ ofile' = [ofile EXCEPT ![p][n] = ofile[p][fd]]
        /\ file' = [file EXCEPT ![ofile[p][fd]].ref = @ + 1]
  BY DEF Dup
<1>3. n \in Fd /\ ofile[p][n] = Null
  <2>1. FreeFds(p) \in SUBSET Nat
    BY Ranges DEF FreeFds
  <2>2. n \in FreeFds(p)
    BY <1>1, <2>1, LeastOf
  <2> QED BY <2>2 DEF FreeFds
<1> HIDE DEF n
<1> DEFINE f == ofile[p][fd]
<1>4. f \in File /\ file[f] \in FileRec /\ file[f].type = "pipe" /\ file[f].ref \in Nat /\ HoldOK(p)
  <2>1. f \in File
    BY <1>2 DEF HeldInv, HeldTypes, Table, FreeFds
  <2>2. file[f].type = "pipe" /\ HoldOK(p)
    BY <1>2 DEF HeldInv, HoldOK, FreeFds
  <2> QED BY <2>1, <2>2 DEF HeldInv, HeldTypes, FileRec
<1>5. /\ ofile' \in Table /\ ofile'[p][n] = f
      /\ \A q \in Proc, b \in Fd : <<q, b>> # <<p, n>> => ofile'[q][b] = ofile[q][b]
      /\ \A g : Cardinality(Descs(ofile', g))
                  = Cardinality(Descs(ofile, g)) + One(f = g) - One(Null = g)
  <2>1. ofile \in Table
    BY DEF HeldInv, HeldTypes
  <2>2. ofile' = Put(ofile, p, n, f)
    BY <1>2 DEF Put
  <2>3. f \in File \cup {Null}
    BY <1>4
  <2> HIDE DEF f
  <2>4. ofile' \in Table /\ ofile'[p][n] = f
    BY <1>3, <2>2, <2>1, <2>3, DescsPut
  <2>5. \A q \in Proc, b \in Fd : <<q, b>> # <<p, n>> => ofile'[q][b] = ofile[q][b]
    BY <1>3, <2>2, <2>1, <2>3, DescsPut
  <2>6. ASSUME NEW g
        PROVE  Cardinality(Descs(ofile', g))
                  = Cardinality(Descs(ofile, g)) + One(f = g) - One(ofile[p][n] = g)
    BY <1>3, <2>2, <2>1, <2>3, DescsCount
  <2> QED BY <1>3, <2>4, <2>5, <2>6
<1> DEFINE r == [file[f] EXCEPT !.ref = file[f].ref + 1]
<1> HIDE DEF f
<1>6. /\ r \in FileRec /\ r.ref = file[f].ref + 1 /\ r.type = "pipe"
      /\ r.pipe = file[f].pipe /\ r.writable = file[f].writable
  BY <1>4, RecIs
<1>7. file' = [file EXCEPT ![f] = r]
  BY <1>2 DEF f
<1>8. /\ file' \in [File -> FileRec] /\ file'[f] = r
      /\ \A g \in File : g # f => file'[g] = file[g]
  BY <1>4, <1>6, <1>7, FileChanged
<1> HIDE DEF r
<1>9. HeldTypes'
  BY <1>1, <1>5, <1>8 DEF HeldInv, HeldTypes
<1>10. ASSUME NEW g \in File PROVE FileOK(g)'
  <2>1. Uses(g)' = Uses(g) + One(g = f)
    <3>1. One(Null = g) = 0 /\ One(f = g) = One(g = f) /\ One(g = f) \in Nat
      BY Ranges DEF One
    <3> QED BY <1>1, <1>5, <3>1, UsesIs, RefsFinite
  <2>2. FileOK(g) /\ file[g].ref \in Nat
    BY DEF HeldInv, HeldTypes, FileRec
  <2>3. CASE g = f
    BY <1>4, <1>6, <1>8, <2>1, <2>2, <2>3 DEF FileOK, One
  <2>4. CASE g # f
    BY <1>8, <2>1, <2>2, <2>4 DEF FileOK, One
  <2> QED BY <2>3, <2>4
<1>11. ASSUME NEW i \in Pipe, NEW w \in BOOLEAN PROVE EndOK(i, w)'
  <2>1. \A g \in File : IsEnd(g, i, w)' <=> IsEnd(g, i, w)
    BY <1>4, <1>6, <1>8 DEF IsEnd
  <2> QED BY <1>1, <2>1, EndsKept DEF HeldInv, Closing
<1>12. \A g \in File : file[g].type = "pipe" => file'[g].type = "pipe" /\ file'[g].pipe = file[g].pipe
  BY <1>6, <1>8
<1>13. ASSUME NEW q \in Proc, q # p PROVE HoldOK(q)'
  <2>1. HoldOK(q) /\ ofile[q] \in [Fd -> File \cup {Null}] /\ ofile'[q] \in [Fd -> File \cup {Null}]
    BY <1>5 DEF HeldInv, HeldTypes, Table
  <2>2. ofile'[q] = ofile[q]
    BY <1>5, <1>13, <2>1
  <2>3. pc[q] = "pipe" =>
          \A k \in 1 .. Len(hand[q]) : file'[hand[q][k]].ref = 1 /\ file'[hand[q][k]].type = "none"
    BY <1>4, <1>8, <2>1, HandIs DEF HoldOK
  <2>4. \A b \in Fd : LET g == ofile[q][b]
                      IN  g # Null => file'[g].type = "pipe" /\ file'[g].pipe = file[g].pipe
    BY <1>12, <2>1 DEF HoldOK
  <2> QED BY <1>1, <2>1, <2>2, <2>3, <2>4, HoldKept
<1>14. HoldOK(p)'
  <2>1. \A b \in Fd : ofile'[p][b] # Null => file'[ofile'[p][b]].type = "pipe"
    <3>1. TAKE b \in Fd
    <3>2. CASE b = n
      BY <1>5, <1>6, <1>8, <3>2
    <3>3. CASE b # n
      <4>1. ofile'[p][b] = ofile[p][b] /\ ofile[p][b] \in File \cup {Null}
        BY <1>5, <3>3 DEF HeldInv, HeldTypes, Table
      <4> QED BY <1>4, <1>12, <4>1 DEF HoldOK
    <3> QED BY <3>2, <3>3
  <2> QED BY <1>1, <1>4, <2>1 DEF HoldOK
<1> QED BY <1>9, <1>10, <1>11, <1>13, <1>14 DEF HeldInv

\* fork() gives the child a copy of each descriptor, and each file as many references.
Copies(r, f) == {fd \in Fd : r[fd] = f}

LEMMA ForkCount ==
    ASSUME NEW o \in Table, NEW m \in Proc, NEW p \in Proc, NEW n \in Table, NEW f \in File,
           \A fd \in Fd : o[m][fd] = Null,
           n[m] = o[p], \A q \in Proc : q # m => n[q] = o[q]
    PROVE  /\ Cardinality(Copies(o[p], f)) \in Nat
           /\ Cardinality(Descs(n, f)) = Cardinality(Descs(o, f)) + Cardinality(Copies(o[p], f))
<1> DEFINE C == Copies(o[p], f)
           A == {m} \X C
<1>2. IsFiniteSet(C) /\ IsFiniteSet({m}) /\ Cardinality({m}) = 1
  BY Ranges, FS_Subset, FS_Singleton DEF Copies
<1>3. Cardinality(C) \in Nat
  BY <1>2, FS_CardinalityType
<1>4. IsFiniteSet(A) /\ Cardinality(A) = Cardinality({m}) * Cardinality(C)
  BY <1>2, FS_Product
<1>5. Cardinality(A) = Cardinality(C)
  BY <1>2, <1>3, <1>4
<1>6. Descs(n, f) = Descs(o, f) \cup A
  BY Ranges DEF Descs, Copies
<1>7. Descs(o, f) \cap A = {}
  BY Ranges DEF Descs
<1> HIDE DEF A, C
<1>8. Cardinality(Descs(o, f) \cup A) = Cardinality(Descs(o, f)) + Cardinality(A)
                                         - Cardinality(Descs(o, f) \cap A)
  BY <1>4, RefsFinite, FS_Union
<1>9. Cardinality(Descs(o, f) \cap A) = 0
  BY <1>7, FS_EmptySet
<1>10. Cardinality(Descs(n, f)) = Cardinality(Descs(o, f)) + Cardinality(C)
  BY <1>3, <1>5, <1>6, <1>8, <1>9, RefsFinite
<1> QED BY <1>3, <1>10 DEF C

LEMMA ForkHeld == ASSUME PipesInv, HeldInv, NEW p \in Proc, Fork(p) PROVE HeldInv'
<1> DEFINE S == {q \in Proc : state[q] = "UNUSED"}
<1> PICK m : m = Min(S)
  OBVIOUS
<1>1. /\ S # {} /\ pc[p] = "user" /\ state[p] = "RUNNABLE"
      /\ state' = [state EXCEPT ![m] = "RUNNABLE"] /\ ofile' = [ofile EXCEPT ![m] = ofile[p]]
      /\ pc' = [pc EXCEPT ![m] = "user"] /\ file' = Duplicated(p)
      /\ UNCHANGED <<pipe, arg, hand>>
  BY DEF Fork, InUser, At, Awake
<1>2. m \in Proc /\ state[m] = "UNUSED"
  <2>1. S \in SUBSET Nat
    BY Ranges
  <2>2. m \in S
    BY <1>1, <2>1, LeastOf
  <2> QED BY <2>2
<1> HIDE DEF S
<1>3. /\ HoldOK(p) /\ HoldOK(m) /\ arg[m] = NoArg /\ hand[m] = <<>>
      /\ \A fd \in Fd : ofile[m][fd] = Null
  BY <1>2 DEF HeldInv, HoldOK, FreeFds
<1>4. /\ state'[m] = "RUNNABLE" /\ pc'[m] = "user" /\ ofile'[m] = ofile[p] /\ ofile' \in Table
      /\ \A q \in Proc : q # m => state'[q] = state[q] /\ pc'[q] = pc[q] /\ ofile'[q] = ofile[q]
  BY <1>1, <1>2 DEF PipesInv, Shapes, ProcShapes, HeldInv, HeldTypes, Table
<1>5. ASSUME NEW f \in File
      PROVE  /\ Cardinality(Copies(ofile[p], f)) \in Nat
             /\ Cardinality(Descs(ofile', f))
                  = Cardinality(Descs(ofile, f)) + Cardinality(Copies(ofile[p], f))
  <2>1. /\ \A fd \in Fd : ofile[m][fd] = Null
        /\ ofile'[m] = ofile[p] /\ \A q \in Proc : q # m => ofile'[q] = ofile[q]
    BY <1>3, <1>4
  <2>2. ofile \in Table /\ ofile' \in Table
    BY <1>4 DEF HeldInv, HeldTypes
  <2> QED BY <1>2, <2>1, <2>2, ForkCount
<1>6. ASSUME NEW f \in File, file[f].type = "none" PROVE Cardinality(Copies(ofile[p], f)) = 0
  <2>1. Copies(ofile[p], f) = {}
    BY <1>3, <1>6, Ranges DEF HoldOK, Copies
  <2> QED BY <2>1, FS_EmptySet
<1>7. \A f \in File : file'[f] = [file[f] EXCEPT !.ref = file[f].ref + Cardinality(Copies(ofile[p], f))]
  BY <1>1 DEF Duplicated, Copies
<1>9. ASSUME NEW f \in File
      PROVE  /\ file'[f] \in FileRec /\ file'[f].ref = file[f].ref + Cardinality(Copies(ofile[p], f))
             /\ file'[f].type = file[f].type /\ file'[f].pipe = file[f].pipe
             /\ file'[f].writable = file[f].writable
  <2>1. file[f].ref + Cardinality(Copies(ofile[p], f)) \in Nat /\ file[f] \in FileRec
    BY <1>5 DEF FileRec, HeldInv, HeldTypes
  <2>2. PICK k : k = file[f].ref + Cardinality(Copies(ofile[p], f))
    OBVIOUS
  <2>3. k \in Nat /\ file'[f] = [file[f] EXCEPT !.ref = k]
    BY <1>7, <2>1, <2>2
  <2> QED BY <2>1, <2>2, <2>3, RecIs
<1>10. HeldTypes'
  <2>1. file' = [f \in File |-> file'[f]]
    BY <1>1 DEF Duplicated
  <2> QED BY <1>1, <1>4, <1>9, <2>1 DEF HeldInv, HeldTypes
<1>11. ASSUME NEW f \in File PROVE FileOK(f)'
  <2>1. Uses(f)' = Uses(f) + Cardinality(Copies(ofile[p], f))
    <3>1. Cardinality(InHand(hand', f)) = Cardinality(InHand(hand, f))
      BY <1>1
    <3> QED BY <1>5, <3>1, UsesIs, RefsFinite
  <2>2. FileOK(f) /\ file[f].ref \in Nat
    BY DEF HeldInv, HeldTypes, FileRec
  <2> QED BY <1>5, <1>9, <2>1, <2>2 DEF FileOK
<1>12. ASSUME NEW i \in Pipe, NEW w \in BOOLEAN PROVE EndOK(i, w)'
  <2>1. \A g \in File : IsEnd(g, i, w)' <=> IsEnd(g, i, w)
    BY <1>9 DEF IsEnd
  <2>2. \A q \in Proc : Closing(q, i, w)' <=> Closing(q, i, w)
    BY <1>1, <1>3, <1>4, NoArgIs, Ranges DEF Closing
  <2> QED BY <1>1, <2>1, <2>2, EndsKept DEF HeldInv
<1>13. ASSUME NEW q \in Proc, q # m PROVE HoldOK(q)'
  <2>1. HoldOK(q) /\ ofile[q] \in [Fd -> File \cup {Null}]
    BY DEF HeldInv, HeldTypes, Table
  <2>2. \A fd \in Fd : LET g == ofile[q][fd]
                       IN  g # Null => file'[g].type = "pipe" /\ file'[g].pipe = file[g].pipe
    BY <1>9, <2>1 DEF HoldOK
  <2>3. pc[q] = "pipe" =>
          \A k \in 1 .. Len(hand[q]) : file'[hand[q][k]].ref = 1 /\ file'[hand[q][k]].type = "none"
    BY <1>6, <1>9, <2>1, HandIs DEF HoldOK
  <2> QED BY <1>1, <1>4, <1>13, <2>1, <2>2, <2>3, HoldKept
<1>14. HoldOK(m)'
  <2>1. \A fd \in Fd : ofile'[m][fd] # Null => file'[ofile'[m][fd]].type = "pipe"
    <3>1. \A fd \in Fd : ofile[p][fd] # Null => ofile[p][fd] \in File
      BY DEF HeldInv, HeldTypes, Table
    <3> QED BY <1>3, <1>4, <1>9, <3>1 DEF HoldOK
  <2>2. hand'[m] = <<>> /\ arg'[m] = NoArg
    BY <1>1, <1>3
  <2>3. pc'[m] = "user" /\ state'[m] = "RUNNABLE"
    BY <1>4
  <2> QED BY <2>1, <2>2, <2>3 DEF HoldOK
<1>15. ASSUME NEW q \in Proc PROVE HoldOK(q)'
  <2>1. CASE q = m
    BY <1>14, <2>1 DEF HoldOK
  <2> QED BY <1>13, <2>1
<1> QED BY <1>10, <1>11, <1>12, <1>15 DEF HeldInv

LEMMA CloseHeld == ASSUME PipesInv, HeldInv, NEW p \in Proc, Close(p) PROVE HeldInv'
<1>1. /\ pc[p] = "user" /\ state[p] = "RUNNABLE" /\ Goto(p, "close")
      /\ UNCHANGED <<state, file, pipe, arg>>
  BY DEF Close, InUser, At, Awake, procVars
<1>2. PICK fd \in Fd \ FreeFds(p) :
        /\ ofile' = [ofile EXCEPT ![p][fd] = Null]
        /\ hand' = [hand EXCEPT ![p] = <<ofile[p][fd]>>]
  BY DEF Close
<1>3. fd \in Fd /\ \E f : f = ofile[p][fd]
  OBVIOUS
<1> PICK f : f = ofile[p][fd]
  BY <1>3
<1>4. f \in File /\ HoldOK(p) /\ hand[p] = <<>> /\ arg[p] = NoArg
  <2>1. f \in File
    BY DEF HeldInv, HeldTypes, Table, FreeFds
  <2> QED BY <1>1, <2>1 DEF HeldInv, HoldOK
<1>5. pc'[p] = "close" /\ \A q \in Proc : q # p => pc'[q] = pc[q]
  BY <1>1, PcChanged
<1>6. /\ hand' \in [Proc -> Seq(File)] /\ hand'[p] = <<f>>
      /\ \A q \in Proc : q # p => hand'[q] = hand[q]
  BY <1>2, <1>3, <1>4 DEF HeldInv, HeldTypes
<1>7. /\ ofile \in Table /\ ofile' = Put(ofile, p, fd, Null) /\ Null \in File \cup {Null}
  BY <1>2 DEF HeldInv, HeldTypes, Put
<1>8. /\ ofile' \in Table /\ ofile'[p][fd] = Null
      /\ \A b \in Fd : b # fd => ofile'[p][b] = ofile[p][b]
      /\ \A q \in Proc : q # p => ofile'[q] = ofile[q]
  BY <1>3, <1>7, DescsPut
<1>9. ASSUME NEW g \in File PROVE Uses(g)' = Uses(g)
  <2>1. Cardinality(Descs(ofile', g)) = Cardinality(Descs(ofile, g)) + One(Null = g) - One(f = g)
    BY <1>3, <1>7, DescsCount
  <2>2. Cardinality(InHand(hand', g)) = Cardinality(InHand(hand, g))
               + One(Has(hand', p, 1, g)) - One(Has(hand, p, 1, g))
               + One(Has(hand', p, 2, g)) - One(Has(hand, p, 2, g))
    BY <1>6, HandPut
  <2>3. /\ Has(hand', p, 1, g) <=> f = g
        /\ ~Has(hand, p, 1, g) /\ ~Has(hand, p, 2, g) /\ ~Has(hand', p, 2, g) /\ Null # g
    BY <1>4, <1>6, Ranges DEF Has
  <2> QED BY <2>1, <2>2, <2>3, UsesIs, RefsFinite DEF One
<1>10. HeldTypes'
  <2>1. \A q \in Proc : Len(hand'[q]) <= 2
    <3>1. Len(<<f>>) = 1
      OBVIOUS
    <3>2. Len(hand'[p]) <= 2
      BY <1>6, <3>1
    <3> QED BY <1>6, <3>2 DEF HeldInv, HeldTypes
  <2> QED BY <1>1, <1>6, <1>8, <2>1 DEF HeldInv, HeldTypes
<1>11. ASSUME NEW g \in File PROVE FileOK(g)'
  BY <1>1, <1>9 DEF HeldInv, FileOK
<1>12. ASSUME NEW i \in Pipe, NEW w \in BOOLEAN PROVE EndOK(i, w)'
  <2>1. \A q \in Proc : Closing(q, i, w)' <=> Closing(q, i, w)
    BY <1>1, <1>4, <1>5, NoArgIs, Ranges DEF Closing
  <2> QED BY <1>1, <2>1, EndsKept DEF HeldInv, IsEnd
<1>13. ASSUME NEW q \in Proc, q # p PROVE HoldOK(q)'
  <2>1. /\ HoldOK(q) /\ pc'[q] = pc[q] /\ hand'[q] = hand[q] /\ ofile'[q] = ofile[q]
        /\ file' = file /\ arg'[q] = arg[q] /\ state'[q] = state[q]
    BY <1>1, <1>5, <1>6, <1>8, <1>13 DEF HeldInv
  <2>2. /\ \A b \in Fd : ofile[q][b] # Null => file[ofile[q][b]].type = "pipe"
        /\ pc[q] = "pipe" => \A k \in 1 .. Len(hand[q]) :
                                file[hand[q][k]].ref = 1 /\ file[hand[q][k]].type = "none"
    BY <2>1 DEF HoldOK
  <2> QED BY <2>1, <2>2, HoldKept
<1>14. HoldOK(p)'
  <2>1. \A b \in Fd : ofile'[p][b] # Null => file'[ofile'[p][b]].type = "pipe"
    BY <1>1, <1>4, <1>8 DEF HoldOK
  <2> QED BY <1>1, <1>5, <2>1 DEF HoldOK
<1> QED BY <1>10, <1>11, <1>12, <1>13, <1>14 DEF HeldInv

-----------------------------------------------------------------------------
(* fileclose() *)

LEMMA FilecloseHeld ==
    ASSUME PipesInv, HeldInv, NEW p \in Proc, NEW f \in File, NEW files, Fileclose(p, f, files),
           pc[p] \in {"close", "exit"}, state[p] = "RUNNABLE", file[f].ref \in Nat \ {0},
           ofile' \in Table, hand' \in [Proc -> Seq(File)], Len(hand'[p]) <= 2,
           \A q \in Proc : q # p => ofile'[q] = ofile[q] /\ hand'[q] = hand[q],
           \A fd \in Fd : ofile'[p][fd] \in {ofile[p][fd], Null},
           pc[p] = "exit" => hand'[p] = <<>>,
           hand'[p] = files,
           \A g \in File : Uses(g)' = Uses(g) - One(g = f)
    PROVE  HeldInv'
<1> DEFINE last == file[f].ref = 1
           ends == last /\ file[f].type = "pipe"
           r == IF last THEN NoFile ELSE [file[f] EXCEPT !.ref = file[f].ref - 1]
<1>1. /\ arg[p] = NoArg /\ file' = [file EXCEPT ![f] = r] /\ UNCHANGED <<state, pipe>>
      /\ ends => /\ UNCHANGED pc
                 /\ arg' = [arg EXCEPT ![p].pipe = file[f].pipe, ![p].writable = file[f].writable]
      /\ ~ends => UNCHANGED arg /\ GoOn(p, files)
  <2>1. CASE ends
    BY <2>1 DEF Fileclose, procVars
  <2>2. CASE ~ends
    <3>1. arg' = arg /\ GoOn(p, files)
      BY <2>2 DEF Fileclose
    <3>2. arg[p] = NoArg /\ UNCHANGED <<state, pipe>>
      BY DEF Fileclose, procVars
    <3>3. file' = [file EXCEPT ![f] = r]
      BY DEF Fileclose
    <3> QED BY <2>2, <3>1, <3>2, <3>3
  <2> QED BY <2>1, <2>2
<1>2. file[f] \in FileRec /\ FileOK(f) /\ HoldOK(p)
  BY DEF HeldInv, HeldTypes
<1>3. /\ r \in FileRec /\ (last => r.ref = 0 /\ r.type = "none")
      /\ ~last => /\ r.ref = file[f].ref - 1 /\ r.ref \in Nat \ {0} /\ r.type = file[f].type
                  /\ r.pipe = file[f].pipe /\ r.writable = file[f].writable
  <2>1. ~last => file[f].ref - 1 \in Nat \ {0}
    OBVIOUS
  <2> QED BY <1>2, <2>1, RecIs
<1> HIDE DEF r
<1>4. /\ file' \in [File -> FileRec] /\ file'[f] = r
      /\ \A g \in File : g # f => file'[g] = file[g]
  BY <1>1, <1>3, FileChanged
<1>5. /\ \A q \in Proc : q # p => pc'[q] = pc[q] /\ arg'[q] = arg[q]
      /\ ends => pc'[p] = pc[p] /\ arg'[p].pipe = file[f].pipe /\ arg'[p].writable = file[f].writable
      /\ ~ends => /\ arg'[p] = NoArg
                  /\ pc'[p] = IF pc[p] = "close" /\ files = <<>> THEN "user" ELSE pc[p]
  <2>1. CASE ends
    BY <1>1, <2>1 DEF PipesInv, Shapes, ArgShapes, ArgShape
  <2>2. CASE ~ends
    BY <1>1, <2>2, PcChanged DEF GoOn
  <2> QED BY <2>1, <2>2
<1>6. ASSUME NEW g \in File PROVE FileOK(g)'
  <2>1. FileOK(g) /\ file[g].ref \in Nat
    BY DEF HeldInv, HeldTypes, FileRec
  <2>2. CASE g = f
    BY <1>2, <1>3, <1>4, <2>1, <2>2 DEF FileOK, One
  <2>3. CASE g # f
    BY <1>4, <2>1, <2>3 DEF FileOK, One
  <2> QED BY <2>2, <2>3
<1>7. ASSUME last
      PROVE  /\ \A q \in Proc, fd \in Fd : ofile'[q][fd] # f
             /\ \A q \in Proc, k \in 1 .. 2 : ~Has(hand', q, k, f)
  <2>1. file'[f].ref = Cardinality(Descs(ofile', f)) + Cardinality(InHand(hand', f))
    BY <1>6, UsesIs DEF FileOK
  <2>2. file'[f].ref = 0
    BY <1>3, <1>4, <1>7
  <2> QED BY <2>1, <2>2, Referred
<1>8. ASSUME NEW q \in Proc, NEW fd \in Fd, ofile'[q][fd] # Null
      PROVE  LET g == ofile'[q][fd]
             IN  g = ofile[q][fd] /\ file'[g].type = "pipe" /\ file'[g].pipe = file[g].pipe
  <2>1. ofile'[q][fd] = ofile[q][fd] /\ ofile'[q][fd] \in File
    BY <1>8 DEF Table
  <2>2. file[ofile[q][fd]].type = "pipe"
    BY <1>8, <2>1 DEF HeldInv, HoldOK
  <2> QED BY <1>3, <1>4, <1>7, <2>1, <2>2
<1>9. ASSUME NEW i \in Pipe, NEW w \in BOOLEAN PROVE EndOK(i, w)'
  <2>1. EndOK(i, w) /\ ~Closing(p, i, w)
    BY <1>1, NoArgIs, Ranges DEF HeldInv, Closing
  <2>2. \A q \in Proc : q # p => (Closing(q, i, w)' <=> Closing(q, i, w))
    BY <1>5 DEF Closing
  <2>3. \A g \in File : g # f => (IsEnd(g, i, w)' <=> IsEnd(g, i, w))
    BY <1>4 DEF IsEnd
  <2>4. CASE ends
    <3>1. ~IsEnd(f, i, w)'
      BY <1>3, <1>4, <2>4 DEF IsEnd
    <3>2. Closing(p, i, w)' <=> IsEnd(f, i, w)
      BY <1>5, <2>4 DEF Closing, IsEnd
    <3>3. Refers(i, w)' <=> Refers(i, w)
      BY <2>1, <2>2, <2>3, <3>1, <3>2, RefersIs
    <3>4. Open(pipe[i], w)' <=> Open(pipe[i], w)
      BY <1>1 DEF Open
    <3>5. \A g, h \in File : IsEnd(g, i, w)' /\ IsEnd(h, i, w)' => g = h
      BY <2>1, <2>3, <3>1 DEF EndOK
    <3>6. \A g, h \in Proc : Closing(g, i, w)' /\ Closing(h, i, w)' => g = h
      BY <2>1, <2>2, <3>2 DEF EndOK
    <3>7. \A g \in File, h \in Proc : ~(IsEnd(g, i, w)' /\ Closing(h, i, w)')
      BY <2>1, <2>2, <2>3, <3>1, <3>2 DEF EndOK
    <3> QED BY <2>1, <3>3, <3>4, <3>5, <3>6, <3>7 DEF EndOK
  <2>5. CASE ~ends
    <3>1. IsEnd(f, i, w)' <=> IsEnd(f, i, w)
      BY <1>2, <1>3, <1>4, <2>5 DEF IsEnd, FileRec
    <3>2. ~Closing(p, i, w)'
      BY <1>5, <2>5, NoArgIs, Ranges DEF Closing
    <3> QED BY <1>1, <2>1, <2>2, <2>3, <3>1, <3>2, EndsKept
  <2> QED BY <2>4, <2>5
<1>10. ASSUME NEW q \in Proc, q # p PROVE HoldOK(q)'
  <2>1. HoldOK(q) /\ ofile'[q] = ofile[q] /\ hand'[q] = hand[q]
    BY <1>10 DEF HeldInv
  <2>2. \A fd \in Fd : LET g == ofile[q][fd]
                       IN  g # Null => file'[g].type = "pipe" /\ file'[g].pipe = file[g].pipe
    BY <1>8, <2>1
  <2>3. ASSUME pc[q] = "pipe", NEW k \in 1 .. Len(hand[q])
        PROVE  file'[hand[q][k]].ref = 1 /\ file'[hand[q][k]].type = "none"
    <3>1. /\ hand[q][k] \in File /\ k \in 1 .. 2 /\ Has(hand, q, k, hand[q][k])
          /\ file[hand[q][k]].ref = 1 /\ file[hand[q][k]].type = "none"
      BY <2>1, <2>3, HandIs DEF HoldOK
    <3>2. Has(hand', q, k, hand[q][k])
      BY <2>1, <3>1 DEF Has
    <3>3. hand[q][k] # f
      BY <1>7, <3>1, <3>2
    <3> QED BY <1>4, <3>1, <3>3
  <2> QED BY <1>1, <1>5, <1>10, <2>1, <2>2, <2>3, HoldKept
<1>11. HoldOK(p)'
  <2>1. \A fd \in Fd : ofile'[p][fd] # Null => file'[ofile'[p][fd]].type = "pipe"
    BY <1>8
  <2>2. /\ pc'[p] \in {pc[p], "user"}
        /\ pc'[p] = "user" => arg'[p] = NoArg /\ files = <<>>
    <3>1. CASE ends
      BY <1>5, <3>1
    <3>2. CASE ~ends
      BY <1>5, <3>2
    <3> QED BY <3>1, <3>2
  <2> QED BY <1>1, <2>1, <2>2 DEF HoldOK
<1>12. HeldTypes'
  <2>1. arg'[p].pipe \in Pipe \cup {Null} /\ arg'[p].writable \in BOOLEAN
    BY <1>2, <1>5, NoArgIs DEF FileRec
  <2>2. \A q \in Proc : Len(hand'[q]) <= 2
    BY DEF HeldInv, HeldTypes
  <2> QED BY <1>4, <1>5, <2>1, <2>2 DEF HeldInv, HeldTypes
<1> QED BY <1>6, <1>9, <1>10, <1>11, <1>12 DEF HeldInv

LEMMA CloseFileHeld == ASSUME PipesInv, HeldInv, NEW p \in Proc, CloseFile(p) PROVE HeldInv'
<1> PICK f, files : f = Head(hand[p]) /\ files = Tail(hand[p])
  OBVIOUS
<1>1. /\ pc[p] = "close" /\ state[p] = "RUNNABLE" /\ hand[p] # <<>> /\ Fileclose(p, f, files)
      /\ hand' = [hand EXCEPT ![p] = files] /\ ofile' = ofile
  BY DEF CloseFile, At, Awake
<1>2. /\ hand \in [Proc -> Seq(File)] /\ hand[p] \in Seq(File)
      /\ Len(hand[p]) <= 2 /\ ofile \in Table
  BY DEF HeldInv, HeldTypes
<1>3. /\ Len(hand[p]) \in 1 .. 2 /\ f = hand[p][1] /\ f \in File /\ files \in Seq(File)
      /\ Len(files) = Len(hand[p]) - 1
      /\ \A k \in 1 .. Len(files) : files[k] = hand[p][k + 1]
  <2>1. Len(hand[p]) \in Nat /\ Len(hand[p]) # 0
    BY <1>1, <1>2, EmptySeq
  <2>2. f = hand[p][1] /\ f \in File
    BY <1>2, <2>1
  <2>3. /\ files \in Seq(File) /\ Len(files) = Len(hand[p]) - 1
        /\ \A k \in 1 .. Len(files) : files[k] = hand[p][k + 1]
    BY <1>1, <1>2, HeadTailProperties
  <2> QED BY <1>2, <2>1, <2>2, <2>3
<1>4. /\ hand' \in [Proc -> Seq(File)] /\ hand'[p] = files
      /\ \A q \in Proc : q # p => hand'[q] = hand[q]
  BY <1>1, <1>2, <1>3
<1>5. file[f].ref \in Nat \ {0}
  <2>1. Has(hand, p, 1, f) /\ 1 \in 1 .. 2
    BY <1>3 DEF Has
  <2>2. file[f].ref = Cardinality(Descs(ofile, f)) + Cardinality(InHand(hand, f))
    BY <1>3, FileRefs DEF HeldInv
  <2> QED BY <2>1, <2>2, Referred
<1>6. ASSUME NEW g \in File PROVE Uses(g)' = Uses(g) - One(g = f)
  <2>1. Cardinality(InHand(hand', g)) = Cardinality(InHand(hand, g))
               + One(Has(hand', p, 1, g)) - One(Has(hand, p, 1, g))
               + One(Has(hand', p, 2, g)) - One(Has(hand, p, 2, g))
    BY <1>4, HandPut
  <2>2. /\ Has(hand, p, 1, g) <=> g = f
        /\ Has(hand', p, 1, g) <=> Has(hand, p, 2, g)
        /\ ~Has(hand', p, 2, g)
    <3>1. CASE Len(hand[p]) = 1
      BY <1>3, <1>4, <3>1 DEF Has
    <3>2. CASE Len(hand[p]) = 2
      BY <1>3, <1>4, <3>2 DEF Has
    <3> QED BY <1>3, <3>1, <3>2
  <2>3. Cardinality(InHand(hand', g)) = Cardinality(InHand(hand, g)) - One(g = f)
    BY <2>1, <2>2, RefsFinite DEF One
  <2>4. Cardinality(Descs(ofile', g)) = Cardinality(Descs(ofile, g))
    BY <1>1
  <2>5. One(g = f) \in Nat
    BY DEF One
  <2> QED BY <2>3, <2>4, <2>5, UsesIs, RefsFinite
<1>7. ofile' \in Table /\ Len(hand'[p]) <= 2 /\ pc[p] \in {"close", "exit"} /\ pc[p] # "exit"
  BY <1>1, <1>2, <1>3, <1>4
<1> QED BY <1>1, <1>3, <1>4, <1>5, <1>6, <1>7, FilecloseHeld

LEMMA ExitFileHeld == ASSUME PipesInv, HeldInv, NEW p \in Proc, ExitFile(p) PROVE HeldInv'
<1> PICK fd : fd = Min(Fd \ FreeFds(p))
  OBVIOUS
<1>1. fd \in Fd /\ ofile[p][fd] # Null
  <2>1. Fd \ FreeFds(p) \in SUBSET Nat /\ Fd \ FreeFds(p) # {}
    BY Ranges DEF ExitFile, FreeFds
  <2>2. fd \in Fd \ FreeFds(p)
    BY <2>1, LeastOf
  <2> QED BY <2>2 DEF FreeFds
<1> PICK f : f = ofile[p][fd]
  OBVIOUS
<1>2. /\ pc[p] = "exit" /\ state[p] = "RUNNABLE" /\ Fileclose(p, f, <<>>)
      /\ ofile' = Put(ofile, p, fd, Null) /\ hand' = hand
  BY DEF ExitFile, At, Awake, Put
<1>3. /\ ofile \in Table /\ f \in File /\ Null \in File \cup {Null}
      /\ hand \in [Proc -> Seq(File)] /\ hand[p] = <<>>
  BY <1>1, <1>2 DEF HeldInv, HeldTypes, Table, HoldOK
<1>4. /\ ofile' \in Table /\ ofile'[p][fd] = Null
      /\ \A b \in Fd : b # fd => ofile'[p][b] = ofile[p][b]
      /\ \A q \in Proc : q # p => ofile'[q] = ofile[q]
  <2>1. fd \in Fd /\ ofile \in Table /\ ofile' = Put(ofile, p, fd, Null) /\ Null \in File \cup {Null}
    BY <1>1, <1>2, <1>3
  <2> QED BY <2>1 DEF Table, Put
<1>5. file[f].ref \in Nat \ {0}
  <2>1. file[f].ref = Cardinality(Descs(ofile, f)) + Cardinality(InHand(hand, f))
    BY <1>3, FileRefs DEF HeldInv
  <2> QED BY <1>1, <2>1, Referred
<1>6. ASSUME NEW g \in File PROVE Uses(g)' = Uses(g) - One(g = f)
  <2>1. Cardinality(Descs(ofile', g)) = Cardinality(Descs(ofile, g)) + One(Null = g) - One(f = g)
    BY <1>1, <1>2, <1>3, DescsCount
  <2>2. Cardinality(InHand(hand', g)) = Cardinality(InHand(hand, g))
    BY <1>2
  <2>3. One(Null = g) = 0 /\ One(f = g) = One(g = f) /\ One(g = f) \in Nat
    BY Ranges DEF One
  <2> QED BY <2>1, <2>2, <2>3, UsesIs, RefsFinite
<1>7. /\ hand' \in [Proc -> Seq(File)] /\ hand'[p] = <<>> /\ Len(hand'[p]) <= 2
      /\ \A q \in Proc : q # p => hand'[q] = hand[q]
      /\ \A b \in Fd : ofile'[p][b] \in {ofile[p][b], Null}
  <2>1. /\ hand' \in [Proc -> Seq(File)] /\ hand'[p] = <<>>
        /\ \A q \in Proc : q # p => hand'[q] = hand[q]
    BY <1>2, <1>3
  <2>2. Len(<<>>) <= 2
    OBVIOUS
  <2>3. Len(hand'[p]) <= 2
    BY <2>1, <2>2
  <2>4. \A b \in Fd : ofile'[p][b] \in {ofile[p][b], Null}
    BY <1>4
  <2> QED BY <2>1, <2>3, <2>4
<1>8. pc[p] \in {"close", "exit"} /\ (pc[p] = "exit" => hand'[p] = <<>>)
  BY <1>2, <1>7
<1>9. /\ f \in File /\ ofile' \in Table /\ \A q \in Proc : q # p => ofile'[q] = ofile[q] /\ hand'[q] = hand[q]
  BY <1>3, <1>4, <1>7
<1> PICK files : files = <<>>
  OBVIOUS
<1>10. Fileclose(p, f, files) /\ hand'[p] = files
  BY <1>2, <1>7
<1> QED BY <1>2, <1>5, <1>6, <1>7, <1>8, <1>9, <1>10, FilecloseHeld

-----------------------------------------------------------------------------
(* pipe() *)

LEMMA PipeMadeHeld == ASSUME PipesInv, HeldInv, NEW p \in Proc, PipeMade(p) PROVE HeldInv'
<1> PICK r, w : r = hand[p][1] /\ w = hand[p][2]
  OBVIOUS
<1> PICK fd0, fd1 : fd0 = Min(FreeFds(p)) /\ fd1 = Min(FreeFds(p) \ {fd0})
  OBVIOUS
<1>1. /\ pc[p] = "pipe" /\ state[p] = "RUNNABLE" /\ Len(hand[p]) = 2
      /\ UNCHANGED <<state, arg>>
      /\ \/ /\ Cardinality(FreeFds(p)) >= 2
            /\ ofile' = [ofile EXCEPT ![p] = [@ EXCEPT ![fd0] = r, ![fd1] = w]]
            /\ hand' = [hand EXCEPT ![p] = <<>>] /\ Goto(p, "user")
         \/ Goto(p, "close") /\ UNCHANGED <<ofile, hand>>
  BY DEF PipeMade, At, Awake, procVars
<1> DEFINE R(i) == [ref |-> 1, type |-> "pipe", writable |-> FALSE, pipe |-> i]
           W(i) == [ref |-> 1, type |-> "pipe", writable |-> TRUE, pipe |-> i]
<1>2. PICK i \in FreePages : /\ pipe' = [pipe EXCEPT ![i] = FreshPipe]
                             /\ file' = [file EXCEPT ![r] = R(i), ![w] = W(i)]
  BY DEF PipeMade, FreshPipe
<1>3. /\ HoldOK(p) /\ arg[p] = NoArg /\ hand[p] \in Seq(File) /\ hand \in [Proc -> Seq(File)]
      /\ ofile \in Table /\ 1 \in 1 .. Len(hand[p]) /\ 2 \in 1 .. Len(hand[p])
  BY <1>1 DEF HeldInv, HeldTypes, HoldOK
<1>4. /\ r \in File /\ w \in File /\ Has(hand, p, 1, r) /\ Has(hand, p, 2, w)
      /\ file[r].ref = 1 /\ file[r].type = "none" /\ file[w].ref = 1 /\ file[w].type = "none"
  BY <1>1, <1>3, HandIs DEF HoldOK
<1>5. ASSUME NEW q \in Proc, NEW k \in 1 .. 2, NEW g \in {r, w}, Has(hand, q, k, g)
      PROVE  q = p /\ (g = r => k = 1) /\ (g = w => k = 2)
  <2>1. g \in File /\ file[g].ref = 1 /\ 1 \in 1 .. 2 /\ 2 \in 1 .. 2
    BY <1>4
  <2>2. file[g].ref = Cardinality(Descs(ofile, g)) + Cardinality(InHand(hand, g))
    BY <2>1, FileRefs DEF HeldInv
  <2>3. \A q1, q2 \in Proc, j1, j2 \in 1 .. 2 :
          Has(hand, q1, j1, g) /\ Has(hand, q2, j2, g) => q1 = q2 /\ j1 = j2
    BY <2>1, <2>2, Referred
  <2> QED BY <1>4, <1>5, <2>1, <2>3
<1>6. r # w
  BY <1>4, <1>5
<1>7. i \in Pipe /\ ~pipe[i].live
  BY DEF FreePages
<1>8. /\ R(i) \in FileRec /\ W(i) \in FileRec
      /\ file' \in [File -> FileRec] /\ file'[r] = R(i) /\ file'[w] = W(i)
      /\ \A g \in File : g # r /\ g # w => file'[g] = file[g]
  <2>1. R(i) \in FileRec /\ W(i) \in FileRec
    BY <1>7 DEF FileRec
  <2> QED BY <1>2, <1>4, <1>6, <2>1 DEF HeldInv, HeldTypes
<1>9. /\ \A g \in File : file'[g].ref = file[g].ref
      /\ \A g \in File : file[g].type = "pipe" => file'[g] = file[g]
  BY <1>4, <1>8
<1>10. /\ ofile' \in Table /\ hand' \in [Proc -> Seq(File)]
       /\ \A q \in Proc : q # p => ofile'[q] = ofile[q] /\ hand'[q] = hand[q] /\ pc'[q] = pc[q]
       /\ hand'[p] \in {<<>>, hand[p]} /\ pc'[p] \in {"user", "close"}
       /\ pc'[p] = "user" => hand'[p] = <<>>
       /\ \A fd \in Fd : ofile'[p][fd] \in {ofile[p][fd], r, w}
       /\ \A g \in File : Uses(g)' = Uses(g)
  <2>1. CASE Goto(p, "close") /\ UNCHANGED <<ofile, hand>>
    <3>1. \A g \in File : Uses(g)' = Uses(g)
      BY <2>1, UsesIs
    <3> QED BY <1>3, <2>1, <3>1, PcChanged
  <2>2. CASE /\ Cardinality(FreeFds(p)) >= 2
             /\ ofile' = [ofile EXCEPT ![p] = [@ EXCEPT ![fd0] = r, ![fd1] = w]]
             /\ hand' = [hand EXCEPT ![p] = <<>>] /\ Goto(p, "user")
    <3>1. FreeFds(p) \in SUBSET Nat /\ FreeFds(p) \in SUBSET Fd /\ IsFiniteSet(FreeFds(p))
      BY Ranges, FS_Subset DEF FreeFds
    <3>2. fd0 \in FreeFds(p)
      <4>1. FreeFds(p) # {}
        <5>1. Cardinality(FreeFds(p)) # 0
          BY <2>2, <3>1, FS_CardinalityType
        <5> QED BY <5>1, FS_EmptySet
      <4> QED BY <3>1, <4>1, LeastOf
    <3>3. fd1 \in FreeFds(p) \ {fd0}
      <4>1. Cardinality(FreeFds(p) \ {fd0}) = Cardinality(FreeFds(p)) - 1
        BY <3>1, <3>2, FS_RemoveElement
      <4>2. Cardinality(FreeFds(p)) \in Nat
        BY <3>1, FS_CardinalityType
      <4>3. Cardinality(FreeFds(p) \ {fd0}) # 0
        BY <2>2, <4>1, <4>2
      <4>4. FreeFds(p) \ {fd0} # {}
        BY <4>3, FS_EmptySet
      <4> QED BY <3>1, <4>4, LeastOf
    <3>4. /\ fd0 \in Fd /\ fd1 \in Fd /\ fd0 # fd1
          /\ ofile[p][fd0] = Null /\ ofile[p][fd1] = Null
      BY <3>1, <3>2, <3>3 DEF FreeFds
    <3> DEFINE o == Put(ofile, p, fd0, r)
    <3>5. ofile' = Put(o, p, fd1, w)
      BY <1>3, <2>2, <3>4 DEF Put, Table
    <3>6. /\ o \in Table /\ o[p][fd0] = r /\ o[p][fd1] = Null
          /\ \A b \in Fd : b # fd0 => o[p][b] = ofile[p][b]
          /\ \A q \in Proc : q # p => o[q] = ofile[q]
      BY <1>3, <1>4, <3>4, DescsPut
    <3>7. \A g \in File : Cardinality(Descs(o, g))
                            = Cardinality(Descs(ofile, g)) + One(r = g) - One(Null = g)
      BY <1>3, <1>4, <3>4, DescsCount
    <3> HIDE DEF o
    <3>8. /\ ofile' \in Table /\ ofile'[p][fd1] = w
          /\ \A b \in Fd : b # fd1 => ofile'[p][b] = o[p][b]
          /\ \A q \in Proc : q # p => ofile'[q] = o[q]
      <4>1. w \in File \cup {Null}
        BY <1>4
      <4>2. fd1 \in Fd /\ o \in Table /\ ofile' = Put(o, p, fd1, w)
        BY <3>4, <3>5, <3>6
      <4> QED BY <3>6, <4>1, <4>2 DEF Table, Put
    <3>9. \A g \in File : Cardinality(Descs(ofile', g))
                            = Cardinality(Descs(o, g)) + One(w = g) - One(Null = g)
      BY <1>4, <3>4, <3>5, <3>6, DescsCount
    <3>10. /\ hand' \in [Proc -> Seq(File)] /\ hand'[p] = <<>>
           /\ \A q \in Proc : q # p => hand'[q] = hand[q]
      BY <1>3, <2>2
    <3>11. ASSUME NEW g \in File PROVE Uses(g)' = Uses(g)
      <4>1. Cardinality(InHand(hand', g)) = Cardinality(InHand(hand, g))
               + One(Has(hand', p, 1, g)) - One(Has(hand, p, 1, g))
               + One(Has(hand', p, 2, g)) - One(Has(hand, p, 2, g))
        BY <3>10, HandPut
      <4>2. /\ Has(hand, p, 1, g) <=> r = g
            /\ Has(hand, p, 2, g) <=> w = g
            /\ ~Has(hand', p, 1, g) /\ ~Has(hand', p, 2, g)
        BY <1>4, <3>10 DEF Has
      <4>3. Null # g
        BY Ranges
      <4> QED BY <3>7, <3>9, <4>1, <4>2, <4>3, UsesIs, RefsFinite DEF One
    <3>12. \A fd \in Fd : ofile'[p][fd] \in {ofile[p][fd], r, w}
      BY <3>6, <3>8
    <3>13. pc'[p] = "user" /\ \A q \in Proc : q # p => pc'[q] = pc[q]
      BY <2>2, PcChanged
    <3>14. \A q \in Proc : q # p => ofile'[q] = ofile[q]
      BY <3>6, <3>8
    <3> QED BY <3>8, <3>10, <3>11, <3>12, <3>13, <3>14
  <2> QED BY <1>1, <2>1, <2>2
<1>11. HeldTypes'
  <2>1. Len(<<>>) = 0
    OBVIOUS
  <2>2. \A q \in Proc : Len(hand'[q]) <= 2
    BY <1>1, <1>10, <2>1 DEF HeldInv, HeldTypes
  <2> QED BY <1>1, <1>8, <1>10, <2>2 DEF HeldInv, HeldTypes
<1>12. ASSUME NEW g \in File PROVE FileOK(g)'
  <2>1. FileOK(g) /\ file'[g].ref = file[g].ref /\ Uses(g)' = Uses(g)
    BY <1>9, <1>10 DEF HeldInv
  <2>2. CASE g \in {r, w}
    BY <1>4, <1>7, <1>8, <2>1, <2>2 DEF FileOK
  <2>3. CASE g \notin {r, w}
    BY <1>8, <2>1, <2>3 DEF FileOK
  <2> QED BY <2>2, <2>3
<1>13. ASSUME NEW j \in Pipe, NEW v \in BOOLEAN PROVE EndOK(j, v)'
  <2>1. EndOK(j, v) /\ \A q \in Proc : Closing(q, j, v)' <=> Closing(q, j, v)
    BY <1>1, <1>3, <1>10, NoArgIs, Ranges DEF HeldInv, Closing
  <2>2. \A g \in File : g # r /\ g # w => (IsEnd(g, j, v)' <=> IsEnd(g, j, v))
    BY <1>8 DEF IsEnd
  <2>3. /\ ~IsEnd(r, j, v) /\ ~IsEnd(w, j, v)
        /\ IsEnd(r, j, v)' <=> j = i /\ ~v
        /\ IsEnd(w, j, v)' <=> j = i /\ v
    <3>1. ~IsEnd(r, j, v) /\ ~IsEnd(w, j, v)
      BY <1>4 DEF IsEnd
    <3>2. /\ file'[r].type = "pipe" /\ file'[r].pipe = i /\ file'[r].writable = FALSE
          /\ file'[w].type = "pipe" /\ file'[w].pipe = i /\ file'[w].writable = TRUE
      BY <1>8
    <3>3. IsEnd(r, j, v)' <=> j = i /\ ~v
      BY <3>2, Zenon DEF IsEnd
    <3>4. IsEnd(w, j, v)' <=> j = i /\ v
      BY <3>2, Zenon DEF IsEnd
    <3> QED BY <3>1, <3>3, <3>4
  <2>4. pipe'[j] = IF j = i THEN FreshPipe ELSE pipe[j]
    BY <1>2, RingChanged
  <2>5. CASE j = i
    <3>1. ~Open(pipe[i], v)
      BY <1>7 DEF PipesInv, RingOK, Open
    <3>2. ~Refers(i, v)
      BY <2>1, <2>5, <3>1 DEF EndOK
    <3>3. /\ \A g \in File : ~IsEnd(g, j, v)
          /\ \A q \in Proc : ~Closing(q, j, v)
      BY <2>5, <3>2, RefersIs
    <3>4. \A g \in File : IsEnd(g, j, v)' <=> g = IF v THEN w ELSE r
      BY <1>6, <2>2, <2>3, <2>5, <3>3
    <3>5. Refers(j, v)'
      BY <1>4, <3>4, RefersIs
    <3>6. Open(pipe'[j], v)
      BY <2>4, <2>5, NewRings DEF Open
    <3> QED BY <2>1, <3>3, <3>4, <3>5, <3>6 DEF EndOK
  <2>6. CASE j # i
    BY <2>1, <2>2, <2>3, <2>4, <2>6, EndsKept
  <2> QED BY <2>5, <2>6
<1>14. ASSUME NEW q \in Proc, q # p PROVE HoldOK(q)'
  <2>1. /\ HoldOK(q) /\ pc'[q] = pc[q] /\ hand'[q] = hand[q] /\ ofile'[q] = ofile[q]
        /\ arg'[q] = arg[q] /\ state'[q] = state[q]
    BY <1>1, <1>10, <1>14 DEF HeldInv
  <2>2. \A fd \in Fd : LET g == ofile[q][fd]
                       IN  g # Null => file'[g].type = "pipe" /\ file'[g].pipe = file[g].pipe
    BY <1>9, <2>1 DEF HoldOK, HeldInv, HeldTypes, Table
  <2>3. ASSUME pc[q] = "pipe", NEW k \in 1 .. Len(hand[q])
        PROVE  file'[hand[q][k]].ref = 1 /\ file'[hand[q][k]].type = "none"
    <3>1. /\ hand[q][k] \in File /\ k \in 1 .. 2 /\ Has(hand, q, k, hand[q][k])
          /\ file[hand[q][k]].ref = 1 /\ file[hand[q][k]].type = "none"
      BY <2>1, <2>3, HandIs DEF HoldOK
    <3>2. hand[q][k] \notin {r, w}
      BY <1>5, <1>14, <3>1
    <3> QED BY <1>8, <3>1, <3>2
  <2> QED BY <2>1, <2>2, <2>3, HoldKept
<1>15. HoldOK(p)'
  <2>1. \A fd \in Fd : ofile'[p][fd] # Null => file'[ofile'[p][fd]].type = "pipe"
    <3>1. TAKE fd \in Fd
    <3>2. CASE ofile'[p][fd] \in {r, w}
      BY <1>8, <3>2
    <3>3. CASE ofile'[p][fd] = ofile[p][fd]
      BY <1>3, <1>9, <3>3 DEF HoldOK, HeldInv, HeldTypes, Table
    <3> QED BY <1>10, <3>2, <3>3
  <2>2. state'[p] = "RUNNABLE" /\ arg'[p] = NoArg
    BY <1>1, <1>3
  <2> QED BY <1>10, <2>1, <2>2 DEF HoldOK
<1> QED BY <1>11, <1>12, <1>13, <1>14, <1>15 DEF HeldInv

-----------------------------------------------------------------------------
(* The references of files and pipes, in every reachable state. *)

LEMMA HeldStart == Init => HeldInv
<1> SUFFICES ASSUME Init PROVE HeldInv
  OBVIOUS
<1>1. /\ file = [f \in File |-> NoFile] /\ pipe = [i \in Pipe |-> NoPipe]
      /\ ofile = [p \in Proc |-> [fd \in Fd |-> Null]]
      /\ \A p \in Proc : arg[p] = NoArg /\ hand[p] = <<>> /\ pc[p] = "user"
      /\ hand = [p \in Proc |-> <<>>]
  BY DEF Init
<1>2. \A p \in Proc, fd \in Fd : ofile[p][fd] = Null
  BY <1>1
<1>3. /\ NoFile \in FileRec /\ NoFile.ref = 0 /\ NoFile.type = "none"
  BY DEF NoFile, FileRec
<1>4. Len(<<>>) = 0 /\ <<>> \in Seq(File)
  OBVIOUS
<1>5. HeldTypes
  <2>1. file \in [File -> FileRec] /\ ofile \in Table /\ hand \in [Proc -> Seq(File)]
    BY <1>1, <1>3, <1>4 DEF Table
  <2>2. \A p \in Proc : Len(hand[p]) <= 2
    BY <1>1, <1>4
  <2>3. \A p \in Proc : arg[p].pipe \in Pipe \cup {Null} /\ arg[p].writable \in BOOLEAN
    BY <1>1, NoArgIs
  <2> QED BY <2>1, <2>2, <2>3 DEF HeldTypes
<1>6. ASSUME NEW f \in File PROVE FileOK(f)
  <2>1. Descs(ofile, f) = {}
    BY <1>2, Ranges DEF Descs
  <2>2. InHand(hand, f) = {}
    BY <1>1, <1>4 DEF InHand, Has
  <2>3. Uses(f) = 0
    BY <2>1, <2>2, UsesIs, FS_EmptySet
  <2> QED BY <1>1, <1>3, <2>3 DEF FileOK
<1>7. ASSUME NEW i \in Pipe, NEW w \in BOOLEAN PROVE EndOK(i, w)
  <2>1. pipe[i].readopen = FALSE /\ pipe[i].writeopen = FALSE
    BY <1>1 DEF NoPipe
  <2>2. \A f \in File : ~IsEnd(f, i, w)
    BY <1>1, <1>3 DEF IsEnd
  <2>3. \A p \in Proc : ~Closing(p, i, w)
    BY <1>1 DEF Closing
  <2> QED BY <2>1, <2>2, <2>3, RefersIs DEF EndOK, Open
<1>8. ASSUME NEW p \in Proc PROVE HoldOK(p)
  <2>1. FreeFds(p) = Fd
    BY <1>2 DEF FreeFds
  <2> QED BY <1>1, <1>2, <2>1 DEF HoldOK
<1> QED BY <1>5, <1>6, <1>7, <1>8 DEF HeldInv

LEMMA HeldStill == ASSUME PipesInv, HeldInv, UNCHANGED vars PROVE HeldInv'
<1>1. UNCHANGED <<state, file, ofile, hand, pc, arg, pipe>>
  BY DEF vars, procVars, local
<1>2. HeldTypes'
  BY <1>1 DEF HeldInv, HeldTypes
<1>3. ASSUME NEW f \in File PROVE FileOK(f)'
  BY <1>1, UsesIs DEF HeldInv, FileOK
<1>4. ASSUME NEW i \in Pipe, NEW w \in BOOLEAN PROVE EndOK(i, w)'
  BY <1>1, EndsKept DEF HeldInv, IsEnd, Closing
<1>5. ASSUME NEW p \in Proc PROVE HoldOK(p)'
  BY <1>1, HoldKept DEF HeldInv, HoldOK
<1> QED BY <1>2, <1>3, <1>4, <1>5 DEF HeldInv

LEMMA StepKeepsHeld == PipesInv /\ HeldInv /\ [Next]_vars => HeldInv'
<1> SUFFICES ASSUME PipesInv, HeldInv, [Next]_vars PROVE HeldInv'
  OBVIOUS
<1>1. ASSUME NEW p \in Proc, Step(p) \/ Kill(p) PROVE HeldInv'
  BY <1>1, FileallocHeld, PipeFailsHeld, PipeMadeHeld, DupHeld, ForkHeld, CloseHeld, ExitHeld,
     CloseFileHeld, ExitFileHeld, PipeCloseHeld, StateHeld, CallHeld, ReadWaitsHeld, ReadBytesHeld,
     TakenHeld, WriteBytesHeld, FallAsleepHeld DEF Step
<1> QED BY <1>1, HeldStill DEF Next

(* The inductive invariant of the references holds in every reachable state. *)
THEOREM HeldInvariant == Spec => []HeldInv
<1>1. Init => PipesInv /\ HeldInv
  BY Start, HeldStart
<1>2. PipesInv /\ HeldInv /\ [Next]_vars => (PipesInv /\ HeldInv)'
  BY StepKeepsInv, StepKeepsHeld
<1> QED BY <1>1, <1>2, PTL DEF Spec

\* At most one file stands for an end of a pipe.
LEMMA OneEnd ==
    ASSUME NEW i \in Pipe, NEW w \in BOOLEAN, EndOK(i, w)
    PROVE  Cardinality({f \in File : file[f].type = "pipe" /\ file[f].pipe = i
                                     /\ file[f].writable = w}) <= 1
<1> DEFINE S == {f \in File : IsEnd(f, i, w)}
<1>1. \A f, g \in S : f = g
  BY DEF EndOK
<1>2. Cardinality(S) <= 1
  <2>1. CASE S = {}
    BY <2>1, FS_EmptySet
  <2>2. CASE S # {}
    <3>1. PICK x : x \in S
      BY <2>2
    <3>2. S = {x}
      BY <1>1, <3>1
    <3> HIDE DEF S
    <3>3. Cardinality(S) = 1
      BY <3>2, FS_Singleton
    <3> QED BY <3>3
  <2> QED BY <2>1, <2>2
<1> QED BY <1>2 DEF IsEnd

\* Whoever is inside a call that uses a pipe finds it in its page.
LEMMA InUseLives ==
    ASSUME PipesInv, HeldInv, NEW p \in Proc, pc[p] # "user", arg[p].pipe # Null
    PROVE  pipe[arg[p].pipe].live
<1> PICK i : i = arg[p].pipe
  OBVIOUS
<1>1. i \in Pipe /\ HoldOK(p)
  BY DEF HeldInv, HeldTypes
<1>2. \A w \in BOOLEAN : Refers(i, w) => pipe[i].live
  <2>1. TAKE w \in BOOLEAN
  <2>2. EndOK(i, w) /\ pipe[i].live = (pipe[i].readopen \/ pipe[i].writeopen)
        /\ PipeShape(pipe[i])
    BY <1>1 DEF HeldInv, PipesInv, RingOK, Shapes, PipeShapes
  <2>3. Open(pipe[i], w) => pipe[i].live
    BY <2>2 DEF Open, PipeShape
  <2> QED BY <2>2, <2>3 DEF EndOK
<1>3. CASE pc[p] \in {"close", "exit"}
  <2>1. arg[p].writable \in BOOLEAN
    BY DEF HeldInv, HeldTypes
  <2>2. Refers(i, arg[p].writable)
    BY <1>3 DEF Refers
  <2> QED BY <1>2, <2>1, <2>2
<1>4. CASE pc[p] \in {"read", "write", "sleep"}
  <2>1. PICK fd \in Fd : ofile[p][fd] # Null /\ file[ofile[p][fd]].pipe = i
    BY <1>1, <1>4 DEF HoldOK, Uses1
  <2>2. PICK f : f = ofile[p][fd]
    OBVIOUS
  <2>3. f \in File /\ file[f].type = "pipe" /\ file[f].pipe = i /\ file[f].writable \in BOOLEAN
    BY <1>1, <2>1, <2>2 DEF HoldOK, HeldInv, HeldTypes, Table, FileRec
  <2>4. Refers(i, file[f].writable)
    BY <2>3 DEF Refers
  <2> QED BY <1>2, <2>3, <2>4
<1>5. pc[p] \in {"close", "exit", "read", "write", "sleep"}
  <2>1. pc[p] \in PcLabel
    BY DEF PipesInv, Shapes, ProcShapes
  <2>2. pc[p] # "pipe"
    BY <1>1, NoArgIs DEF HoldOK
  <2> QED BY <2>1, <2>2 DEF PcLabel
<1> QED BY <1>3, <1>4, <1>5

(* What is open is referred to and what is referred to is there, for any     *)
(* number of processes, descriptors, files and pages: the count of a file    *)
(* (filedup, fork, fileclose) is that of its descriptors and of the calls    *)
(* that have it in hand, an end of a pipe is open as long as one file, or    *)
(* one pipeclose() to come, stands for it, and no process works on a pipe    *)
(* whose page pipeclose() has given back.                                    *)
THEOREM Held == Spec => []PipeHeld
<1>1. PipesInv /\ HeldInv => PipeHeld
  <2> SUFFICES ASSUME PipesInv, HeldInv PROVE PipeHeld
    OBVIOUS
  <2>1. \A f \in File : file[f].ref = Uses(f)
    BY DEF HeldInv, FileOK
  <2>2. ASSUME NEW i \in Pipe
        PROVE  /\ pipe[i].readopen = Refers(i, FALSE)
               /\ pipe[i].writeopen = Refers(i, TRUE)
               /\ pipe[i].live = (pipe[i].readopen \/ pipe[i].writeopen)
    <3>1. /\ pipe[i].readopen \in BOOLEAN /\ pipe[i].writeopen \in BOOLEAN
          /\ pipe[i].live = (pipe[i].readopen \/ pipe[i].writeopen)
      BY DEF PipesInv, RingOK, Shapes, PipeShapes, PipeShape
    <3>2. Open(pipe[i], TRUE) <=> Refers(i, TRUE)
      BY DEF HeldInv, EndOK
    <3>3. Open(pipe[i], FALSE) <=> Refers(i, FALSE)
      BY DEF HeldInv, EndOK
    <3>4. Refers(i, TRUE) \in BOOLEAN /\ Refers(i, FALSE) \in BOOLEAN
      BY DEF Refers
    <3>5. pipe[i].writeopen <=> Refers(i, TRUE)
      BY <3>2 DEF Open
    <3>6. pipe[i].readopen <=> Refers(i, FALSE)
      BY <3>3 DEF Open
    <3> QED BY <3>1, <3>4, <3>5, <3>6
  <2>3. \A i \in Pipe, w \in BOOLEAN :
          Cardinality({f \in File : file[f].type = "pipe" /\ file[f].pipe = i
                                    /\ file[f].writable = w}) <= 1
    BY OneEnd DEF HeldInv
  <2>4. \A p \in Proc : pc[p] # "user" /\ arg[p].pipe # Null => pipe[arg[p].pipe].live
    BY InUseLives
  <2> QED BY <2>1, <2>2, <2>3, <2>4 DEF PipeHeld
<1> QED BY <1>1, PipesInvariant, HeldInvariant, PTL
=============================================================================
