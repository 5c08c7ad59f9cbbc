------------------------------- MODULE Pipes -------------------------------
(***************************************************************************)
(* Pipes and the file table they are reached through (pipe.c, file.c, the  *)
(* descriptors of sysfile.c; the same in all four projects), with the fork,*)
(* exit, kill, sleep and wakeup of proc.c they depend on.                  *)
(*                                                                         *)
(* An action is one critical section of ftable.lock or of the lock of a    *)
(* pipe, but for a process that is about to sleep: kill() takes neither    *)
(* lock, so it may come after the test of p->killed and before sleep().    *)
(* A process that was woken goes round its loop once more.                 *)
(*                                                                         *)
(* A definition marked "Slip" is no part of the specification: it is a     *)
(* plausible mistake in the definition below it, kept to show that the     *)
(* properties would see it.                                                *)
(***************************************************************************)
EXTENDS Integers, Sequences, FiniteSets, FiniteSetsExt

CONSTANTS
    Proc, initproc,
    NFILE, NOFILE,
    NPIPE,         \* pages kalloc() has for pipes
    PIPESIZE,
    UINT,          \* nread and nwrite count modulo UINT, a multiple of PIPESIZE
    Message,       \* what programs write
    ReadSize,      \* how much they read at once
    Blank,         \* a byte of the ring that is not in use, whatever it is
    NoResult, Failed

ASSUME PipesAssumption ==
    /\ initproc \in Proc /\ Proc \subseteq Nat /\ IsFiniteSet(Proc)
    /\ NFILE \in Nat \ {0} /\ NOFILE \in Nat \ {0} /\ NPIPE \in Nat
    /\ PIPESIZE \in Nat \ {0}
    /\ UINT \in Nat /\ UINT > PIPESIZE /\ UINT % PIPESIZE = 0
    /\ \A m \in Message : m \in Seq(Nat) /\ m # <<>>
    /\ ReadSize \subseteq Nat \ {0}

File == 1 .. NFILE
Pipe == 1 .. NPIPE
Fd == 0 .. NOFILE - 1
Null == 0

VARIABLES
    state,      \* p->state; RUNNABLE stands for RUNNING too
    chan,       \* p->chan
    killed,     \* p->killed
    ofile,      \* p->ofile
    file,       \* ftable.file
    pipe,       \* the pipe in a page, if there is one
    pc,         \* where in the kernel a process is
    arg,        \* the pipe it works on and what it has still to read or write
    hand,       \* the files pipe() or close() of a process has outside p->ofile
    got         \* what its read() has just returned

procVars == <<state, chan, killed>>
local == <<pc, arg, hand, got>>
vars == <<procVars, ofile, file, pipe, local>>

NoChan == <<"none", Null>>
Nread(i) == <<"nread", i>>       \* &p->nread and &p->nwrite
Nwrite(i) == <<"nwrite", i>>

NoFile == [ref |-> 0, type |-> "none", writable |-> FALSE, pipe |-> Null]
NoPipe == [live |-> FALSE, data |-> [k \in 0 .. PIPESIZE - 1 |-> Blank],
           nread |-> 0, nwrite |-> 0, readopen |-> FALSE, writeopen |-> FALSE,
           cut |-> FALSE]
NoArg == [pipe |-> Null, writable |-> FALSE, bytes |-> <<>>, n |-> 0]

Awake(p) == state[p] = "RUNNABLE"
At(p, l) == Awake(p) /\ pc[p] = l
InUser(p) == At(p, "user") /\ ~killed[p] /\ got[p] = NoResult
Goto(p, l) == pc' = [pc EXCEPT ![p] = l]

-----------------------------------------------------------------------------
(* sleep(), wakeup() and kill(). *)

Sleep(p, c) ==
    /\ state' = [state EXCEPT ![p] = "SLEEPING"]
    /\ chan' = [chan EXCEPT ![p] = c]
    /\ UNCHANGED killed

Wakeup(c) ==
    LET woken == {p \in Proc : state[p] = "SLEEPING" /\ chan[p] = c}
    IN  /\ state' = [p \in Proc |-> IF p \in woken THEN "RUNNABLE" ELSE state[p]]
        /\ chan' = [p \in Proc |-> IF p \in woken THEN NoChan ELSE chan[p]]
        /\ UNCHANGED killed

\* Any process kills p.
Kill(p) ==
    /\ p # initproc /\ state[p] \in {"RUNNABLE", "SLEEPING"} /\ ~killed[p]
    /\ killed' = [killed EXCEPT ![p] = TRUE]
    /\ state' = [state EXCEPT ![p] = "RUNNABLE"]
    /\ chan' = [chan EXCEPT ![p] = NoChan]
    /\ UNCHANGED <<ofile, file, pipe, local>>

-----------------------------------------------------------------------------
(* filealloc() and pipealloc(), the body of pipe(). *)

FreeFiles == {f \in File : file[f].ref = 0}
FreeFds(p) == {fd \in Fd : ofile[p][fd] = Null}
FreePages == {i \in Pipe : ~pipe[i].live}

\* filealloc(): the first free file, its other fields as they were left.
Filealloc(p) ==
    LET f == Min(FreeFiles)
    IN  /\ FreeFiles # {}
        /\ file' = [file EXCEPT ![f].ref = 1]
        /\ hand' = [hand EXCEPT ![p] = Append(@, f)]

PipeFirst(p) ==
    /\ InUser(p) /\ Filealloc(p) /\ Goto(p, "pipe")
    /\ UNCHANGED <<procVars, ofile, pipe, arg, got>>

PipeSecond(p) ==
    /\ At(p, "pipe") /\ Len(hand[p]) = 1
    /\ Filealloc(p)
    /\ UNCHANGED <<procVars, ofile, pipe, pc, arg, got>>

\* A file or a page cannot be had; others use memory too.
PipeFails(p) ==
    /\ At(p, "pipe")
    /\ Len(hand[p]) = 1 => FreeFiles = {}
    /\ Goto(p, "close")
    /\ UNCHANGED <<procVars, ofile, file, pipe, arg, hand, got>>

\* kalloc(), the fields, and two descriptors, or with too few of them none.
PipeMade(p) ==
    LET r == hand[p][1]
        w == hand[p][2]
        fd0 == Min(FreeFds(p))
        fd1 == Min(FreeFds(p) \ {fd0})
    IN  /\ At(p, "pipe") /\ Len(hand[p]) = 2
        /\ \E i \in FreePages :
             /\ pipe' = [pipe EXCEPT ![i] = [NoPipe EXCEPT !.live = TRUE,
                                                !.readopen = TRUE, !.writeopen = TRUE]]
             /\ file' = [file EXCEPT ![r] = [ref |-> 1, type |-> "pipe", writable |-> FALSE, pipe |-> i],
                                     ![w] = [ref |-> 1, type |-> "pipe", writable |-> TRUE, pipe |-> i]]
        /\ \/ /\ Cardinality(FreeFds(p)) >= 2
              /\ ofile' = [ofile EXCEPT ![p] = [@ EXCEPT ![fd0] = r, ![fd1] = w]]
              /\ hand' = [hand EXCEPT ![p] = <<>>]
              /\ Goto(p, "user")
           \/ /\ Cardinality(FreeFds(p)) < 2
              /\ Goto(p, "close")
              /\ UNCHANGED <<ofile, hand>>
        /\ UNCHANGED <<procVars, arg, got>>

-----------------------------------------------------------------------------
(* dup(), fork(), close(), exit() and wait(). *)

Dup(p) ==
    /\ InUser(p) /\ FreeFds(p) # {}
    /\ \E fd \in Fd \ FreeFds(p) :
         /\ ofile' = [ofile EXCEPT ![p][Min(FreeFds(p))] = ofile[p][fd]]
         /\ file' = [file EXCEPT ![ofile[p][fd]].ref = @ + 1]
    /\ UNCHANGED <<procVars, pipe, local>>

\* Slip: one filedup() per file.
SlipDuplicated(p) ==
    [f \in File |-> [file[f] EXCEPT !.ref = IF \E fd \in Fd : ofile[p][fd] = f THEN @ + 1 ELSE @]]

\* fork(): one filedup() per descriptor.
Duplicated(p) ==
    [f \in File |-> [file[f] EXCEPT !.ref = @ + Cardinality({fd \in Fd : ofile[p][fd] = f})]]

Fork(p) ==
    LET unused == {q \in Proc : state[q] = "UNUSED"}
    IN  /\ InUser(p) /\ unused # {}
        /\ state' = [state EXCEPT ![Min(unused)] = "RUNNABLE"]
        /\ ofile' = [ofile EXCEPT ![Min(unused)] = ofile[p]]
        /\ pc' = [pc EXCEPT ![Min(unused)] = "user"]
        /\ file' = Duplicated(p)
        /\ UNCHANGED <<chan, killed, pipe, arg, hand, got>>

Close(p) ==
    /\ InUser(p)
    /\ \E fd \in Fd \ FreeFds(p) :
         /\ ofile' = [ofile EXCEPT ![p][fd] = Null]
         /\ hand' = [hand EXCEPT ![p] = <<ofile[p][fd]>>]
    /\ Goto(p, "close")
    /\ UNCHANGED <<procVars, file, pipe, arg, got>>

\* exit(), called by the program or, once it is killed, by trap().
Exit(p) ==
    /\ At(p, "user") /\ p # initproc
    /\ got[p] = NoResult
    /\ Goto(p, "exit")
    /\ UNCHANGED <<procVars, ofile, file, pipe, arg, hand, got>>

\* What a process does that has these files still to close.
GoOn(p, files) ==
    Goto(p, IF pc[p] = "close" /\ files = <<>> THEN "user" ELSE pc[p])

\* Slip: any close of a descriptor closes the end of the pipe.
SlipFileclose(p, f, files) ==
    /\ arg[p] = NoArg
    /\ file' = [file EXCEPT ![f] = IF @.ref = 1 THEN NoFile ELSE [file[f] EXCEPT !.ref = @ - 1]]
    /\ IF file[f].type = "pipe"
       THEN /\ arg' = [arg EXCEPT ![p].pipe = file[f].pipe, ![p].writable = file[f].writable]
            /\ UNCHANGED pc
       ELSE UNCHANGED arg /\ GoOn(p, files)
    /\ UNCHANGED <<procVars, pipe, got>>

\* fileclose(f): of the last reference, the file is given up first; the fields
\* it keeps say nothing any more.
Fileclose(p, f, files) ==
    LET last == file[f].ref = 1
        ends == last /\ file[f].type = "pipe"
    IN  /\ arg[p] = NoArg
        /\ file' = [file EXCEPT ![f] = IF last THEN NoFile ELSE [file[f] EXCEPT !.ref = @ - 1]]
        /\ arg' = IF ends
                  THEN [arg EXCEPT ![p].pipe = file[f].pipe, ![p].writable = file[f].writable]
                  ELSE arg
        /\ IF ends THEN UNCHANGED pc ELSE GoOn(p, files)
        /\ UNCHANGED <<procVars, pipe, got>>

\* The files of close() and of a pipe() that failed.
CloseFile(p) ==
    /\ At(p, "close") /\ hand[p] # <<>>
    /\ Fileclose(p, Head(hand[p]), Tail(hand[p]))
    /\ hand' = [hand EXCEPT ![p] = Tail(@)]
    /\ UNCHANGED ofile

\* exit() closes its descriptors one by one; nobody else looks at them.
ExitFile(p) ==
    LET fd == Min(Fd \ FreeFds(p))
    IN  /\ At(p, "exit") /\ FreeFds(p) # Fd
        /\ Fileclose(p, ofile[p][fd], <<>>)
        /\ ofile' = [ofile EXCEPT ![p][fd] = Null]
        /\ UNCHANGED hand

\* Somebody is in the pipe's critical section, on the way to sleep().
Locked(i) == \E p \in Proc : At(p, "sleep") /\ arg[p].pipe = i

\* Slip: the ends are mixed up, it wakes those of its own.
SlipPipeClose(p) ==
    LET i == arg[p].pipe
        w == arg[p].writable
        q == [pipe[i] EXCEPT !.readopen = @ /\ w, !.writeopen = @ /\ ~w]
    IN  /\ At(p, "close") \/ At(p, "exit")
        /\ i # Null /\ ~Locked(i)
        /\ Wakeup(IF w THEN Nwrite(i) ELSE Nread(i))
        /\ pipe' = [pipe EXCEPT ![i] = IF q.readopen \/ q.writeopen THEN q ELSE NoPipe]
        /\ arg' = [arg EXCEPT ![p] = NoArg]
        /\ GoOn(p, hand[p])
        /\ UNCHANGED <<ofile, file, hand, got>>

\* pipeclose()
PipeClose(p) ==
    LET i == arg[p].pipe
        w == arg[p].writable
        q == [pipe[i] EXCEPT !.readopen = @ /\ w, !.writeopen = @ /\ ~w]
    IN  /\ At(p, "close") \/ At(p, "exit")
        /\ i # Null /\ ~Locked(i)
        /\ Wakeup(IF w THEN Nread(i) ELSE Nwrite(i))
        /\ pipe' = [pipe EXCEPT ![i] = IF q.readopen \/ q.writeopen THEN q ELSE NoPipe]
        /\ arg' = [arg EXCEPT ![p] = NoArg]
        /\ GoOn(p, hand[p])
        /\ UNCHANGED <<ofile, file, hand, got>>

Zombie(p) ==
    /\ At(p, "exit") /\ FreeFds(p) = Fd /\ arg[p] = NoArg
    /\ state' = [state EXCEPT ![p] = "ZOMBIE"]
    /\ UNCHANGED <<chan, killed, ofile, file, pipe, local>>

\* The parent's wait().
Reap(p) ==
    /\ state[p] = "ZOMBIE"
    /\ state' = [state EXCEPT ![p] = "UNUSED"]
    /\ killed' = [killed EXCEPT ![p] = FALSE]
    /\ UNCHANGED <<chan, ofile, file, pipe, local>>

-----------------------------------------------------------------------------
(* read() and write(): sys_read(), fileread(), piperead() and so on. *)

Call(p, w, l, a) ==
    /\ InUser(p)
    /\ \E fd \in Fd \ FreeFds(p) :
         LET f == file[ofile[p][fd]]
         IN  f.writable = w /\ arg' = [arg EXCEPT ![p] = [a EXCEPT !.pipe = f.pipe]]
    /\ Goto(p, l)
    /\ UNCHANGED <<procVars, ofile, file, pipe, hand, got>>

ReadCall(p) == \E n \in ReadSize : Call(p, FALSE, "read", [NoArg EXCEPT !.n = n])
WriteCall(p) == \E m \in Message : Call(p, TRUE, "write", [NoArg EXCEPT !.bytes = m])

Used(i) == (pipe[i].nwrite - pipe[i].nread) % UINT
Empty(i) == pipe[i].nread = pipe[i].nwrite

\* The next n bytes to come out of a pipe.
Bytes(i, n) == [k \in 1 .. n |-> pipe[i].data[(pipe[i].nread + k - 1) % PIPESIZE]]

\* A pipe after n bytes of it were read.
Drained(q, n) ==
    [q EXCEPT !.nread = (@ + n) % UINT,
              !.data = [k \in 0 .. PIPESIZE - 1 |->
                          IF (k - q.nread) % PIPESIZE < n THEN Blank ELSE q.data[k]]]

\* It gives up because it is killed, or else prepares to sleep.
ReadWaits(p) ==
    LET i == arg[p].pipe
    IN  /\ At(p, "read") /\ ~Locked(i)
        /\ Empty(i) /\ pipe[i].writeopen
        /\ \/ /\ killed[p] /\ Goto(p, "user")
              /\ arg' = [arg EXCEPT ![p] = NoArg]
              /\ got' = [got EXCEPT ![p] = Failed]
           \/ /\ ~killed[p] /\ Goto(p, "sleep")
              /\ UNCHANGED <<arg, got>>
        /\ UNCHANGED <<procVars, ofile, file, pipe, hand>>

ReadBytes(p) ==
    LET i == arg[p].pipe
        n == Min({arg[p].n, Used(i)})
    IN  /\ At(p, "read") /\ ~Locked(i)
        /\ ~Empty(i) \/ ~pipe[i].writeopen
        /\ got' = [got EXCEPT ![p] = Bytes(i, n)]
        /\ pipe' = [pipe EXCEPT ![i] = Drained(@, n)]
        /\ Wakeup(Nwrite(i))
        /\ arg' = [arg EXCEPT ![p] = NoArg]
        /\ Goto(p, "user")
        /\ UNCHANGED <<ofile, file, hand>>

Taken(p) ==
    /\ At(p, "user") /\ got[p] # NoResult
    /\ got' = [got EXCEPT ![p] = NoResult]
    /\ UNCHANGED <<procVars, ofile, file, pipe, pc, arg, hand>>

\* A pipe after n bytes of s were put into it.
Filled(q, s, n) ==
    [q EXCEPT !.nwrite = (@ + n) % UINT,
              !.data = [k \in 0 .. PIPESIZE - 1 |->
                          LET at == {j \in 1 .. n : (q.nwrite + j - 1) % PIPESIZE = k}
                          IN  IF at = {} THEN q.data[k] ELSE s[Max(at)]]]

\* The bytes there is room for.  With all of them written the call returns;
\* with the pipe full it fails, or wakes the readers and prepares to sleep.
WriteBytes(p) ==
    LET i == arg[p].pipe
        s == arg[p].bytes
        n == Min({Len(s), PIPESIZE - Used(i)})
        q == Filled(pipe[i], s, n)
        rest == SubSeq(s, n + 1, Len(s))
        fails == rest # <<>> /\ (~pipe[i].readopen \/ killed[p])
    IN  /\ At(p, "write") /\ ~Locked(i)
        /\ pipe' = [pipe EXCEPT ![i] = [q EXCEPT !.cut = q.cut \/ fails]]
        /\ \/ /\ rest = <<>>
              /\ Wakeup(Nread(i)) /\ Goto(p, "user")
              /\ arg' = [arg EXCEPT ![p] = NoArg]
           \/ /\ fails /\ Goto(p, "user")
              /\ arg' = [arg EXCEPT ![p] = NoArg]
              /\ UNCHANGED procVars
           \/ /\ rest # <<>> /\ ~fails
              /\ Wakeup(Nread(i)) /\ Goto(p, "sleep")
              /\ arg' = [arg EXCEPT ![p].bytes = rest]
        /\ UNCHANGED <<ofile, file, hand, got>>

\* sleep(): the lock of the pipe is let go when the process is asleep.
FallAsleep(p) ==
    LET w == arg[p].bytes # <<>>
    IN  /\ At(p, "sleep")
        /\ Sleep(p, IF w THEN Nwrite(arg[p].pipe) ELSE Nread(arg[p].pipe))
        /\ Goto(p, IF w THEN "write" ELSE "read")
        /\ UNCHANGED <<ofile, file, pipe, arg, hand, got>>

-----------------------------------------------------------------------------
Init ==
    /\ state = [p \in Proc |-> IF p = initproc THEN "RUNNABLE" ELSE "UNUSED"]
    /\ chan = [p \in Proc |-> NoChan]
    /\ killed = [p \in Proc |-> FALSE]
    /\ ofile = [p \in Proc |-> [fd \in Fd |-> Null]]
    /\ file = [f \in File |-> NoFile]
    /\ pipe = [i \in Pipe |-> NoPipe]
    /\ pc = [p \in Proc |-> "user"]
    /\ arg = [p \in Proc |-> NoArg]
    /\ hand = [p \in Proc |-> <<>>]
    /\ got = [p \in Proc |-> NoResult]

Step(p) ==
    \/ PipeFirst(p) \/ PipeSecond(p) \/ PipeFails(p) \/ PipeMade(p)
    \/ Dup(p) \/ Fork(p) \/ Close(p) \/ Exit(p)
    \/ CloseFile(p) \/ ExitFile(p) \/ PipeClose(p) \/ Zombie(p) \/ Reap(p)
    \/ ReadCall(p) \/ ReadWaits(p) \/ ReadBytes(p) \/ Taken(p)
    \/ WriteCall(p) \/ WriteBytes(p) \/ FallAsleep(p)

Next == \E p \in Proc : Step(p) \/ Kill(p)

Spec == Init /\ [][Next]_vars
=============================================================================
