----------------------------- MODULE PipesProps -----------------------------
(* What pipes and the file table must keep, and the channel they implement. *)
EXTENDS Pipes

\* The write a process is in the middle of, and what the pipes hold.
Writing(p) == pc[p] = "write" \/ (pc[p] = "sleep" /\ arg[p].bytes # <<>>)
Holders(i, w) ==
    {p \in Proc : \E fd \in Fd :
        LET f == ofile[p][fd] IN f # Null /\ file[f].pipe = i /\ file[f].writable = w}

ChannelOut(p) ==
    IF Writing(p) THEN [pipe |-> arg[p].pipe, bytes |-> arg[p].bytes]
    ELSE [pipe |-> 0, bytes |-> <<>>]

Chan == INSTANCE Channel WITH
            fifo <- [i \in Pipe |-> IF pipe[i].live THEN Bytes(i, Used(i)) ELSE <<>>],
            out <- [p \in Proc |-> ChannelOut(p)],
            readers <- [i \in Pipe |-> Holders(i, FALSE)],
            writers <- [i \in Pipe |-> Holders(i, TRUE)]

(* Through the ring of PIPESIZE bytes, its two counters that wrap around,    *)
(* the partial reads and writes, the references counted twice (descriptors   *)
(* of a file, ends of a pipe) and the pages used again, programs see the     *)
(* channel: every byte once and in order, an end of file only when no writer *)
(* is left, a failed write only when no reader is left or on a kill.         *)
ImplementsChannel == Chan!Spec

\* How often a file is referred to: by descriptors and by calls under way.
Uses(f) ==
    Cardinality({u \in Proc \X Fd : ofile[u[1]][u[2]] = f})
    + Cardinality({u \in Proc \X (1 .. 2) :
                     u[2] <= Len(hand[u[1]]) /\ hand[u[1]][u[2]] = f})

Refers(i, w) ==
    \/ \E f \in File : file[f].type = "pipe" /\ file[f].pipe = i /\ file[f].writable = w
    \/ \E p \in Proc : pc[p] \in {"close", "exit"} /\ arg[p].pipe = i /\ arg[p].writable = w

(* fileclose() gives a file up before it closes the end of the pipe the      *)
(* file stood for, so files and pages come and go independently: a reference *)
(* count is the number of descriptors and unfinished calls; an end of a pipe *)
(* is open just as long as a file, or a pipeclose() to come, refers to it,   *)
(* through one of them only; and no process reads, writes or sleeps on a     *)
(* pipe whose page is back in the allocator.                                 *)
PipeHeld ==
    /\ \A f \in File : file[f].ref = Uses(f)
    /\ \A i \in Pipe :
         /\ pipe[i].readopen = Refers(i, FALSE)
         /\ pipe[i].writeopen = Refers(i, TRUE)
         /\ pipe[i].live = (pipe[i].readopen \/ pipe[i].writeopen)
         /\ \A w \in BOOLEAN :
              Cardinality({f \in File : file[f].type = "pipe" /\ file[f].pipe = i
                                        /\ file[f].writable = w}) <= 1
    /\ \A p \in Proc : pc[p] # "user" /\ arg[p].pipe # Null => pipe[arg[p].pipe].live

Full(i) == pipe[i].nwrite = (pipe[i].nread + PIPESIZE) % UINT

(* A lost wakeup: the tests of pipe-empty and pipe-full, the sleeps and the  *)
(* wakeups of the other end all happen under the lock of the pipe, so nobody *)
(* sleeps for bytes that are there or for a writer that is gone, nor for     *)
(* room that is there or for a reader that is gone.  The exception is real:  *)
(* a write cut short by a kill leaves the pipe full and wakes no reader.     *)
NobodyForgotten ==
    \A p \in Proc : \A i \in Pipe : state[p] = "SLEEPING" =>
        /\ chan[p] = Nread(i) => pipe[i].writeopen /\ (Empty(i) \/ pipe[i].cut)
        /\ chan[p] = Nwrite(i) => pipe[i].readopen /\ Full(i)
=============================================================================
