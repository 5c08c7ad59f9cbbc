------------------------------ MODULE Channel ------------------------------
(***************************************************************************)
(* What pipe(), read(), write() and close() promise user code: bytes come  *)
(* out of a pipe in the order they went in, each one once; a read returns  *)
(* none only when nobody is left who could write, and a write gives up     *)
(* only when nobody is left who could read, or its process is killed.      *)
(***************************************************************************)
EXTENDS Integers, Sequences

CONSTANTS Proc, Pipe, PIPESIZE, Message, NoResult, Failed

VARIABLES
    fifo,               \* the bytes in a pipe
    out,                \* what the write() of a process has still to put, and where
    got,                \* what the read() of a process has just returned
    readers, writers,   \* the processes that have a descriptor of that end
    killed

vars == <<fifo, out, got, readers, writers, killed>>

Idle == [pipe |-> 0, bytes |-> <<>>]
Prefixes(s) == {SubSeq(s, 1, n) : n \in 0 .. Len(s)}
After(s, t) == SubSeq(t, Len(s) + 1, Len(t))     \* t without its prefix s

Init ==
    /\ fifo = [i \in Pipe |-> <<>>]
    /\ out = [p \in Proc |-> Idle]
    /\ got = [p \in Proc |-> NoResult]
    /\ readers = [i \in Pipe |-> {}] /\ writers = [i \in Pipe |-> {}]
    /\ killed = [p \in Proc |-> FALSE]

\* Descriptors come and go, and processes are killed.
Environment ==
    /\ readers' \in [Pipe -> SUBSET Proc] /\ writers' \in [Pipe -> SUBSET Proc]
    /\ killed' \in [Proc -> BOOLEAN]
    /\ UNCHANGED <<fifo, out, got>>

StartWrite(p) ==
    /\ out[p] = Idle
    /\ \E i \in Pipe, m \in Message :
         p \in writers[i] /\ out' = [out EXCEPT ![p] = [pipe |-> i, bytes |-> m]]
    /\ UNCHANGED <<fifo, got, readers, writers, killed>>

\* A write goes on; with bytes left it may end only if they are of no use.
Put(p) ==
    LET i == out[p].pipe
    IN  /\ out[p] # Idle
        /\ \E s \in Prefixes(out[p].bytes) :
             /\ Len(fifo[i] \o s) <= PIPESIZE
             /\ fifo' = [fifo EXCEPT ![i] = @ \o s]
             /\ \/ After(s, out[p].bytes) # <<>> /\ out' = [out EXCEPT ![p].bytes = After(s, @)]
                \/ After(s, out[p].bytes) = <<>> /\ out' = [out EXCEPT ![p] = Idle]
                \/ (readers[i] = {} \/ killed[p]) /\ out' = [out EXCEPT ![p] = Idle]
        /\ UNCHANGED <<got, readers, writers, killed>>

Get(p) ==
    /\ got[p] = NoResult
    /\ \/ \E i \in Pipe : \E s \in Prefixes(fifo[i]) :
            /\ p \in readers[i]
            /\ s = <<>> => fifo[i] = <<>> /\ writers[i] = {}
            /\ fifo' = [fifo EXCEPT ![i] = After(s, @)]
            /\ got' = [got EXCEPT ![p] = s]
       \/ killed[p] /\ got' = [got EXCEPT ![p] = Failed] /\ UNCHANGED fifo
    /\ UNCHANGED <<out, readers, writers, killed>>

Taken(p) ==
    /\ got' = [got EXCEPT ![p] = NoResult]
    /\ UNCHANGED <<fifo, out, readers, writers, killed>>

\* Nobody has an end of it any more.
Discard(i) ==
    /\ readers[i] = {} /\ writers[i] = {}
    /\ fifo' = [fifo EXCEPT ![i] = <<>>]
    /\ UNCHANGED <<out, got, readers, writers, killed>>

Next ==
    \/ Environment
    \/ \E p \in Proc : StartWrite(p) \/ Put(p) \/ Get(p) \/ Taken(p)
    \/ \E i \in Pipe : Discard(i)

Spec == Init /\ [][Next]_vars
=============================================================================
