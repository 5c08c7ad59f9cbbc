----------------------------- MODULE ByteFiles -----------------------------
(***************************************************************************)
(* What read() and write() promise programs: a file is a sequence of words *)
(* and a descriptor a place in it.  A write that fits into one transaction *)
(* is one step, also for those who share the descriptor; a longer one is   *)
(* several.  A crash goes back to the files as they were at an earlier     *)
(* time, all of them at the same one.                                      *)
(***************************************************************************)
EXTENDS Integers, Sequences

CONSTANTS
    Proc, Inum, FileId,
    Blank,        \* what a file is before anything is written, and a closed descriptor
    MaxChunk,      \* words of a transaction
    MaxSize       \* words of a file

VARIABLES
    content,   \* the words of the files, each the process that wrote it
    file,      \* the descriptors: [ip, off]
    saved      \* the files a crash leaves

vars == <<content, file, saved>>

Init ==
    /\ content \in [Inum -> Seq(Proc \cup {0})]
    /\ file \in [FileId -> [ip : Inum, off : {0}]]
    /\ saved = content

\* s with n words of p from off on.
Written(s, off, n, p) ==
    [k \in 1 .. (IF off + n > Len(s) THEN off + n ELSE Len(s)) |->
       IF k \in off + 1 .. off + n THEN p ELSE s[k]]

Write(p, f) ==
    /\ file[f] # Blank
    /\ LET i == file[f].ip
           off == file[f].off
           n == file'[f].off - off
       IN  /\ n \in 1 .. MaxChunk /\ off <= Len(content[i]) /\ off + n <= MaxSize
           /\ file' = [file EXCEPT ![f].off = off + n]
           /\ content' = [content EXCEPT ![i] = Written(@, off, n, p)]
    /\ UNCHANGED saved

Read(f) ==
    /\ file[f] # Blank
    /\ file'[f].off \in file[f].off .. Len(content[file[f].ip])
    /\ file' = [file EXCEPT ![f].off = file'[f].off]
    /\ UNCHANGED <<content, saved>>

Open(f, i) ==
    /\ file[f] = Blank
    /\ file' = [file EXCEPT ![f] = [ip |-> i, off |-> 0]]
    /\ UNCHANGED <<content, saved>>

\* The words of a file that nobody has open go when it is removed.
Removed(i) ==
    /\ \A f \in FileId : file'[f] = Blank \/ file'[f].ip # i
    /\ content' = [content EXCEPT ![i] = <<>>]

Close(f) ==
    /\ file[f] # Blank
    /\ file' = [file EXCEPT ![f] = Blank]
    /\ Removed(file[f].ip) \/ UNCHANGED content
    /\ UNCHANGED saved

Remove(i) == Removed(i) /\ UNCHANGED <<file, saved>>

Save == saved' = content /\ UNCHANGED <<content, file>>

Crash ==
    /\ content' = saved
    /\ file' = [f \in FileId |-> Blank]
    /\ UNCHANGED saved

Next ==
    \/ \E f \in FileId : Read(f) \/ Close(f) \/ \E p \in Proc : Write(p, f)
    \/ \E i \in Inum : Remove(i) \/ \E f \in FileId : Open(f, i)
    \/ Save
    \/ Crash

Spec == Init /\ [][Next]_vars
=============================================================================
