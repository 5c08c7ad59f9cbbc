------------------------------ MODULE NameTree ------------------------------
(***************************************************************************)
(* What mkdir(), open(), link() and unlink() promise programs: the names   *)
(* of the file system form a tree.  One name at a time appears, where none *)
(* was, or disappears; only files have more than one name, and a directory *)
(* disappears only when it is empty.                                       *)
(***************************************************************************)
CONSTANTS Inum, ROOTINO, Name

VARIABLE names     \* the names there are: [dir, name, inum, type]

Entry == [dir : Inum, name : Name, inum : Inum, type : {"dir", "file"}]

Init == names = {}

IsDir(i) == i = ROOTINO \/ \E e \in names : e.inum = i /\ e.type = "dir"

Add(e) ==
    /\ IsDir(e.dir)
    /\ \A f \in names : ~(f.dir = e.dir /\ f.name = e.name)
    /\ \A f \in names : f.inum = e.inum => f.type = "file" /\ e.type = "file"
    /\ e.inum # ROOTINO
    /\ names' = names \cup {e}

Remove(e) ==
    /\ e \in names
    /\ \A f \in names : f.dir # e.inum
    /\ names' = names \ {e}

Next == \/ \E e \in (names' \ names) \cap Entry : Add(e)
        \/ \E e \in names \ names' : Remove(e)

Spec == Init /\ [][Next]_names
=============================================================================
