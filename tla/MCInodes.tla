------------------------------ MODULE MCInodes ------------------------------
EXTENDS InodesProps, TLC

CONSTANTS r, i2, i3

a == "a"
b == "b"

Do(op, p) == [op |-> op, from |-> "cwd", path |-> p]

MCCall ==
    { Do("create", <<a>>), Do("mkdir", <<a>>), Do("open", <<b>>), Do("chdir", <<a>>),
      Do("unlink", <<a>>), [Do("unlink", <<a, b>>) EXCEPT !.from = "root"],
      [op |-> "link", from |-> "cwd", old |-> <<a>>, path |-> <<b>>] }

Symmetry == Permutations(Proc) \cup Permutations({i2, i3})
=============================================================================
