------------------------------ MODULE MCFiles ------------------------------
EXTENDS FilesProps, TLC

Blocks == 1 .. 10

Symmetry == Permutations(Proc) \cup Permutations(Inum) \cup Permutations(FileId)
=============================================================================
