------------------------------ MODULE MCPipes ------------------------------
EXTENDS PipesProps

MCMessage == {<<0, 1, 1>>}
MCProc == 1 .. 2
=============================================================================
