--------------------------- MODULE MCBufferCache ---------------------------
EXTENDS BufferCacheProps
=============================================================================
