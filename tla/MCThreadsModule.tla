--------------------------- MODULE MCThreadsModule ---------------------------
EXTENDS ThreadsModule

CONSTANTS main, w1, w2

ThreeThreads == {main, w1, w2}
=============================================================================
