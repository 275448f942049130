--------------------------- MODULE MCWorkerSystem ---------------------------
EXTENDS WorkerSystem, MCDatapath

\* lw, sb, jal: the third instruction jumps back to the first.
MCPrograms == {Image(5, 160, 162, 167, 0, 0)}
=============================================================================
