---------------------------- MODULE MCColdMemory ----------------------------
EXTENDS ColdMemory

\* Four traces overfill a channel of two while the worker is busy, let a second
\* process write over two nodes of the first, and give a torn line a successor.
\* The properties judge each point by itself: one is enough, of any trace.
MCCapacity == 2
MCMaxTraces == 4
MCMaxProcesses == 2
MCMaxPoints == 1
=============================================================================
