--------------------------- MODULE MCStaticInstance ---------------------------
EXTENDS StaticInstance, TLC

\* The threads are interchangeable.
ThreadSymmetry == Permutations(Threads)
=============================================================================
