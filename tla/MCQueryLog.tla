----------------------------- MODULE MCQueryLog -----------------------------
(* Threads that push past the size of the buffer, rotate and clear.         *)
EXTENDS QueryLog

CONSTANTS t1, t2

OneThread == {t1}
TwoThreads == {t1, t2}
Interchangeable == Permutations(Threads)
=============================================================================
