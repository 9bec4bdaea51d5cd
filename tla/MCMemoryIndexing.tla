-------------------------- MODULE MCMemoryIndexing --------------------------
(* Instances of MemoryIndexing: rows and workers are interchangeable.      *)
EXTENDS MemoryIndexing, TLC

CONSTANTS e1, e2, w1, w2

OneEntry   == {e1}
TwoEntries == {e1, e2}
OneWorker  == {w1}
TwoWorkers == {w1, w2}

Sym == Permutations(Entry) \cup Permutations(Worker)
=============================================================================
