----------------------------- MODULE MCJobQueue -----------------------------
(* Small instances of JobQueue for TLC. *)
EXTENDS JobQueue, TLC

CONSTANTS i1, i2, h1, h2, c1, w1, w2

\* Ids, callers and workers are interchangeable; nothing orders them.
Symmetry == Permutations(Ids) \cup Permutations(Callers) \cup Permutations(Workers)
=============================================================================
