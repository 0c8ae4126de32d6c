----------------------------- MODULE MCJobQueue -----------------------------
(* JobQueue on small instances. *)
EXTENDS JobQueue, TLC

\* Recordings and threads are interchangeable.
Symmetry == Permutations(Audios) \cup Permutations(Threads)
=============================================================================
