--------------------------- MODULE MCTranscription ---------------------------
(* Transcription on small instances. *)
EXTENDS Transcription, TLC

\* Threads are interchangeable; recordings are not, only some are long.
Symmetry == Permutations(Threads)
=============================================================================
