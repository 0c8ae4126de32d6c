----------------------------- MODULE MCLibrary -----------------------------
(* Library on a small instance: one filter matches everything, the others *)
(* the first recording alone.                                              *)
EXTENDS Library, TLC

MCMatching == [q \in Filters |-> IF q = "all" THEN Recordings ELSE {1}]
\* After two runs and a mishap the list is not read further.
AFew == started + mishaps <= 2 \/ \A q \in Filters : pages[q] = 1

Symmetric == Permutations(Tags)
=============================================================================
