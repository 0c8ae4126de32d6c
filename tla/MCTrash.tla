-------------------------------- MODULE MCTrash --------------------------------
(* Trash for TLC: whichever account, library or recording it is makes no *)
(* difference to it. *)
EXTENDS Trash, TLC

Symmetric ==
    Permutations(Users) \cup Permutations(Libraries) \cup Permutations(Recordings)

\* Bounds on the instance: one account at a time looks at its trash as a whole,
\* and either something is shared or an account has a second library.
OneLooks == Cardinality({u \in Users : summary[u] # Unasked}) <= 1
OneBusiness ==
    \/ grant = [t \in Things |-> [u \in Users |-> NO_ACCESS]]
    \/ Cardinality({l \in Libraries : HasLibrary(l) \/ l \in gone}) <= 2
=============================================================================
