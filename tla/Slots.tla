------------------------------- MODULE Slots --------------------------------
(***************************************************************************)
(* What JOB-15 promises of the transcription engine, and nothing of how:   *)
(* a counting lock.  At most Limit jobs hold a slot; a slot is given to    *)
(* one job at a time, and only while there is a free one; any number can   *)
(* be given back at once (a restart gives back all of them).               *)
(* backend/resonand/jobs/queue.py:200-240 is the code that must keep it.   *)
(***************************************************************************)
EXTENDS Integers, FiniteSets

CONSTANTS Jobs, Limit

VARIABLE held

Init == held = {}

Acquire == \E j \in Jobs \ held :
              /\ Cardinality(held) < Limit
              /\ held' = held \cup {j}

GiveBack == \E S \in SUBSET held : held' = held \ S

Next == Acquire \/ GiveBack

Spec == Init /\ [][Next]_held
=============================================================================
