------------------------------- MODULE MCChanges -------------------------------
(* Changes for TLC. *)
EXTENDS Changes

CONSTANT Transcribed    \* the recording with a job more than the others

EveryRecording == [c \in Pages |-> Recordings]
OneOrTwo == [r \in Recordings |-> IF r = Transcribed THEN 2 ELSE 1]
=============================================================================
