---------------------------------- MODULE Bin ----------------------------------
(***************************************************************************)
(* What deleting means in Resonand, with nothing of how: a recording is    *)
(* destroyed only out of the trash, and what is destroyed does not come    *)
(* back.  One step may move any number of recordings.                      *)
(***************************************************************************)
CONSTANT Recordings

VARIABLE status

Statuses == {"unborn", "live", "trashed", "gone"}

Moves == {<<"unborn", "live">>, <<"live", "trashed">>,
          <<"trashed", "live">>, <<"trashed", "gone">>}

Init == status = [r \in Recordings |-> "unborn"]

Next ==
    /\ status' \in [Recordings -> Statuses]
    /\ \A r \in Recordings :
          status[r] = status'[r] \/ <<status[r], status'[r]>> \in Moves

Spec == Init /\ [][Next]_status
=============================================================================
