\* Two accounts, one of them signed in to elsewhere as well; two sessions in all
\* and one change of a password.
SPECIFICATION FairSpec
CONSTANTS
    Accounts = {a, b}
    Abroad = {a}
    MaxSessions = 2
    MaxChanges = 1
    Nobody = Nobody
    Idle = Idle
    Quiet = Quiet
INVARIANTS SessionInv
PROPERTIES LeavesForACause DeadSessionLeaves
CHECK_DEADLOCK FALSE
