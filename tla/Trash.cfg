\* Two accounts with a library each and one more, and a recording: what is counted,
\* stamped, shared, restored and destroyed, in which order.
SPECIFICATION Spec
CONSTANTS
    Users = {u, v}
    Libraries = {l, m, n}
    Recordings = {r}
    Retention = 1
    MaxTime = 3
    NoUser = NoUser
    Nowhere = Nowhere
    NoWrite = NoWrite
SYMMETRY Symmetric
CONSTRAINTS OneLooks OneBusiness
INVARIANTS TrashInv
PROPERTIES NothingDueStays UncountedHasACause ImplementsBin
CHECK_DEADLOCK FALSE
