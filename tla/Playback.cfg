\* Two recordings of three positions, three events a person gets ahead of, one
\* request for a token and one source that fails; a column of four lines in a
\* panel of two.
SPECIFICATION PlaybackSpec
CONSTANTS
    Recordings = {r, s}
    NoRecording = NoRecording
    End = 2
    MaxTasks = 3
    MaxMints = 1
    MaxErrors = 1
    Last = 3
    Panel = 2
    Half = 1
    Window = 2
INVARIANT PlaybackInv
PROPERTIES PositionStands OnlyAPersonReleases ListeningGoesOn
CHECK_DEADLOCK FALSE
