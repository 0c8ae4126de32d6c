\* One page and two recordings, of two jobs and of one, a queue that holds one change,
\* one broken stream, crash or change nobody announces.
SPECIFICATION FairSpec
CONSTANTS
    Recordings = {r, s}
    Threads = {t}
    Pages = {c}
    Readable <- EveryRecording
    Jobs <- OneOrTwo
    Transcribed = r
    QUEUE_DEPTH = 1
    MaxMishaps = 1
    Nothing = Nothing
    RESYNC = RESYNC
    ASKED = ASKED
INVARIANTS ListensToEverything
PROPERTIES CatchesUp
CHECK_DEADLOCK FALSE
