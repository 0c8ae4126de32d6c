\* A long and a short recording and one thread: purges, row numbers that come
\* back, a crash.  No symmetry: one of the properties is temporal.
CONSTANTS
    Audios = {a1, a2}
    Threads = {t1}
    Kinds = {"transcribe"}
    HandledKinds = {"transcribe"}
    MaxAttempts = 1
    TranscriptionLimit = 1
    MaxJobs = 2
    MaxCrashes = 1
    MaxRetries = 0
    MaxLost = 1
    Long = {a1}
    MaxParts = 2
SPECIFICATION TFairSpec
PROPERTIES StraysHaveACause BadgeSettles
CHECK_DEADLOCK FALSE
