\* One recording and the daily purge, two rows, two threads; one crash, one
\* retry, one lost outcome; this build has no handler for "probe".  No
\* symmetry, because EverySettles is temporal.
SPECIFICATION FairSpec
CONSTANTS
    Audios = {a1}
    Threads = {t1, t2}
    Kinds = {"probe", "transcribe", "purge"}
    HandledKinds = {"transcribe", "purge"}
    MaxAttempts = 2
    TranscriptionLimit = 1
    MaxJobs = 2
    MaxCrashes = 1
    MaxRetries = 1
    MaxLost = 1
INVARIANTS IInv QueuedOnce
PROPERTIES OutcomesStand SecondInFlightOnlyByRetry ImplementsSlots EverySettles
CHECK_DEADLOCK FALSE
