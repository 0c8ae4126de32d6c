\* One long recording and two threads: a transcription is cancelled, asked for
\* again and retried while a thread still works on it.
CONSTANTS
    Audios = {a1}
    Threads = {t1, t2}
    Kinds = {"transcribe"}
    HandledKinds = {"transcribe"}
    MaxAttempts = 2
    TranscriptionLimit = 1
    MaxJobs = 2
    MaxCrashes = 0
    MaxRetries = 1
    MaxLost = 0
    Long = {a1}
    MaxParts = 2
SPECIFICATION TSpec
SYMMETRY Symmetry
INVARIANTS AtMostOneAfterCancel OneActive
PROPERTIES DoneStands
CHECK_DEADLOCK FALSE
