CONSTANTS
    Audios = {a1, a2}
    Threads = {t1}
    Kinds = {"transcribe"}
    HandledKinds = {"transcribe"}
    MaxAttempts = 1
    TranscriptionLimit = 1
    MaxJobs = 1
    MaxCrashes = 0
    MaxRetries = 0
    MaxLost = 0
    Long = {}
    MaxParts = 2
SPECIFICATION TSpec
INVARIANTS TranscriptOfItsRecording
CHECK_DEADLOCK FALSE
