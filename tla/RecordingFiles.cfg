\* Two recordings, a thread, a purge at a time, a crash, and fsck looking on.  A trashed
\* library of two recordings, and a call among two changes made
\* elsewhere, or two calls.  Recordings cut into parts: a pause on either side of the ceiling
\* and none, an utterance anywhere, an engine that returns torn pieces or not and names two
\* voices either way.
SPECIFICATION MCSpec
CONSTANTS
    Recordings = {r, s}
    Threads = {t}
    Purgers = {p}
    MaxCrashes = 1
    Checked = TRUE
    NoFile = NoFile
    Shelf = l
    MaxChanges = 2
    MaxCalls = 2
    Originals <- Heard
    Voices = {"ana", "bo"}
    Unnamed = "unnamed"
    Ceiling = 8
    Overlap = 3
    MinPart = 5
SYMMETRY Symmetric
CONSTRAINT AFew
INVARIANTS DiskInv WordsComeBackOnce ChunkInv
PROPERTIES DestroysWhatWasAgreed
CHECK_DEADLOCK FALSE
