\* Two files of the same bytes and one over the limit; a failed one is sent again once.
\* Up to two files in the dialog, two libraries, and one thing that changes around it.
SPECIFICATION MCSpec
CONSTANTS
    Files = {f, g, h}
    Contents = {f, h}
    ContentOf <- SameBytes
    Oversized = {h}
    MaxAgain = 1
    Take1 = f
    Take2 = g
    Library = k
    Other = l
    Category = c
    Offered = {f, g}
    Ingested = {f}
    Libraries <- TwoLibraries
    Categories = {c}
    LibraryOf <- OfTheFirst
    None = None
    MaxChosen = 2
    MaxMoves = 1
INVARIANTS UploadsInv DialogInv
PROPERTIES EveryFileIsAnswered
CHECK_DEADLOCK FALSE
