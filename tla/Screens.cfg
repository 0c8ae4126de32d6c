\* Two titles and two tags, and three edits: two fields sent and two presses of the heart at most,
\* with one mishap; three categories at most, two names and two calls; a menu, two dialogs and a
\* listbox; two words, pages of one recording, two of them, and one address to go back to; three
\* writes of a form; two libraries and two writes felt by the copy that is followed.  A card is not
\* followed past its first mishap.
SPECIFICATION ScreensSpec
CONSTANTS
    FirstTitle = t0
    SecondTitle = t1
    Tags = {x, y}
    Nothing = Nothing
    MaxWrites = 2
    MaxMarks = 2
    MaxEdits = 3
    MaxMishaps = 1
    Ids = {1, 2, 3}
    Root = 0
    Names = {1, 2}
    Recordings = {r}
    MaxCalls = 2
    Words = {w, v}
    Frequent = w
    Drawers = {d}
    Found <- FoundHere
    PageSize = 1
    None = None
    MaxBehind = 1
    MaxPage = 1
    Unknown = Unknown
    Sent = Sent
    Failed = Failed
    MaxMade = 2
    MaxAsked = 1
    MaxSent = 3
    Libraries = {k, l}
    Held = k
    Subject = r
SYMMETRY Symmetric
CONSTRAINT Untroubled
INVARIANTS EditsInv TreeInv LateAnswersInv FreshInv
PROPERTIES TagGoesForACause KeepsThePlace
CHECK_DEADLOCK FALSE
