------------------------------ MODULE UploadDialog ------------------------------
(***************************************************************************)
(* The dialog files are chosen in (features/upload/UploadDialog.tsx and    *)
(* ChosenFiles.tsx), and what tells the rest of the page of the files that *)
(* arrive (useSettled in Uploads.tsx, mounted by the frame).  The queue    *)
(* between the two is module Uploads.                                      *)
(*                                                                         *)
(* The dialog belongs to the frame and stays open over any page.  Until    *)
(* somebody picks a library it goes by what the page beneath suggests,     *)
(* and that moves: Back changes the page, and the list of libraries is     *)
(* read again.                                                             *)
(***************************************************************************)
EXTENDS Integers, SequencesExt

CONSTANTS
    Files,
    Ingested,       \* what the instance takes, by its extension
    Libraries,      \* in the order they are listed
    Categories, LibraryOf,
    None,
    MaxChosen,      \* bound on the files in the dialog
    MaxMoves        \* bound on what changes around it

VARIABLES
    open,
    chosen,         \* in the order they were picked; the same file may be twice
    destination,    \* the library somebody picked
    category,
    transcribe,
    limits,         \* the instance has said what it takes
    provider,       \* a provider is configured
    editable,       \* the libraries one may add to, as last read
    beneath,        \* the library the page beneath is about
    moves,
    shifted,        \* history: the suggestion moved under a chosen category
    handed,         \* the batch that was handed over last
    frame,          \* "desktop", "phone", or "tab": the phone's Upload tab
    landed,         \* libraries a file of the batch has arrived in, not told of
    coming          \* files of the batch on their way

dialog == <<chosen, destination, category, transcribe>>
around == <<limits, provider, editable, beneath, frame, moves>>
vars == <<open, dialog, shifted, around, handed, landed, coming>>

-----------------------------------------------------------------------------
\* The tiles of what will be sent; the others stay in the dialog, marked.
Accepted == {i \in DOMAIN chosen : limits => chosen[i] \in Ingested}

\* Where they came from, when they may write there; otherwise the first one
\* they may write to.
SuggestedOf(e, b) ==
    IF b \in e THEN b
    ELSE LET listed == {i \in DOMAIN Libraries : Libraries[i] \in e}
         IN  IF listed = {} THEN None ELSE Libraries[Min(listed)]
IntoOf(d, e, b) == IF d = None THEN SuggestedOf(e, b) ELSE d
Into == IntoOf(destination, editable, beneath)

\* Somebody is looking at the rows, which is what tells the cache.
Watching(f) == f # "phone"

Empty == chosen' = <<>> /\ destination' = None /\ category' = None /\ transcribe' = FALSE

Init ==
    /\ open = FALSE
    /\ chosen = <<>> /\ destination = None /\ category = None /\ transcribe = FALSE
    /\ limits \in BOOLEAN /\ provider \in BOOLEAN
    /\ editable \in SUBSET ToSet(Libraries) /\ beneath \in ToSet(Libraries) \cup {None}
    /\ moves = 0 /\ shifted = FALSE
    /\ handed = None
    /\ frame \in {"desktop", "phone"} /\ landed = {} /\ coming = 0

-----------------------------------------------------------------------------
(* The dialog *)

\* From the bar, an empty library's own invitation, or the phone's Upload tab.
Opens ==
    /\ ~open /\ open' = TRUE
    /\ UNCHANGED <<dialog, shifted, around, handed, landed, coming>>

\* Picked or dropped: added, never instead.
Take(f) ==
    /\ open /\ Len(chosen) < MaxChosen
    /\ chosen' = Append(chosen, f)
    /\ UNCHANGED <<open, destination, category, transcribe, shifted, around, handed, landed, coming>>

\* Its tile is pressed.
LeaveOut(i) ==
    /\ open
    /\ chosen' = RemoveAt(chosen, i)
    /\ UNCHANGED <<open, destination, category, transcribe, shifted, around, handed, landed, coming>>

ChooseLibraryVariant(l) ==   \* the category stays
    /\ open /\ l \in editable
    /\ destination' = l
    /\ UNCHANGED <<open, chosen, category, transcribe, shifted, around, handed, landed, coming>>
ChooseLibrary(l) ==
    /\ open /\ l \in editable
    /\ destination' = l
    /\ category' = None /\ shifted' = FALSE
    /\ UNCHANGED <<open, chosen, transcribe, around, handed, landed, coming>>

ChooseCategory(c) ==
    /\ open
    /\ c # None => LibraryOf[c] = Into
    /\ category' = c /\ shifted' = FALSE
    /\ UNCHANGED <<open, chosen, destination, transcribe, around, handed, landed, coming>>

Flip ==
    /\ open /\ provider
    /\ transcribe' = ~transcribe
    /\ UNCHANGED <<open, chosen, destination, category, shifted, around, handed, landed, coming>>

Shut == open' = FALSE /\ shifted' = FALSE /\ Empty

Cancel == open /\ Shut /\ UNCHANGED <<around, handed, landed, coming>>

\* Upload: handed to the queue, each at its tile, and closed.
HandOver ==
    /\ open /\ Accepted # {} /\ Into # None
    /\ handed' = [files |-> [i \in Accepted |-> chosen[i]], library |-> Into, category |-> category,
                  transcribe |-> transcribe, limited |-> limits, shifted |-> shifted]
    /\ coming' = Cardinality(Accepted)
    /\ Shut
    /\ UNCHANGED <<around, landed>>

-----------------------------------------------------------------------------
(* Around it *)

Moves == moves < MaxMoves /\ moves' = moves + 1

\* What is suggested is read in every render.
Shifts(e, b) ==
    shifted' = (shifted \/ (category # None /\ IntoOf(destination, e, b) # Into))

\* Back, or any link the page beneath still answers.
Navigate(b) ==
    /\ Moves /\ b # beneath
    /\ beneath' = b
    /\ Shifts(editable, b)
    /\ UNCHANGED <<open, dialog, limits, provider, editable, frame, handed, landed, coming>>

\* The list of libraries is read again: a level was changed, one is in the
\* trash, or this is its first answer.
Reread(e) ==
    /\ Moves /\ e # editable
    /\ editable' = e
    /\ Shifts(e, beneath)
    /\ UNCHANGED <<open, dialog, limits, provider, beneath, frame, handed, landed, coming>>

InstanceAnswers ==
    /\ Moves /\ ~limits /\ limits' = TRUE
    /\ UNCHANGED <<open, dialog, shifted, provider, editable, beneath, frame, handed, landed, coming>>

ProviderChanges ==
    /\ Moves /\ provider' = ~provider
    /\ UNCHANGED <<open, dialog, shifted, limits, editable, beneath, frame, handed, landed, coming>>

\* The window crosses the phone's width, and the other frame is drawn: the
\* dialog in it is open when this one was, and knows nothing.
Reframe ==
    /\ Moves
    /\ frame' = IF frame = "desktop" THEN "phone" ELSE "desktop"
    /\ Empty /\ shifted' = FALSE
    /\ landed' = IF Watching(frame') THEN {} ELSE landed
    /\ UNCHANGED <<open, limits, provider, editable, beneath, handed, coming>>

\* The phone's Upload tab is pressed, on or off: on, its rows tell at once of
\* whatever has arrived.
Tab ==
    /\ ~open /\ frame \in {"phone", "tab"}
    /\ frame' = IF frame = "phone" THEN "tab" ELSE "phone"
    /\ landed' = IF Watching(frame') THEN {} ELSE landed
    /\ UNCHANGED <<open, dialog, shifted, limits, provider, editable, beneath, moves, handed, coming>>

\* A file of the batch is stored (Uploads), or is not.
Lands ==
    /\ coming > 0 /\ coming' = coming - 1
    /\ \/ landed' = IF Watching(frame) THEN landed ELSE landed \cup {handed.library}
       \/ UNCHANGED landed
    /\ UNCHANGED <<open, dialog, shifted, around, handed>>

-----------------------------------------------------------------------------
InDialog ==
    \/ Opens \/ Flip \/ Cancel \/ HandOver
    \/ \E f \in Files : Take(f)
    \/ \E i \in 1..Len(chosen) : LeaveOut(i)
    \/ \E l \in ToSet(Libraries) : ChooseLibrary(l)
    \/ \E c \in Categories \cup {None} : ChooseCategory(c)

Next ==
    \/ InDialog
    \/ \E b \in ToSet(Libraries) \cup {None} : Navigate(b)
    \/ \E e \in SUBSET ToSet(Libraries) : Reread(e)
    \/ InstanceAnswers \/ ProviderChanges \/ Reframe \/ Tab \/ Lands

Spec == Init /\ [][Next]_vars

-----------------------------------------------------------------------------
(* Properties *)

TypeOK ==
    /\ open \in BOOLEAN /\ transcribe \in BOOLEAN
    /\ chosen \in Seq(Files)
    /\ destination \in ToSet(Libraries) \cup {None} /\ category \in Categories \cup {None}
    /\ limits \in BOOLEAN /\ provider \in BOOLEAN /\ shifted \in BOOLEAN
    /\ editable \subseteq ToSet(Libraries) /\ beneath \in ToSet(Libraries) \cup {None}
    /\ frame \in {"desktop", "phone", "tab"} /\ landed \subseteq ToSet(Libraries)
    /\ coming \in Nat /\ moves \in 0..MaxMoves

\* A batch goes with a category of another library only because the suggestion
\* moved under it; nobody who picked the library can send that
\* (UploadDialog.tsx:230).
CategoryGoesWithItsLibrary ==
    handed # None =>
        \/ handed.category = None
        \/ LibraryOf[handed.category] = handed.library
        \/ handed.shifted

\* Nothing of one opening is there in the next, the switch that sends a
\* recording to a provider least of all; and what the instance said it does
\* not take is not sent.
StartsEmpty ==
    /\ ~open => chosen = <<>> /\ destination = None /\ category = None /\ ~transcribe
    /\ handed # None /\ handed.limited => Range(handed.files) \subseteq Ingested

\* What has arrived untold did so on a phone, with the Upload tab shut.
UntoldBehindTheTab == landed # {} => frame = "phone"

DialogInv == TypeOK /\ CategoryGoesWithItsLibrary /\ StartsEmpty /\ UntoldBehindTheTab
=============================================================================
