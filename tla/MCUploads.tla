------------------------------ MODULE MCUploads ------------------------------
(* Uploads for TLC: two of the files are the same bytes.  And UploadDialog, which *)
(* files are chosen in, explored by itself: the queue has its own files.          *)
EXTENDS Uploads, SequencesExt

CONSTANTS Take1, Take2,
          Library, Other, Category,    \* the dialog's, of which the first library has a category
          Offered, Ingested, Libraries, Categories, LibraryOf, None, MaxChosen, MaxMoves

ASSUME DialogAssumption ==
    /\ Libraries \in Seq(ToSet(Libraries)) /\ LibraryOf \in [Categories -> ToSet(Libraries)]
    /\ None \notin ToSet(Libraries) \cup Categories
    /\ MaxMoves \in Nat

SameBytes      == [f \in Files |-> IF f = Take2 THEN Take1 ELSE f]
TwoLibraries   == <<Library, Other>>
OfTheFirst     == [c \in {Category} |-> Library]

VARIABLES
    scene,      \* which of the two is explored
    open, chosen, destination, category, transcribe, limits, provider, editable, beneath, moves,
    shifted, handed, frame, landed, coming

onDialog == <<open, chosen, destination, category, transcribe, limits, provider, editable,
              beneath, moves, shifted, handed, frame, landed, coming>>

D == INSTANCE UploadDialog WITH Files <- Offered

MCInit ==
    /\ scene \in {"queue", "dialog"}
    /\ Init /\ D!Init
    /\ provider /\ editable = ToSet(Libraries) /\ beneath = Head(Libraries)
    /\ IF scene = "queue" THEN limits /\ frame = "desktop" ELSE archive = [c \in Contents |-> {}]

Queued == scene = "queue" /\ Next /\ UNCHANGED <<scene, onDialog>>
Chosen == scene = "dialog" /\ D!Next /\ UNCHANGED <<scene, vars>>

MCSpec ==
    /\ MCInit /\ [][Queued \/ Chosen]_<<scene, vars, onDialog>>
    /\ WF_vars(scene = "queue" /\ \E d \in drains : Drives(d))

\* What UploadDialog states of the dialog and of the page around it (UploadDialog.tsx:227).
DialogInv == D!DialogInv
=============================================================================
