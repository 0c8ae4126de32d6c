------------------------------- MODULE MCScreens -------------------------------
(* Edits, Categories, TranscriptionCard, Overlays, Search, Forms and Freshness  *)
(* for TLC.  Each is explored by itself; the others stand as they open.             *)
EXTENDS Categories, Staleness, TLC

CONSTANTS
    FirstTitle, SecondTitle, Tags, Nothing, MaxWrites, MaxMarks, MaxEdits, MaxMishaps,    \* a recording
    Words, Frequent, Drawers, Found, PageSize, None, MaxBehind, MaxPage,    \* a search
    Unknown, Sent, Failed, MaxMade, MaxAsked,    \* the card
    MaxSent    \* a form

\* What is searched: the categories are the first library's.
DrawerOf == [c \in Drawers |-> Held]
Searches == [q : Words \cup {Nothing}, library : Libraries \cup {None},
             category : Drawers \cup {None}, narrow : BOOLEAN]

ASSUME ScreensAssumption ==
    /\ Held \in Libraries
    /\ {MaxWrites, MaxMade, MaxSent} \subseteq Nat
    /\ PageSize \in Nat \ {0} /\ Found \in [Searches -> Nat]
    /\ Unknown # Sent /\ {Unknown, Sent, Failed} \cap (Nat \cup {"none", "running", "failed", "done"}) = {}

\* One screen is explored at a time, so they share the variables; the tree of categories has
\* those of its module.
VARIABLES scene, v1, v2, v3, v4, v5, v6, v7, v8, v9, v10, v11, v12

Unused == "unused"
shared == <<v1, v2, v3, v4, v5, v6, v7, v8, v9, v10, v11, v12>>
all    == <<scene, vars, shared>>

E == INSTANCE Edits WITH
         held <- v1, seen <- v2, stale <- v3, reading <- v4, field <- v5, patches <- v6,
         hearts <- v7, title <- v8, pressed <- v9, sent <- v10, marked <- v11, mishaps <- v12,
         Titles <- {FirstTitle, SecondTitle}

C == INSTANCE TranscriptionCard WITH
         jobs <- v1, made <- v2, active <- v3, cache <- v4, out <- v5, asked <- v6,
         wanted <- v7, live <- v8, news <- v9, early <- v10, starts <- v11, mishaps <- v12

-----------------------------------------------------------------------------
\* A page with a search field, a button and a menu's; a menu whose row opens a dialog; that
\* dialog, with a listbox in it; and the upload dialog over them.
Surfaces == [search |-> "page", more |-> "page", add |-> "page", row |-> "menu",
             close |-> "dialog", ok |-> "dialog", pick |-> "dialog", list |-> "dialog",
             cross |-> "upload", go |-> "upload"]
Layers == {"menu", "dialog", "list", "upload"}
Levels == [page |-> {"page"}, menu |-> {"menu", "page"}, dialog |-> {"dialog", "page"},
           list |-> {"list", "dialog", "page"}, upload |-> {"upload", "page"}]
Controls == [menu |-> "more", dialog |-> "none", list |-> "pick", upload |-> "add"]
InOrder  == <<"search", "add", "more", "row", "close", "ok", "pick", "list", "cross", "go">>
CleanedInOrder == <<"menu", "list", "dialog", "upload">>
O == INSTANCE Overlays WITH
         open <- v1, heard <- v2, focus <- v3, returns <- v4, locked <- v5, before <- v6,
         gone <- v7, Nowhere <- "body", Page <- "page", Search <- "search",
         Stops <- DOMAIN Surfaces, Home <- Surfaces, Overlays <- Layers,
         Covers <- {"dialog", "upload"}, Around <- Levels, Document <- InOrder,
         Cleanups <- CleanedInOrder, Opener <- Controls, Marked <- {"ok"},
         Leads <- {<<"menu", "dialog">>}, Fleeting <- {"more"}

-----------------------------------------------------------------------------
S == INSTANCE Search WITH
         phone <- v1, path <- v2, url <- v3, behind <- v4, field <- v5, hits <- v6,
         offered <- v7, paging <- v8, shown <- v9, failed <- v10, gone <- v11,
         Categories <- Drawers, LibraryOf <- DrawerOf

F == INSTANCE Forms WITH
         form <- v1, place <- v2, words <- v3, follows <- v4, calls <- v5, sent <- v6, held <- v7,
         unsaid <- v8

K == INSTANCE Freshness WITH
         query <- v1, screen <- v2, copy <- v3, calls <- v4, truth <- v5, excused <- v6

-----------------------------------------------------------------------------
\* From the n-th on the variables are nobody's.
From8  == v8 = Unused /\ v9 = Unused /\ v10 = Unused /\ v11 = Unused
From9  == v9 = Unused /\ v10 = Unused /\ v11 = Unused
From12 == v12 = Unused
From1  == /\ v1 = Unused /\ v2 = Unused /\ v3 = Unused /\ v4 = Unused
          /\ v5 = Unused /\ v6 = Unused /\ v7 = Unused

ScreensInit ==
    /\ Init
    /\ \/ scene = "edits" /\ E!EditsInit
       \/ scene = "tree" /\ From1 /\ From8 /\ From12
       \/ scene = "card" /\ C!Init
       \/ scene = "overlays" /\ O!Init /\ From8 /\ From12
       \/ scene = "form" /\ F!Init /\ From9 /\ From12
       \/ scene = "cache" /\ K!Init /\ v7 = Unused /\ From8 /\ From12
       \/ scene = "search" /\ S!Init /\ From12
    /\ Existing = IF scene = "tree" THEN {1, 2} ELSE {}

Edited   == scene = "edits" /\ E!EditsNext /\ UNCHANGED <<scene, vars>>
Arranged == scene = "tree" /\ Next /\ UNCHANGED <<scene, shared>>
Shown    == scene = "card" /\ C!Next /\ UNCHANGED <<scene, vars>>
Overlaid == scene = "overlays" /\ O!Next
            /\ UNCHANGED <<scene, vars, v8, v9, v10, v11, v12>>
Kept     == scene = "cache" /\ K!Next /\ UNCHANGED <<scene, vars, v7, v8, v9, v10, v11, v12>>
Filled   == scene = "form" /\ F!Next /\ UNCHANGED <<scene, vars, v9, v10, v11, v12>>
Searched == scene = "search" /\ S!Next /\ UNCHANGED <<scene, vars, v12>>

ScreensSpec == ScreensInit /\ [][Edited \/ Arranged \/ Shown \/ Overlaid \/ Filled \/ Kept \/ Searched]_all

Symmetric == Permutations(Tags)

\* The card says nothing more once a read has failed, so it is not followed any further then.
Untroubled == scene = "card" => v12 = 0

\* One word finds three recordings and the other one, one fewer in a library, one fewer again
\* under a filter, and none in the category.
FoundHere ==
    [s \in Searches |->
        IF s.q = Nothing \/ s.category # None THEN 0
        ELSE (IF s.q = Frequent THEN 3 ELSE 1)
             - (IF s.library # None THEN 1 ELSE 0) - (IF s.narrow /\ s.q = Frequent THEN 1 ELSE 0)]

\* What the modules state, each of its own screen.
EditsInv  == scene = "edits" => E!EditsInv
LateAnswersInv ==
    /\ scene = "card" => C!CardInv
    /\ scene = "search" => S!SearchInv
    /\ scene = "form" => F!FormsInv
FreshInv == scene = "cache" => K!FreshInv
TagGoesForACause == [][scene = "edits" => E!TagGoes]_all
KeepsThePlace    == [][scene = "overlays" => O!StepKeepsThePlace]_all
=============================================================================
