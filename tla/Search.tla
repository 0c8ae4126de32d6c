--------------------------------- MODULE Search ---------------------------------
(***************************************************************************)
(* Searching: the field in the bar with its five quick hits, and the page  *)
(* of results with its filters and its pager.                              *)
(*                                                                         *)
(* features/search/, app/url-state.ts, and what AppShell.tsx makes of the  *)
(* field.  The address holds the search; the field, the page number and    *)
(* the rows still on screen are the browser's own, and no two of the four  *)
(* need agree.                                                             *)
(*                                                                         *)
(* Abstractions.  A word is a value; tags, states and the two ranges are   *)
(* one filter that is on or off.  An answer is how many recordings match;  *)
(* which ones is not told apart.                                           *)
(***************************************************************************)
EXTENDS Integers, SequencesExt

CONSTANTS
    Words,
    Nothing,        \* the empty field
    Libraries, Categories, LibraryOf,
    None,
    Found,          \* how many recordings match a search
    PageSize,
    MaxBehind,      \* bound on the addresses Back goes to
    MaxPage         \* bound on the pages turned

Paths    == {"search", "page", "recording"}
Searches == [q : Words \cup {Nothing}, library : Libraries \cup {None},
             category : Categories \cup {None}, narrow : BOOLEAN]

VARIABLES
    phone,      \* which of the two shells
    path,       \* "search", or another page
    url,        \* what the address asks for, on the search page
    behind,     \* the addresses Back goes to
    field,      \* what is in the bar
    hits,       \* the page the dropdown was opened on
    offered,    \* the word its rows answer
    paging,     \* the page, and the search it is a page of
    shown,      \* the answer on screen
    failed,     \* the question on screen could not be answered
    gone        \* how many of what matches have gone to the trash

vars == <<phone, path, url, behind, field, hits, offered, paging, shown, failed, gone>>

-----------------------------------------------------------------------------
Plain(w) == [q |-> w, library |-> None, category |-> None, narrow |-> FALSE]

\* The page drawn, and the question it is the answer to.
PageDrawnVariant == paging.page   \* whatever it is a page of
PageDrawn == IF paging.of = url THEN paging.page ELSE 0
Asks == path = "search" /\ url.q # Nothing

\* Rows stay until others come: the last answer there was.
Current    == shown # None /\ shown.of = url /\ shown.page = PageDrawn
Rows(a)    == LET left == a.total - a.page * PageSize IN
              IF left < 0 THEN 0 ELSE IF left > PageSize THEN PageSize ELSE left
HasMore(a) == a.page * PageSize + Rows(a) < a.total
Total      == IF shown = None \/ (failed /\ ~Current) THEN 0 ELSE shown.total
Paginated  == Total > PageSize
SaysNothingMatched == Asks /\ ~failed /\ shown # None /\ Rows(shown) = 0

\* What would be found by asking now.
Matching(s) == IF Found[s] > gone THEN Found[s] - gone ELSE 0

-----------------------------------------------------------------------------
Init ==
    /\ phone \in BOOLEAN
    /\ path = "page" /\ url = Plain(Nothing) /\ behind = <<>>
    /\ field = Nothing /\ hits = None /\ offered = None
    /\ paging = [of |-> None, page |-> 0, blind |-> FALSE]
    /\ shown = None /\ failed = FALSE
    /\ gone = 0

\* The page of results is drawn anew: no page number, no rows.
Anew ==
    /\ paging' = [of |-> None, page |-> 0, blind |-> FALSE]
    /\ shown' = None

Goes(to, s) ==
    /\ path' = to /\ url' = s
    /\ offered' = None
    /\ failed' = FALSE
    /\ IF to = path THEN UNCHANGED <<paging, shown>> ELSE Anew

Push(to, s) ==
    /\ Len(behind) < MaxBehind
    /\ behind' = Append(behind, [path |-> path, url |-> url])
    /\ Goes(to, s)

Replace(to, s) == Goes(to, s) /\ UNCHANGED behind

-----------------------------------------------------------------------------
(* The field in the bar *)

HitsOpen == hits = path

\* On the search page it is the search, the filters aside; anywhere else it
\* opens the dropdown.
Type(w) ==
    /\ ~phone /\ w # field
    /\ field' = w
    /\ IF path = "search"
       THEN Replace("search", Plain(w)) /\ UNCHANGED hits
       ELSE /\ IF w = Nothing THEN hits' = None /\ offered' = None
                              ELSE hits' = path /\ UNCHANGED offered
            /\ UNCHANGED <<path, url, behind, paging, shown, failed>>
    /\ UNCHANGED <<phone, gone>>

Submit ==
    /\ ~phone
    /\ hits' = None
    /\ IF path = "search" THEN Replace("search", Plain(field)) ELSE Push("search", Plain(field))
    /\ UNCHANGED <<phone, field, gone>>

\* The dropdown's rows: the last word's until this one's come.
HitsCome ==
    /\ HitsOpen /\ offered # field
    /\ offered' = field
    /\ UNCHANGED <<phone, path, url, behind, field, hits, paging, shown, failed, gone>>

Dropped == HitsOpen /\ offered # None /\ Matching(Plain(offered)) > 0

Dismiss ==
    /\ HitsOpen
    /\ hits' = None /\ offered' = None
    /\ UNCHANGED <<phone, path, url, behind, field, paging, shown, failed, gone>>

SeeAll ==
    /\ Dropped
    /\ hits' = None
    /\ Push("search", Plain(field))
    /\ UNCHANGED <<phone, field, gone>>

OpenHit ==
    /\ Dropped
    /\ hits' = None
    /\ Push("recording", Plain(Nothing))
    /\ UNCHANGED <<phone, field, gone>>

\* The sidebar, the tabs, a result pressed.  The field keeps its word, and the
\* dropdown its page.
Travel(to) ==
    /\ Push(to, Plain(Nothing))
    /\ UNCHANGED <<phone, field, hits, gone>>

Back ==
    /\ behind # <<>>
    /\ behind' = Front(behind)
    /\ Goes(Last(behind).path, Last(behind).url)
    /\ UNCHANGED <<phone, field, hits, gone>>

-----------------------------------------------------------------------------
(* The page of results *)

Filter(s) ==
    /\ path = "search" /\ s # url
    /\ Replace("search", s)
    /\ UNCHANGED <<phone, field, hits, gone>>

TypeOnPage(w) == phone /\ Filter([url EXCEPT !.q = w])

\* A category means something in its own library only.
ChooseLibraryVariant(l) == Filter([url EXCEPT !.library = l])
ChooseLibrary(l) == Filter([url EXCEPT !.library = l, !.category = None])

ChooseCategory(c) ==
    /\ url.library # None
    /\ c # None => LibraryOf[c] = url.library
    /\ Filter([url EXCEPT !.category = c])

Narrow == Filter([url EXCEPT !.narrow = ~@])

\* On the phone's sheet: all but the word and the library.
ClearFilters ==
    /\ phone
    /\ Filter([url EXCEPT !.category = None, !.narrow = FALSE])

Answer ==
    /\ Asks
    /\ shown' = [of |-> url, page |-> PageDrawn, total |-> Matching(url)]
    /\ failed' = FALSE
    /\ UNCHANGED <<phone, path, url, behind, field, hits, offered, paging, gone>>

Refuse ==
    /\ Asks
    /\ failed' = TRUE
    /\ UNCHANGED <<phone, path, url, behind, field, hits, offered, paging, shown, gone>>

\* Next and Previous go by the rows on screen, which may be another search's
\* or another page's.
TurnTo(p) ==
    /\ path = "search" /\ Paginated
    /\ paging' = [of |-> url, page |-> p,
                  blind |-> ~Current \/ (paging.of = url /\ paging.blind)]
    /\ failed' = FALSE
    /\ UNCHANGED <<phone, path, url, behind, field, hits, offered, shown, gone>>

TurnBack == PageDrawn > 0 /\ TurnTo(PageDrawn - 1)
TurnOn   == shown # None /\ HasMore(shown) /\ PageDrawn < MaxPage /\ TurnTo(PageDrawn + 1)

\* Elsewhere a recording goes to the trash.
Goner ==
    /\ gone = 0 /\ gone' = 1
    /\ UNCHANGED <<phone, path, url, behind, field, hits, offered, paging, shown, failed>>

-----------------------------------------------------------------------------
Bar     == \/ \E w \in Words \cup {Nothing} : Type(w)
           \/ Submit \/ HitsCome \/ Dismiss \/ SeeAll \/ OpenHit
Filters == \/ \E w \in Words \cup {Nothing} : TypeOnPage(w)
           \/ \E l \in Libraries \cup {None} : ChooseLibrary(l)
           \/ \E c \in Categories \cup {None} : ChooseCategory(c)
           \/ Narrow \/ ClearFilters
Next    == \/ Bar \/ Filters
           \/ \E to \in Paths : Travel(to)
           \/ Back \/ Answer \/ Refuse \/ TurnBack \/ TurnOn \/ Goner

Spec == Init /\ [][Next]_vars

-----------------------------------------------------------------------------
(* Properties *)

TypeOK ==
    /\ phone \in BOOLEAN /\ path \in Paths /\ url \in Searches
    /\ behind \in Seq([path : Paths, url : Searches])
    /\ field \in Words \cup {Nothing} /\ hits \in Paths \cup {None}
    /\ offered \in Words \cup {Nothing, None}
    /\ paging \in [of : Searches \cup {None}, page : Nat, blind : BOOLEAN]
    /\ shown = None \/ shown \in [of : Searches, page : Nat, total : Nat]
    /\ failed \in BOOLEAN
    /\ gone \in {0, 1}

\* The address never asks for one library's category in another, wherever the
\* filters were changed and however often Back was pressed (SearchFilters.tsx:71).
CategoryInItsLibrary ==
    \A s \in {url} \cup {behind[i].url : i \in 1..Len(behind)} :
        s.category # None => LibraryOf[s.category] = s.library

\* The page says that nothing matched when something does only while another
\* search's answer still stands, once a recording has gone, or after Next was
\* pressed over rows that were not this page's, which turns past the end.
NothingMatchedForACause ==
    SaysNothingMatched =>
        \/ ~Current
        \/ Found[url] = 0 \/ gone > 0
        \/ paging.of = url /\ paging.blind

SearchInv == TypeOK /\ CategoryInItsLibrary /\ NothingMatchedForACause
=============================================================================
