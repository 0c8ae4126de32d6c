------------------------------ MODULE Library ------------------------------
(***************************************************************************)
(* A library on screen: its rows, what is ticked in them, and the bulk     *)
(* actions run over what is ticked.                                        *)
(*                                                                         *)
(* src/frontend/src/features/library: LibraryView.tsx holds the selection  *)
(* and the rows; use-bulk.ts and bulk.ts make one request per recording, a *)
(* few at a time, and report in a toast; recordings.ts and api/paged.ts    *)
(* read the rows.  FavouritesView.tsx is the same machinery over another   *)
(* source.  The instance is modelled by what the requests do to it: where  *)
(* a recording is and which tags it carries.  A recording is a number, in  *)
(* the order the list is sorted in.                                        *)
(***************************************************************************)
EXTENDS Integers, FiniteSets, Functions

CONSTANTS
    Recordings,   \* the recordings of the library, numbered in the list's order
    Tags,
    Filters,      \* the queries the filter bar can ask
    Matching,     \* which recordings each of them matches
    PageSize,     \* rows a request answers with
    Concurrency,  \* requests of one run that are in flight together
    MaxRuns,      \* bound: runs of an action
    MaxMishaps    \* bound: changes made by somebody else, requests refused, and answers lost

ASSUME LibraryAssumption ==
    /\ Recordings \subseteq Nat /\ IsFiniteSet(Recordings)
    /\ Matching \in [Filters -> SUBSET Recordings]
    /\ Filters \cap {"everything", "kept", "nothing"} = {}   \* no query has the name of what is not one
    /\ {PageSize, Concurrency} \subseteq Nat \ {0}
    /\ {MaxRuns, MaxMishaps} \subseteq Nat

VARIABLES
    place,        \* where the instance has each recording
    tags,         \* the tags it holds for each
    filter,       \* the filters in the URL
    pages,        \* how many pages the grid holds of each query
    kept,         \* the rows of the query before, kept on screen until this one answers
    rows,         \* the rows cached for each query: recording -> tags as read
    stale,        \* the queries whose cached rows a change has invalidated
    everything,   \* what the second select-all step fetched, and for which query
    selected,     \* the ticked recordings
    runs,         \* the runs under way
    bar,          \* what the bar believes is running: a kind, or nothing
    toast,        \* the toast showing
    started, mishaps,   \* counts against the bounds
    behind        \* history: what was read before a change that nothing invalidates it for

server == <<place, tags>>
view   == <<filter, pages, kept>>
cache  == <<rows, stale, behind>>
counts == <<started, mishaps>>
vars   == <<server, view, cache, everything, selected, runs, bar, toast, counts>>

NoToast == [kind |-> "none"]
Nothing == "nothing"   \* no query, no tag, no run of the bar's

(***************************************************************************)
(* What the instance answers                                               *)
(***************************************************************************)
Listed(q) == {r \in Matching[q] : place[r] = "here"}

\* The first n rows of a set of recordings, in the list's order.
First(n, S) == {r \in S : Cardinality({o \in S : o < r}) < n}

\* One page of a source: the rows after an offset, as they are at this moment.
Window(q, offset, size) ==
    [r \in First(offset + size, Listed(q)) \ First(offset, Listed(q)) |-> tags[r]]

(***************************************************************************)
(* What is on screen                                                       *)
(***************************************************************************)
NotRead  == [r \in {0} |-> {}]
Read(q)  == rows[q] # NotRead

\* The rows of the query asked, and until its first page has answered those that were on screen
\* before.  They can be ticked and pressed like any others.
items    == IF Read(filter) THEN rows[filter] ELSE kept.items
asked    == IF Read(filter) THEN filter ELSE kept.query
order    == DOMAIN items

\* What a run can be given: the rows in hand, or all that was fetched for this query.
pool     == IF everything.query = filter THEN everything.items ELSE items
given    == DOMAIN pool \cap selected

\* What can be ticked.  The grid draws what was fetched; the dense list windows over the whole
\* library, on a cache of its own.
drawn    == IF asked # Nothing THEN Listed(asked) \cup order ELSE {}

hasMore  == Read(filter) /\ pages[filter] * PageSize < Cardinality(Listed(filter))

\* A page that was read, put over the rows in hand.
Joined(next, held) ==
    [r \in DOMAIN next \cup DOMAIN held |-> IF r \in DOMAIN next THEN next[r] ELSE held[r]]

\* With rows of its own the query on screen lets go of the ones before.
NoneKept == [query |-> Nothing, items |-> [r \in {} |-> {}]]

Refetch(q) ==
    /\ kept' = IF q = filter THEN NoneKept ELSE kept
    /\ rows' = [rows EXCEPT ![q] = Window(q, 0, pages[q] * PageSize)]
    /\ stale' = stale \ {q}
    /\ behind' = behind \ (IF q = filter THEN {q, "kept"} ELSE {q})

(***************************************************************************)
(* A run                                                                   *)
(***************************************************************************)
\* runBulk: the queue, the requests in flight, what succeeded and what failed.  The rows it was
\* handed are the ones it reads tags from, however long it takes.  `Concurrency` workers each take
\* the next of the queue as soon as their last request is answered.
Run(kind, tag, copy, source) ==
    [id |-> started, kind |-> kind, tag |-> tag, copy |-> copy,
     flying |-> First(Concurrency, DOMAIN copy),
     todo |-> DOMAIN copy \ First(Concurrency, DOMAIN copy),
     ok |-> {}, bad |-> {}, awaiting |-> Nothing,
     sound |-> source \notin stale \cup behind \cup {"toast"} /\ runs = {}]

\* History: a run stops being alone when another starts, or when somebody else edits.
Disturbed(rs) == {[run EXCEPT !.sound = FALSE] : run \in rs}

Begin(run) ==
    /\ started < MaxRuns /\ started' = started + 1
    /\ runs' = Disturbed(runs) \cup {run}
    /\ bar' = run.kind
    /\ toast' = IF toast.kind = "retry" THEN NoToast ELSE toast
    /\ UNCHANGED mishaps

(***************************************************************************)
(* The bulk bar                                                            *)
(***************************************************************************)
Source == CASE everything.query = filter -> "everything"
            [] everything.query # filter /\ Read(filter) -> filter
            [] OTHER -> "kept"

\* A run over nothing, when none of what is ticked is in the pool, reports at once.
Press(kind, tag) ==
    /\ selected # {} /\ bar = Nothing
    /\ IF given # {}
       THEN Begin(Run(kind, tag, [r \in given |-> IF kind = "tag" THEN pool[r] ELSE {}], Source))
            /\ UNCHANGED selected
       ELSE selected' = {} /\ toast' = NoToast /\ UNCHANGED <<runs, bar, counts>>
    /\ UNCHANGED <<server, view, cache, everything>>

AddTag == \E tag \in Tags : Press("tag", tag)
Move   == Press("move", Nothing)
Trash  == Press("trash", Nothing)

\* The new tag alone, and not the list it belongs to.
CarriedAlone(run, r) ==
    CASE run.kind = "tag"     -> /\ tags' = [tags EXCEPT ![r] =
                                      {run.tag}]
                                 /\ UNCHANGED place
      [] run.kind = "move"    -> place' = [place EXCEPT ![r] = "away"] /\ UNCHANGED tags
      [] run.kind = "trash"   -> place' = [place EXCEPT ![r] = "trash"] /\ UNCHANGED tags
      [] run.kind = "restore" -> place' = [place EXCEPT ![r] = "here"] /\ UNCHANGED tags

\* What the request of one recording does to it.  A tag goes as the whole list: what was read,
\* and this one.  One already there sends nothing.
Carried(run, r) ==
    CASE run.kind = "tag"     -> /\ tags' = [tags EXCEPT ![r] =
                                      IF run.tag \in run.copy[r] THEN @
                                      ELSE run.copy[r] \cup {run.tag}]
                                 /\ UNCHANGED place
      [] run.kind = "move"    -> place' = [place EXCEPT ![r] = "away"] /\ UNCHANGED tags
      [] run.kind = "trash"   -> place' = [place EXCEPT ![r] = "trash"] /\ UNCHANGED tags
      [] run.kind = "restore" -> place' = [place EXCEPT ![r] = "here"] /\ UNCHANGED tags

\* A recording that carries the tag already, in the rows the run was handed, is sent nothing of.
Sends(run, r) == run.kind = "tag" => run.tag \notin run.copy[r]

\* Whether the instance takes it: a recording in the trash is not edited, moved or trashed.
Takes(run, r) ==
    IF run.kind = "restore" THEN place[r] = "trash" ELSE place[r] # "trash"

\* `say`: a success goes on its own, with an Undo after a trash; a failure offers a Retry of the
\* same action over what failed, with the rows the first run was handed.
Said(run) ==
    IF run.bad # {} THEN [kind |-> "retry", of |-> run.kind, tag |-> run.tag,
                             copy |-> Restrict(run.copy, run.bad)]
    ELSE IF run.kind = "trash" THEN [kind |-> "undo", of |-> run.ok]
    ELSE NoToast

Report(run) ==
    /\ bar' = Nothing
    /\ selected' = selected \cap run.bad
    /\ toast' = Said(run)

\* A run that tells the cache only of the query on screen.
LandedOnScreen(others, run, missed) ==
    LET next == First(1, run.todo)
        went == [run EXCEPT !.todo = @ \ next, !.flying = @ \cup next]
    IN CASE went.flying # {} ->
              /\ runs' = others \cup {went} /\ behind' = behind \cup missed
              /\ UNCHANGED <<stale, bar, selected, toast>>
         [] went.flying = {} /\ run.ok # {} ->
              /\ runs' = others \cup {[run EXCEPT !.awaiting = filter]}
              /\ stale' = stale \cup {filter} /\ behind' = behind \cup missed \cup {"everything", "kept"}
              /\ UNCHANGED <<bar, selected, toast>>
         [] OTHER ->
              /\ runs' = others /\ behind' = behind \cup missed
              /\ Report(run) /\ UNCHANGED stale

\* The worker goes on to the next of the queue.  After the last answer the cache is told once, and
\* the run waits for the rows on screen to be read again; when nothing succeeded it reports at once.
Landed(others, run, missed) ==
    LET next == First(1, run.todo)
        went == [run EXCEPT !.todo = @ \ next, !.flying = @ \cup next]
    IN CASE went.flying # {} ->
              /\ runs' = others \cup {went} /\ behind' = behind \cup missed
              /\ UNCHANGED <<stale, bar, selected, toast>>
         [] went.flying = {} /\ run.ok # {} ->
              /\ runs' = others \cup {[run EXCEPT !.awaiting = filter]}
              /\ stale' = Filters /\ behind' = behind \cup missed \cup {"everything", "kept"}
              /\ UNCHANGED <<bar, selected, toast>>
         [] OTHER ->
              /\ runs' = others /\ behind' = behind \cup missed
              /\ Report(run) /\ UNCHANGED stale

Succeeded(run, r) == [run EXCEPT !.flying = @ \ {r}, !.ok = @ \cup {r}]
Failed(run, r)    == [run EXCEPT !.flying = @ \ {r}, !.bad = @ \cup {r}]

Answered(run, r) ==
    /\ Sends(run, r) => Takes(run, r)
    /\ Carried(run, r)
    /\ Landed(runs \ {run}, Succeeded(run, r), {})
    /\ UNCHANGED <<rows, view, everything, counts>>

Refused(run, r) ==
    /\ Sends(run, r)
    /\ \/ ~Takes(run, r) /\ UNCHANGED mishaps
       \/ mishaps < MaxMishaps /\ mishaps' = mishaps + 1
    /\ Landed(runs \ {run}, Failed(run, r), {})
    /\ UNCHANGED <<rows, server, view, everything, started>>

\* Carried out, and the answer never came: the page is told that it failed.
Lost(run, r) ==
    /\ mishaps < MaxMishaps /\ mishaps' = mishaps + 1
    /\ Sends(run, r) /\ Takes(run, r) /\ Carried(run, r)
    /\ Landed(Disturbed(runs \ {run}), Failed(run, r), Filters \cup {"everything", "kept"})
    /\ UNCHANGED <<rows, view, everything, started>>

Settle(run) ==
    /\ run.awaiting # Nothing
    /\ Refetch(run.awaiting)
    /\ runs' = runs \ {run} /\ Report(run)
    /\ UNCHANGED <<server, filter, pages, everything, counts>>

\* A refetch that fails rejects nothing: the rows stay as they were, and the run reports.
SettleFails(run) ==
    /\ run.awaiting # Nothing
    /\ mishaps < MaxMishaps /\ mishaps' = mishaps + 1
    /\ runs' = runs \ {run} /\ Report(run)
    /\ UNCHANGED <<server, view, cache, everything, started>>

(***************************************************************************)
(* The toast                                                               *)
(***************************************************************************)
Undo ==
    /\ toast.kind = "undo"
    /\ started < MaxRuns /\ started' = started + 1
    /\ runs' = Disturbed(runs) \cup
               {Run("restore", Nothing, [r \in toast.of |-> {}], "toast")}
    /\ bar' = "restore" /\ toast' = NoToast
    /\ UNCHANGED <<server, view, cache, everything, selected, mishaps>>

Retry ==
    /\ toast.kind = "retry"
    /\ Begin(Run(toast.of, toast.tag, toast.copy, "toast"))
    /\ UNCHANGED <<server, view, cache, everything, selected>>

Dismiss ==
    /\ toast # NoToast /\ toast' = NoToast
    /\ UNCHANGED <<server, view, cache, everything, selected, runs, bar, counts>>

(***************************************************************************)
(* Ticking                                                                 *)
(***************************************************************************)
Tick ==
    /\ \E r \in drawn :
        selected' = IF r \in selected THEN selected \ {r} ELSE selected \cup {r}
    /\ UNCHANGED <<server, view, cache, everything, runs, bar, toast, counts>>

\* From a ticked row to another, in the order of the rows in hand.
Extend ==
    /\ \E from \in order \cap selected, to \in order :
        selected' = selected \cup {r \in order : \/ from <= r /\ r <= to
                                                 \/ to <= r /\ r <= from}
    /\ UNCHANGED <<server, view, cache, everything, runs, bar, toast, counts>>

\* The header checkbox, and Escape.
SelectAll ==
    /\ selected # {} /\ selected' \in {order, {}}
    /\ UNCHANGED <<server, view, cache, everything, runs, bar, toast, counts>>

\* Every recording the filter matches, offered once all the rows in hand are ticked and the filter
\* of these matches more.  The answer is kept for the query it was asked for, and
\* what is ticked is what it holds.
SelectEverything ==
    /\ order # {} /\ order \subseteq selected
    /\ Cardinality(Listed(asked)) > Cardinality(selected)
    /\ everything' = [query |-> filter, items |-> Window(filter, 0, Cardinality(Listed(filter)))]
    /\ selected' = Listed(filter)
    /\ behind' = IF runs = {} THEN behind \ {"everything"} ELSE behind \cup {"everything"}
    /\ UNCHANGED <<server, view, rows, stale, runs, bar, toast, counts>>

(***************************************************************************)
(* Reading                                                                 *)
(***************************************************************************)
\* The rows on screen stay there, as they are, until the query that comes on has some.
SetFilter ==
    /\ \E q \in Filters \ {filter} :
        /\ filter' = q
        /\ IF Read(filter) /\ ~Read(q)
           THEN /\ kept' = [query |-> filter, items |-> rows[filter]]
                /\ behind' = IF filter \in stale \cup behind
                             THEN behind \cup {"kept"} ELSE behind \ {"kept"}
           ELSE UNCHANGED <<kept, behind>>
    /\ UNCHANGED <<pages, server, rows, stale, everything, selected, runs, bar, toast, counts>>

\* A query that comes on screen unread or stale is read; one on screen may be read at any time.
ReadRows ==
    /\ Refetch(filter)
    /\ UNCHANGED <<server, filter, pages, everything, selected, runs, bar, toast, counts>>

\* The next page starts where the rows in hand end; rows known to be stale are read again first.
FetchMore ==
    /\ hasMore
    /\ pages' = [pages EXCEPT ![filter] = @ + 1]
    /\ LET q == filter
           next == Window(q, pages[q] * PageSize, PageSize) IN
       IF q \in stale
       THEN /\ rows' = [rows EXCEPT ![q] = Window(q, 0, (pages[q] + 1) * PageSize)]
            /\ stale' = stale \ {q} /\ behind' = behind \ {q}
       ELSE /\ rows' = [rows EXCEPT ![q] = Joined(next, @)]
            /\ UNCHANGED <<stale, behind>>
    /\ UNCHANGED <<filter, kept, server, everything, selected, runs, bar, toast, counts>>

(***************************************************************************)
(* Somebody else                                                           *)
(***************************************************************************)
Elsewhere ==
    /\ mishaps < MaxMishaps /\ mishaps' = mishaps + 1
    /\ \/ \E r \in Recordings, tag \in Tags :
            /\ tags' = [tags EXCEPT ![r] = @ \cup {tag}] /\ tags' # tags
            /\ UNCHANGED place
       \/ \E r \in Recordings :
            /\ place' = [place EXCEPT ![r] = IF @ = "here" THEN "trash" ELSE "here"]
            /\ UNCHANGED tags
    /\ behind' = Filters \cup {"everything", "kept"}
    /\ runs' = Disturbed(runs)
    /\ UNCHANGED <<view, rows, stale, everything, selected, bar, toast, started>>

(***************************************************************************)
(* The specification                                                       *)
(***************************************************************************)
Init ==
    /\ place = [r \in Recordings |-> "here"]
    /\ tags = [r \in Recordings |-> {}]
    /\ filter \in Filters /\ pages = [q \in Filters |-> 1]
    /\ rows = [q \in Filters |-> NotRead] /\ stale = {} /\ behind = {}
    /\ kept = NoneKept
    /\ everything = [query |-> Nothing]
    /\ selected = {}
    /\ runs = {} /\ bar = Nothing /\ toast = NoToast
    /\ started = 0 /\ mishaps = 0

Progress ==
    \E run \in runs :
        \/ \E r \in run.flying : Answered(run, r) \/ Refused(run, r) \/ Lost(run, r)
        \/ Settle(run) \/ SettleFails(run)

Next ==
    \/ AddTag \/ Move \/ Trash \/ Undo \/ Retry \/ Dismiss
    \/ Tick \/ Extend \/ SelectAll \/ SelectEverything
    \/ SetFilter \/ ReadRows \/ FetchMore
    \/ Elsewhere
    \/ Progress

Spec == Init /\ [][Next]_vars

(***************************************************************************)
(* Properties                                                              *)
(***************************************************************************)
\* Rows that no change has invalidated, and that nobody else's change has overtaken, say what the
\* instance holds: a run does not let the bar go before the rows it changed are read again, the
\* rows of a query that was off the screen meanwhile are known to be stale, and a read that fails
\* leaves them so (use-bulk.ts run, invalidate.ts).
RowsAreCurrent ==
    runs = {} => \A q \in Filters \ (stale \cup behind) : Read(q) =>
        \A r \in DOMAIN rows[q] : place[r] = "here" /\ rows[q][r] = tags[r]

\* A tag comes off a recording only for a cause: the run that took it off was handed rows read
\* before a change -- its own page's stale rows, or everything fetched before an earlier run --
\* or something else was changing the library while it ran (use-bulk.ts addTag).
StripsForACause ==
    [][\A r \in Recordings : tags[r] \subseteq tags'[r] \/
          \E run \in runs : r \in run.flying /\ run.kind = "tag" /\ ~run.sound]_vars

\* "Sending only the new tag would silently strip every tag" (use-bulk.ts:9-12): adding a tag
\* takes none off.  It does, once everything was selected and the first run has ended: what was
\* fetched then is read again by nobody.
AddingStripsNothing == [][\A r \in Recordings : tags[r] \subseteq tags'[r]]_vars
=============================================================================
