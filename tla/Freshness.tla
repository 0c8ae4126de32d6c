------------------------------- MODULE Freshness -------------------------------
(***************************************************************************)
(* What the browser's cache calls fresh while the page writes: a copy read *)
(* by the screens that come and go, and told of writes when their answers  *)
(* arrive (api/invalidate.ts, api/query-client.ts).                        *)
(*                                                                         *)
(* Copies do not affect one another, so one is followed: `query` is its    *)
(* key.  What it holds is the number of the page's writes it has seen, of  *)
(* those that change it; writes that neither change nor reach it are left  *)
(* out (Staleness!Felt).  Which screen a write is made from is left out    *)
(* too, save where its answer depends on the screen: the person may be     *)
(* anywhere by then.                                                       *)
(***************************************************************************)
EXTENDS Integers, FiniteSets

CONSTANTS
    Queries,        \* the keys
    Frame,          \* what the frame around every screen reads
    Screens,        \* where one may go, for each key
    Reader,         \* the screens that read it
    Felt,           \* the writes that change or reach it
    Trashing,       \* and trashing the recording
    Shelf,          \* the library it is in
    Nowhere,
    MaxWrites       \* bound on the writes

VARIABLES
    query,          \* the key of the copy that is followed
    screen,
    copy,
    calls,          \* writes the page has no answer to
    truth,          \* how many of its writes have changed what the copy is of
    excused         \* history: the ones the cache was never told of, or had to forget

vars == <<query, screen, copy, calls, truth, excused>>

NotRead == -1

-----------------------------------------------------------------------------
(* The copy *)

On(s) == s \in Reader[query]

Ask(c)     == [c EXCEPT !.phase = "asked", !.failed = FALSE, !.crossed = FALSE]
AskIdle(c) == IF c.phase = "idle" THEN Ask(c) ELSE c

InvalidatedVariant(c, on) ==   \* what is on its way is good enough
    IF c.phase = "idle"
    THEN LET m == [c EXCEPT !.marked = TRUE] IN IF on THEN Ask(m) ELSE m
    ELSE [c EXCEPT !.marked = TRUE]

\* On the screen a copy is read again, from the beginning if it was being read; a first load goes
\* on, and so does one for a screen that is gone, and the mark goes when it comes.
Invalidated(c, on) ==
    IF c.phase = "idle" \/ (on /\ c.read # NotRead)
    THEN LET m == [c EXCEPT !.marked = TRUE] IN IF on THEN Ask(m) ELSE m
    ELSE [c EXCEPT !.marked = TRUE, !.crossed = @ \/ c.phase = "carried"]

\* A screen reads what it has no copy of, what is marked, and what is half a minute old.
Mounted(c, s, old) == IF On(s) /\ (c.read = NotRead \/ c.marked \/ old) THEN AskIdle(c) ELSE c

Init ==
    /\ query \in Queries
    /\ screen = [name |-> "home", of |-> Nowhere]
    /\ copy = [read |-> NotRead, marked |-> FALSE, failed |-> FALSE, sample |-> 0, crossed |-> FALSE,
               phase |-> IF On(screen) THEN "asked" ELSE "idle"]
    /\ calls = {} /\ truth = 0 /\ excused = {}

\* Trashing waits for its answer on the page of the recording, and only there.
Elsewhere(cs) == {IF c.page = "here" THEN [c EXCEPT !.page = "gone"] ELSE c : c \in cs}

Visit(s) ==
    /\ s # screen
    /\ screen' = s
    /\ \E old \in BOOLEAN : copy' = Mounted(copy, s, old)
    /\ calls' = Elsewhere(calls)
    /\ UNCHANGED <<query, truth, excused>>

-----------------------------------------------------------------------------
(* Writes *)

FreeId == CHOOSE i \in 1..MaxWrites : \A c \in calls : c.id # i

\* `page` is whether the one that waits for the answer is still there; none does if it is "any".
Call(w, page) ==
    /\ Cardinality(calls) + truth < MaxWrites
    /\ calls' = calls \cup {[id |-> FreeId, write |-> w, n |-> 0, done |-> FALSE, page |-> page]}
    /\ UNCHANGED <<query, screen, copy, truth, excused>>

\* A check of the provider is not asked for twice.
Press(w) == (w.replaces => \A c \in calls : ~c.write.replaces) /\ Call(w, "any")

\* From the recording's own page, where its library is known, trashing it leaves the page.
Trash ==
    /\ screen.name = "recording"
    /\ Trashing[query] \in Felt[query]
    /\ Call(Trashing[query], "here")

CarryOut(c) ==
    /\ ~c.done
    /\ LET n == IF c.write.changes THEN truth + 1 ELSE 0 IN
       /\ truth' = IF c.write.changes THEN n ELSE truth
       /\ calls' = (calls \ {c}) \cup {[c EXCEPT !.done = TRUE, !.n = n]}
       /\ excused' = IF n > 0 /\ c.write.overlooked THEN excused \cup {n} ELSE excused
    /\ UNCHANGED <<query, screen, copy>>

Refused(c) ==
    /\ ~c.done
    /\ calls' = calls \ {c}
    /\ copy' = IF c.write.settles THEN Invalidated(copy, On(screen)) ELSE copy
    /\ UNCHANGED <<query, screen, truth, excused>>

\* The answer of a check of the provider replaces the copy, whatever is on its way.
Told(c) ==
    IF c.write.replaces
    THEN [copy EXCEPT !.read = c.n, !.marked = FALSE, !.failed = FALSE, !.crossed = @ \/ copy.phase = "carried"]
    ELSE IF c.write.reaches THEN Invalidated(copy, On(screen)) ELSE copy

Answered(c) ==
    /\ c.done /\ c.page = "any"
    /\ calls' = calls \ {c}
    /\ copy' = Told(c)
    /\ UNCHANGED <<query, screen, truth, excused>>

\* The cache is told as the page goes.  Gone already, nobody tells it, and the person is taken to the
\* library from wherever they are.
Leaves(c) ==
    /\ c.done /\ c.page # "any"
    /\ \E old \in BOOLEAN :
         LET k == IF c.page = "here" /\ c.write.reaches THEN Invalidated(copy, query \in Frame) ELSE copy
         IN  screen' = Shelf /\ copy' = IF Shelf = screen THEN k ELSE Mounted(k, Shelf, old)
    /\ calls' = Elsewhere(calls \ {c})
    /\ excused' = IF c.page = "here" \/ c.n = 0 THEN excused ELSE excused \cup {c.n}
    /\ UNCHANGED <<query, truth>>

\* No answer comes.  Only a bulk destruction tells the cache whatever comes of it.
Lost(c) ==
    /\ c.done
    /\ calls' = calls \ {c}
    /\ IF c.write.settles
       THEN copy' = Invalidated(copy, On(screen)) /\ UNCHANGED excused
       ELSE copy' = copy /\ excused' = IF c.n = 0 THEN excused ELSE excused \cup {c.n}
    /\ UNCHANGED <<query, screen, truth>>

-----------------------------------------------------------------------------
(* Reads *)

Sample ==
    /\ copy.phase = "asked"
    /\ copy' = [copy EXCEPT !.phase = "carried", !.sample = truth]
    /\ UNCHANGED <<query, screen, calls, truth, excused>>

Arrive ==
    /\ copy.phase = "carried"
    /\ copy' = [copy EXCEPT !.phase = "idle", !.read = copy.sample, !.sample = 0, !.marked = FALSE,
                            !.failed = FALSE, !.crossed = FALSE]
    /\ excused' = IF copy.crossed THEN excused \cup ((copy.sample + 1)..truth) ELSE excused
    /\ UNCHANGED <<query, screen, calls, truth>>

ReadFails ==
    /\ copy.phase # "idle"
    /\ copy' = [copy EXCEPT !.phase = "idle", !.sample = 0, !.marked = TRUE, !.failed = TRUE,
                            !.crossed = FALSE]
    /\ UNCHANGED <<query, screen, calls, truth, excused>>

\* The window is looked at again, or a poll is due.
Again ==
    /\ On(screen) /\ copy.phase = "idle"
    /\ copy' = Ask(copy)
    /\ UNCHANGED <<query, screen, calls, truth, excused>>

\* Five minutes off the screen.
Forget ==
    /\ ~On(screen) /\ copy.phase = "idle" /\ copy.read # NotRead
    /\ copy' = [copy EXCEPT !.read = NotRead, !.marked = FALSE, !.failed = FALSE]
    /\ UNCHANGED <<query, screen, calls, truth, excused>>

Next ==
    \/ \E s \in Screens[query] : Visit(s)
    \/ Trash \/ \E w \in Felt[query] : Press(w)
    \/ \E c \in calls : CarryOut(c) \/ Refused(c) \/ Answered(c) \/ Leaves(c) \/ Lost(c)
    \/ Sample \/ Arrive \/ ReadFails \/ Again \/ Forget

Spec == Init /\ [][Next]_vars

-----------------------------------------------------------------------------
(* Properties *)

TypeOK ==
    /\ query \in Queries /\ screen \in Screens[query]
    /\ copy \in [read : NotRead..MaxWrites, marked : BOOLEAN, failed : BOOLEAN, crossed : BOOLEAN,
                 sample : 0..MaxWrites, phase : {"idle", "asked", "carried"}]
    /\ truth \in 0..MaxWrites /\ excused \subseteq 1..truth
    /\ \A c \in calls : c.n \in 0..truth

\* What the cache calls fresh has seen every write of this page's that has been answered, save those
\* it was not told of: a view is never left with what the person has just changed (invalidate.ts:4).
SeesItsOwnWrites ==
    copy.read # NotRead /\ ~copy.marked =>
        \A n \in (copy.read + 1)..truth : n \in excused \/ \E c \in calls : c.n = n

\* And what it knows to be stale on the screen is being read again (query-client.ts:136).
StaleIsReadAgain ==
    On(screen) /\ copy.marked /\ copy.read # NotRead => copy.phase # "idle" \/ copy.failed

FreshInv == TypeOK /\ SeesItsOwnWrites /\ StaleIsReadAgain
=============================================================================
