------------------------------ MODULE TrashPage ------------------------------
(***************************************************************************)
(* The trash on screen: one list out of two answers, what is ticked in it, *)
(* and the confirmations that destroy it.                                  *)
(*                                                                         *)
(* src/frontend/src/features/trash: data.ts reads the trashed libraries    *)
(* and the trashed recordings with two calls and makes one list of them;   *)
(* selection.ts says what a selection destroys; TrashView.tsx holds the    *)
(* ticks, TrashRow.tsx restores and destroys one thing, and                *)
(* BulkPurgeDialog.tsx many.  The instance is modelled by what these calls *)
(* do to it (module Trash has the rest).  A recording is in one library    *)
(* throughout, and another page of the account is at work as well.         *)
(***************************************************************************)
EXTENDS Naturals, FiniteSets

CONSTANTS
    Libraries,
    Recordings,
    Home,          \* the library of each recording
    MaxChanges,    \* bound: changes made by another page
    MaxCalls       \* bound: restores and purges asked for here

VARIABLES
    where,      \* what the instance says of each thing: live, trash or gone
    stamp,      \* when each was last sent to the trash
    now,
    libraries,  \* the list of libraries as read: the live recordings each said it holds
    recordings, \* the list of recordings as read
    changed,    \* history: what has changed since each list was read
    ticked,
    purging,    \* the dialog: "none", "selection" or "everything"
    summary,    \* what emptying would destroy, as counted, or nothing yet
    calls,      \* what was asked of the instance and is not carried out
    asked       \* count against the bound

server == <<where, stamp, now>>
lists  == <<libraries, recordings, changed>>
screen == <<ticked, purging, summary>>
vars   == <<server, lists, screen, calls, asked>>

Things    == Libraries \cup Recordings
In(l)     == {r \in Recordings : Home[r] = l}
Uncounted == [at |-> 0]

-----------------------------------------------------------------------------
(* What is on screen *)

\* merge: a recording is grouped under its library when that is in the list too.
Entries == (DOMAIN libraries) \cup {r \in recordings : Home[r] \notin DOMAIN libraries}
Shown   == (DOMAIN libraries) \cup recordings

\* present: what was ticked and has since left the list is not selected.
selected == ticked \cap Shown

\* doomed: the selected libraries, and the selected recordings outside them.
doomed ==
    LET ls == selected \cap Libraries
        rs == {r \in selected \cap Recordings : Home[r] \notin ls}
    IN  [libraries |-> ls, recordings |-> rs,
         counted |-> ls \cup rs \cup UNION {libraries[l] \cup (recordings \cap In(l)) : l \in ls}]

-----------------------------------------------------------------------------
(* Reading *)

TrashedLibraries  == [l \in {k \in Libraries : where[k] = "trash"} |->
                         {r \in In(l) : where[r] = "live"}]
TrashedRecordings == {r \in Recordings : where[r] = "trash"}

ReadLibraries ==
    /\ libraries' = TrashedLibraries
    /\ changed' = [changed EXCEPT !.libraries = {}]
    /\ UNCHANGED <<server, recordings, screen, calls, asked>>

ReadRecordings ==
    /\ recordings' = TrashedRecordings
    /\ changed' = [changed EXCEPT !.recordings = {}]
    /\ UNCHANGED <<server, libraries, screen, calls, asked>>

\* useTrashSummary, asked while the dialog is open.  The observer stays when it closes, and so do
\* the numbers, until they are asked for again.
Count ==
    /\ purging = "everything"
    /\ summary' = [at |-> now,
                   counted |-> TrashedRecordings \cup
                       UNION {{l} \cup {r \in In(l) : where[r] # "gone"} :
                              l \in DOMAIN TrashedLibraries}]
    /\ UNCHANGED <<server, lists, ticked, purging, calls, asked>>

-----------------------------------------------------------------------------
(* Ticking.  A child of a ticked library is drawn ticked and cannot be unticked. *)

Tick ==
    /\ purging = "none"
    /\ \E x \in Shown :
         /\ x \in Recordings => Home[x] \notin selected
         /\ ticked' = IF x \in selected THEN selected \ {x} ELSE selected \cup {x}
    /\ UNCHANGED <<server, lists, purging, summary, calls, asked>>

\* The bar's checkbox, `select all` and Escape.
TickAll ==
    /\ purging = "none"
    /\ ticked' \in {Entries, {}}
    /\ UNCHANGED <<server, lists, purging, summary, calls, asked>>

-----------------------------------------------------------------------------
(* Asking *)

Call(c) ==
    /\ asked < MaxCalls /\ asked' = asked + 1
    /\ calls' = calls \cup {[c EXCEPT !.id = asked]}

NoCall == [id |-> 0, kind |-> "", libraries |-> {}, recordings |-> {},
           at |-> 0, agreed |-> {}, missed |-> {}]

Restore(x) ==
    /\ purging = "none" /\ x \in Shown
    /\ Call([NoCall EXCEPT !.kind = "restore", !.libraries = {x} \cap Libraries,
                           !.recordings = {x} \cap Recordings])
    /\ UNCHANGED <<server, lists, screen>>

\* A child's second button: two calls, and neither waits for the other.
RestoreBoth(r) ==
    /\ purging = "none" /\ r \in recordings /\ Home[r] \in DOMAIN libraries
    /\ asked + 1 < MaxCalls /\ asked' = asked + 2
    /\ calls' = calls \cup
         {[NoCall EXCEPT !.id = asked, !.kind = "restore", !.libraries = {Home[r]}],
          [NoCall EXCEPT !.id = asked + 1, !.kind = "restore", !.recordings = {r}]}
    /\ UNCHANGED <<server, lists, screen>>

\* What neither list counts: live, and not when the libraries were read; or in the trash, and not
\* when the recordings were.
Missed == {r \in Recordings \cap changed.libraries : where[r] = "live"} \cup
          {r \in Recordings \cap changed.recordings : where[r] = "trash"}

\* A row's own dialog, which names the one thing: a library goes with what it holds.
Purge(x) ==
    /\ purging = "none" /\ x \in Shown
    /\ Call([NoCall EXCEPT !.kind = "purge", !.libraries = {x} \cap Libraries,
                           !.recordings = {x} \cap Recordings,
                           !.agreed = {x} \cup (IF x \in Libraries THEN In(x) ELSE {})])
    /\ UNCHANGED <<server, lists, screen>>

Open(what) ==
    /\ purging = "none"
    /\ what = "selection" => selected # {}
    /\ what = "everything" => Entries # {}
    /\ purging' = what
    /\ UNCHANGED <<server, lists, ticked, summary, calls, asked>>

Close ==
    /\ purging # "none" /\ purging' = "none"
    /\ UNCHANGED <<server, lists, ticked, summary, calls, asked>>

\* Sent as it is counted on screen when the button is pressed, which closes the dialog.
ConfirmSelection ==
    /\ purging = "selection" /\ doomed.counted # {}
    /\ purging' = "none"
    /\ Call([NoCall EXCEPT !.kind = "purge", !.libraries = doomed.libraries,
                           !.recordings = doomed.recordings,
                           !.agreed = doomed.counted, !.missed = Missed])
    /\ UNCHANGED <<server, lists, ticked, summary>>

\* The instant the summary was counted at bounds what is destroyed.
ConfirmEmpty ==
    /\ purging = "everything" /\ summary # Uncounted /\ summary.counted # {}
    /\ purging' = "none"
    /\ Call([NoCall EXCEPT !.kind = "empty", !.at = summary.at, !.agreed = summary.counted])
    /\ UNCHANGED <<server, lists, ticked, summary>>

-----------------------------------------------------------------------------
(* The instance, and the answers *)

Trashed(S) == {x \in S : where[x] = "trash"}

\* A variant: an empty takes the trash as it is when it arrives.
TakesNow(c) == IF c.kind = "empty" THEN Trashed(Things)
               ELSE Trashed(c.libraries \cup c.recordings)

\* What of it a call finds: what is not in the trash any more is skipped, or refused.
Takes(c) == IF c.kind = "empty" THEN {x \in Trashed(Things) : stamp[x] <= c.at}
            ELSE Trashed(c.libraries \cup c.recordings)

Become(S, state) ==
    /\ where' = [x \in Things |-> IF x \in S THEN state ELSE where[x]]
    /\ changed' = [libraries |-> changed.libraries \cup S, recordings |-> changed.recordings \cup S]

WithContents(S) == S \cup {r \in Recordings : Home[r] \in S /\ where[r] # "gone"}

\* An answer to a purge clears whatever is ticked by then, if no other purge was asked for since.
CarryOut(c) ==
    /\ IF c.kind = "restore" THEN Become(Takes(c), "live")
       ELSE Become(WithContents(Takes(c)), "gone")
    /\ calls' = calls \ {c}
    /\ ticked' \in {ticked, IF c.kind = "restore" THEN ticked ELSE {}}
    /\ UNCHANGED <<stamp, now, libraries, recordings, purging, summary, asked>>

\* Nothing is sent to the trash out of a library that is in it.
Elsewhere ==
    /\ now <= MaxChanges /\ now' = now + 1
    /\ \E x \in Things :
         \/ /\ where[x] = "live" /\ (x \in Recordings => where[Home[x]] = "live")
            /\ Become({x}, "trash") /\ stamp' = [stamp EXCEPT ![x] = now + 1]
         \/ where[x] = "trash" /\ Become({x}, "live") /\ UNCHANGED stamp
         \/ where[x] = "trash" /\ Become(WithContents({x}), "gone") /\ UNCHANGED stamp
    /\ UNCHANGED <<libraries, recordings, screen, calls, asked>>

-----------------------------------------------------------------------------
Init ==
    /\ where \in [Things -> {"live", "trash"}]
    /\ stamp = [x \in Things |-> IF where[x] = "trash" THEN 1 ELSE 0] /\ now = 1
    /\ libraries = TrashedLibraries /\ recordings = TrashedRecordings
    /\ changed = [libraries |-> {}, recordings |-> {}]
    /\ ticked = {} /\ purging = "none" /\ summary = Uncounted
    /\ calls = {} /\ asked = 0

Next ==
    \/ ReadLibraries \/ ReadRecordings \/ Count
    \/ Tick \/ TickAll
    \/ \E x \in Things : Restore(x) \/ Purge(x)
    \/ \E r \in Recordings : RestoreBoth(r)
    \/ Open("selection") \/ Open("everything") \/ Close
    \/ ConfirmSelection \/ ConfirmEmpty
    \/ \E c \in calls : CarryOut(c)
    \/ Elsewhere

Spec == Init /\ [][Next]_vars

-----------------------------------------------------------------------------
(* Properties *)

TypeOK ==
    /\ where \in [Things -> {"live", "trash", "gone"}]
    /\ stamp \in [Things -> 0..(MaxChanges + 2)] /\ now \in 1..(MaxChanges + 1)
    /\ DOMAIN libraries \subseteq Libraries /\ recordings \subseteq Recordings
    /\ ticked \subseteq Things /\ purging \in {"none", "selection", "everything"}
    /\ asked \in 0..MaxCalls

\* What goes was in the count somebody agreed to, however old the lists, the summary and the
\* answers are by then -- except a recording of a selected library that came into it, or into the
\* trash, between the reading of one list and the other, so that neither counts it (selection.ts
\* `doomed`, BulkPurgeDialog.tsx).
AgreedTo ==
    \A c \in calls \ calls' : \A x \in Things :
        where[x] # "gone" /\ where'[x] = "gone" => x \in c.agreed \cup c.missed
DestroysWhatWasAgreed == [][AgreedTo]_vars

\* data.ts:163 of the numbers: "never from the cache".  The observer of a closed dialog keeps
\* them, and the next one opens with the last one's.
NeverFromTheCache == [][purging = "none" /\ purging' = "everything" => summary = Uncounted]_vars
=============================================================================
