--------------------------------- MODULE Trash ---------------------------------
(***************************************************************************)
(* Libraries, the recordings in them, who may manage which, and the trash  *)
(* (db/libraries.py, db/audio.py, db/trash.py, jobs/retention.py,          *)
(* acl/query.py): sent to, restored from, emptied by a person or by the    *)
(* retention purge.                                                        *)
(*                                                                         *)
(* A write session holds the process-wide lock to its commit, so writes    *)
(* are one action each.  The two that stamp the clock are two: what they   *)
(* stamp is not seen by a reader until the commit, and the readers, whose  *)
(* every query is a snapshot of its own, take no lock.                     *)
(*                                                                         *)
(* Abstractions.  Instants are naturals up to MaxTime.  Access below edit  *)
(* is the same as none, because it writes nothing.  Accounts exist and     *)
(* are enabled throughout.  The tally is the set it counts, so durations   *)
(* and transcripts are left out; files are RecordingFiles'.                *)
(***************************************************************************)
EXTENDS Naturals, FiniteSets

CONSTANTS
    Users,
    Libraries,
    Recordings,
    Retention,      \* trash_retention_days, in instants
    MaxTime,        \* bound on the clock
    NoUser, Nowhere, NoWrite

ASSUME TrashAssumption ==
    /\ Libraries \cap Recordings = {}
    /\ NoUser \notin Users
    /\ Nowhere \notin Libraries
    /\ NoWrite \notin (Libraries \cup Recordings) \X (1..MaxTime)
    /\ Retention \in Nat
    /\ MaxTime \in Nat \ {0}

VARIABLES
    owner,      \* each library's owner; NoUser while it has no row
    home,       \* each recording's library; Nowhere while it has no row
    deleted,    \* deleted_at of each, 0 while it is not in the trash
    grant,      \* the share rows: what each user was granted on each
    gone,       \* history: the libraries and recordings destroyed
    writer,     \* what the holder of the write lock has stamped, and when
    now,        \* the clock
    summary     \* each user's last look at the trash as a whole

vars == <<owner, home, deleted, grant, gone, writer, now, summary>>

-----------------------------------------------------------------------------
Things == Libraries \cup Recordings

NO_ACCESS == 0
EDIT == 20
MANAGE == 30
OWNER == 40
Grantable == {EDIT, MANAGE}

\* A summary: how far it has come, the instant it is counted at, and the
\* libraries and recordings it counted.  `missed` is history: what was
\* committed to the trash since it began, with an instant no later than its
\* own; `given` whether its user was granted anything since.
Unasked == [step |-> "none", at |-> 0, libraries |-> {}, recordings |-> {},
            missed |-> {}, given |-> FALSE]

Summaries == [step : {"none", "asked", "half", "counted"}, at : 0..MaxTime,
              libraries : SUBSET Libraries, recordings : SUBSET Recordings,
              missed : SUBSET Things, given : BOOLEAN]

HasLibrary(l) == owner[l] # NoUser
HasAudio(r) == home[r] # Nowhere
Contents(l) == {r \in Recordings : home[r] = l}

\* What the ACL resolves: the owner is owner, everybody else has the higher
\* of what they were granted on the library and on the recording.
LibraryLevel(u, l) == IF owner[l] = u THEN OWNER ELSE grant[l][u]
AudioLevel(u, r) ==
    IF LibraryLevel(u, home[r]) > grant[r][u]
    THEN LibraryLevel(u, home[r]) ELSE grant[r][u]

\* include_trashed=False
LiveLibrary(l) == HasLibrary(l) /\ deleted[l] = 0
LiveAudio(r) == HasAudio(r) /\ deleted[r] = 0 /\ deleted[home[r]] = 0

\* The trash of a user, as trashed_libraries and trashed_audio describe it.
TrashedLibraries(u) ==
    {l \in Libraries : HasLibrary(l) /\ deleted[l] # 0 /\ LibraryLevel(u, l) >= MANAGE}
TrashedAudioVariant(u) ==   \* those not in the trash are taken too
    {r \in Recordings : HasAudio(r) /\ AudioLevel(u, r) >= MANAGE}
TrashedAudio(u) ==
    {r \in Recordings : HasAudio(r) /\ deleted[r] # 0 /\ AudioLevel(u, r) >= MANAGE}

UpTo(things, at) == {t \in things : deleted[t] <= at}

\* The recordings a purge of these libraries and these loose ones takes.
Within(ls, loose) == loose \cup {r \in Recordings : home[r] \in ls}

AnotherLibraryVariant(l) ==   \* one in the trash counts
    \E m \in Libraries \ {l} : owner[m] = owner[l]
AnotherLibrary(l) ==
    \E m \in Libraries \ {l} : owner[m] = owner[l] /\ deleted[m] = 0

Free == writer = NoWrite

-----------------------------------------------------------------------------
\* Every account is created with a library of its own.
Init ==
    /\ owner \in [Libraries -> Users \cup {NoUser}]
    /\ \A u \in Users : Cardinality({l \in Libraries : owner[l] = u}) = 1
    /\ home = [r \in Recordings |-> Nowhere]
    /\ deleted = [t \in Things |-> 0]
    /\ grant = [t \in Things |-> [u \in Users |-> NO_ACCESS]]
    /\ gone = {}
    /\ writer = NoWrite
    /\ now = 1
    /\ summary = [u \in Users |-> Unasked]

CreateLibrary(u, l) ==
    /\ Free
    /\ ~HasLibrary(l) /\ l \notin gone
    /\ owner' = [owner EXCEPT ![l] = u]
    /\ UNCHANGED <<home, deleted, grant, gone, writer, now, summary>>

\* The permission that decides is the one resolved in the transaction that
\* writes the row.
Upload(u, r, l) ==
    /\ Free
    /\ ~HasAudio(r) /\ r \notin gone
    /\ LiveLibrary(l) /\ LibraryLevel(u, l) >= EDIT
    /\ home' = [home EXCEPT ![r] = l]
    /\ UNCHANGED <<owner, deleted, grant, gone, writer, now, summary>>

MoveAudio(u, r, l) ==
    /\ Free
    /\ LiveAudio(r) /\ AudioLevel(u, r) >= MANAGE
    /\ LiveLibrary(l) /\ LibraryLevel(u, l) >= EDIT
    /\ home' = [home EXCEPT ![r] = l]
    /\ UNCHANGED <<owner, deleted, grant, gone, writer, now, summary>>

\* To the trash: what is stamped with the clock is committed later.
TrashAudio(u, r) ==
    /\ Free
    /\ LiveAudio(r) /\ AudioLevel(u, r) >= MANAGE
    /\ writer' = <<r, now>>
    /\ UNCHANGED <<owner, home, deleted, grant, gone, now, summary>>

TrashLibrary(u, l) ==
    /\ Free
    /\ LiveLibrary(l) /\ LibraryLevel(u, l) >= MANAGE
    /\ AnotherLibrary(l)
    /\ writer' = <<l, now>>
    /\ UNCHANGED <<owner, home, deleted, grant, gone, now, summary>>

Commit ==
    /\ ~Free
    /\ deleted' = [deleted EXCEPT ![writer[1]] = writer[2]]
    /\ summary' = [u \in Users |->
         IF summary[u].step # "none" /\ writer[2] <= summary[u].at
         THEN [summary[u] EXCEPT !.missed = @ \cup {writer[1]}]
         ELSE summary[u]]
    /\ writer' = NoWrite
    /\ UNCHANGED <<owner, home, grant, gone, now>>

Rollback ==
    /\ ~Free
    /\ writer' = NoWrite
    /\ UNCHANGED <<owner, home, deleted, grant, gone, now, summary>>

RestoreAudio(u, r) ==
    /\ Free
    /\ HasAudio(r) /\ AudioLevel(u, r) >= MANAGE
    /\ deleted' = [deleted EXCEPT ![r] = 0]
    /\ UNCHANGED <<owner, home, grant, gone, writer, now, summary>>

RestoreLibrary(u, l) ==
    /\ Free
    /\ HasLibrary(l) /\ LibraryLevel(u, l) >= MANAGE
    /\ deleted' = [deleted EXCEPT ![l] = 0]
    /\ UNCHANGED <<owner, home, grant, gone, writer, now, summary>>

-----------------------------------------------------------------------------
(* Destroying *)

\* The rows of these libraries and recordings go, their share rows with them.
\* The foreign key refuses a library that still holds something.
Destroy(ls, rs) ==
    LET out == ls \cup rs IN
    /\ {r \in Recordings : home[r] \in ls} \subseteq rs
    /\ owner' = [l \in Libraries |-> IF l \in ls THEN NoUser ELSE owner[l]]
    /\ home' = [r \in Recordings |-> IF r \in rs THEN Nowhere ELSE home[r]]
    /\ deleted' = [t \in Things |-> IF t \in out THEN 0 ELSE deleted[t]]
    /\ grant' = [t \in Things |->
                   IF t \in out THEN [u \in Users |-> NO_ACCESS] ELSE grant[t]]
    /\ gone' = gone \cup out
    /\ UNCHANGED <<writer, now, summary>>

PurgeAudio(u, r) ==
    /\ Free
    /\ r \in TrashedAudio(u)
    /\ Destroy({}, {r})

PurgeLibrary(u, l) ==
    /\ Free
    /\ l \in TrashedLibraries(u)
    /\ Destroy({l}, Contents(l))

\* What of the selection is not the caller's to purge is skipped.
PurgeSelection(u, ls, rs) ==
    LET libraries == ls \cap TrashedLibraries(u) IN
    /\ Free
    /\ Destroy(libraries, Within(libraries, rs \cap TrashedAudio(u)))

EmptyVariant(u) ==   \* the instant bounds the libraries only
    LET ls == UpTo(TrashedLibraries(u), summary[u].at) IN
    /\ Free
    /\ summary[u].step = "counted"
    /\ Destroy(ls, Within(ls, TrashedAudio(u)))

\* Emptied up to the instant the summary was counted at.
Empty(u) ==
    LET ls == UpTo(TrashedLibraries(u), summary[u].at) IN
    /\ Free
    /\ summary[u].step = "counted"
    /\ Destroy(ls, Within(ls, UpTo(TrashedAudio(u), summary[u].at)))

\* What nobody restored in time.
Due(t) == deleted[t] # 0 /\ deleted[t] + Retention < now
ExpiredRecordings ==
    {r \in Recordings : HasAudio(r) /\ (Due(r) \/ Due(home[r]))}
ExpiredLibrariesVariant ==   \* only those already empty
    {l \in Libraries : HasLibrary(l) /\ Due(l) /\ Contents(l) = {}}
ExpiredLibraries ==
    {l \in Libraries : HasLibrary(l) /\ Due(l) /\ Contents(l) \subseteq ExpiredRecordings}

RetentionPurge ==
    /\ Free
    /\ Destroy(ExpiredLibraries, ExpiredRecordings)

-----------------------------------------------------------------------------
(* Sharing, and looking *)

Told(v) == [summary EXCEPT ![v] = [@ EXCEPT !.given = summary[v].step # "none"]]

ShareLibrary(u, l, v, level) ==
    /\ Free
    /\ LiveLibrary(l) /\ LibraryLevel(u, l) >= MANAGE
    /\ v # owner[l]
    /\ grant' = [grant EXCEPT ![l][v] = level]
    /\ summary' = Told(v)
    /\ UNCHANGED <<owner, home, deleted, gone, writer, now>>

UnshareLibrary(u, l, v) ==
    /\ Free
    /\ LiveLibrary(l) /\ LibraryLevel(u, l) >= MANAGE
    /\ grant' = [grant EXCEPT ![l][v] = NO_ACCESS]
    /\ UNCHANGED <<owner, home, deleted, gone, writer, now, summary>>

ShareAudio(u, r, v, level) ==
    /\ Free
    /\ LiveAudio(r) /\ AudioLevel(u, r) >= MANAGE
    /\ v # owner[home[r]]
    /\ grant' = [grant EXCEPT ![r][v] = level]
    /\ summary' = Told(v)
    /\ UNCHANGED <<owner, home, deleted, gone, writer, now>>

UnshareAudio(u, r, v) ==
    /\ Free
    /\ LiveAudio(r) /\ AudioLevel(u, r) >= MANAGE
    /\ grant' = [grant EXCEPT ![r][v] = NO_ACCESS]
    /\ UNCHANGED <<owner, home, deleted, gone, writer, now, summary>>

\* The summary takes the clock, then reads: the libraries, and after them the
\* recordings, those in the libraries it read and the loose ones.
AskSummary(u) ==
    /\ summary' = [summary EXCEPT ![u] = [Unasked EXCEPT !.step = "asked", !.at = now]]
    /\ UNCHANGED <<owner, home, deleted, grant, gone, writer, now>>

CountLibraries(u) ==
    /\ summary[u].step = "asked"
    /\ summary' = [summary EXCEPT ![u] = [@ EXCEPT !.step = "half",
                     !.libraries = UpTo(TrashedLibraries(u), summary[u].at)]]
    /\ UNCHANGED <<owner, home, deleted, grant, gone, writer, now>>

CountRecordings(u) ==
    /\ summary[u].step = "half"
    /\ summary' = [summary EXCEPT ![u] = [@ EXCEPT !.step = "counted",
                     !.recordings = Within(summary[u].libraries,
                                           UpTo(TrashedAudio(u), summary[u].at))]]
    /\ UNCHANGED <<owner, home, deleted, grant, gone, writer, now>>

Tick ==
    /\ now < MaxTime
    /\ now' = now + 1
    /\ UNCHANGED <<owner, home, deleted, grant, gone, writer, summary>>

-----------------------------------------------------------------------------
OnLibrary(u, l) ==
    \/ CreateLibrary(u, l) \/ TrashLibrary(u, l) \/ RestoreLibrary(u, l)
    \/ PurgeLibrary(u, l)
    \/ \E v \in Users : \/ UnshareLibrary(u, l, v)
                        \/ \E level \in Grantable : ShareLibrary(u, l, v, level)

OnAudio(u, r) ==
    \/ \E l \in Libraries : Upload(u, r, l) \/ MoveAudio(u, r, l)
    \/ TrashAudio(u, r) \/ RestoreAudio(u, r) \/ PurgeAudio(u, r)
    \/ \E v \in Users : \/ UnshareAudio(u, r, v)
                        \/ \E level \in Grantable : ShareAudio(u, r, v, level)

OnTrash(u) ==
    \/ AskSummary(u) \/ CountLibraries(u) \/ CountRecordings(u) \/ Empty(u)
    \/ \E ls \in SUBSET Libraries, rs \in SUBSET Recordings : PurgeSelection(u, ls, rs)

Next ==
    \/ \E u \in Users : \/ OnTrash(u)
                        \/ \E l \in Libraries : OnLibrary(u, l)
                        \/ \E r \in Recordings : OnAudio(u, r)
    \/ Commit \/ Rollback \/ RetentionPurge \/ Tick

Spec == Init /\ [][Next]_vars

-----------------------------------------------------------------------------
(* Properties *)

\* Every variable has the values the code can give it.
TypeOK ==
    /\ owner \in [Libraries -> Users \cup {NoUser}]
    /\ home \in [Recordings -> Libraries \cup {Nowhere}]
    /\ deleted \in [Things -> 0..MaxTime]
    /\ grant \in [Things -> [Users -> {NO_ACCESS, EDIT, MANAGE}]]
    /\ gone \subseteq Things
    /\ writer \in (Things \X (1..MaxTime)) \cup {NoWrite}
    /\ now \in 1..MaxTime
    /\ summary \in [Users -> Summaries]

\* An account keeps at least one library outside the trash (DAT-9), whoever
\* manages its libraries and whatever the purges take.
KeepsALibrary == \A u \in Users : \E l \in Libraries : owner[l] = u /\ deleted[l] = 0

\* Every recording is in a library there is: nothing that destroys a library
\* leaves a recording behind, and nothing arrives in one that has gone.
NothingAdrift == \A r \in Recordings : HasAudio(r) => HasLibrary(home[r])

\* Nothing waits for what holds the write lock to be undone: what is about to
\* enter the trash is still there, and an account keeps a library beside it.
WriterSound ==
    ~Free => /\ writer[1] \in Libraries =>
                  /\ LiveLibrary(writer[1])
                  /\ AnotherLibrary(writer[1])
             /\ writer[1] \in Recordings => LiveAudio(writer[1])

\* What makes the three inductive: rows that are gone carry no trash instant.
BlankRows ==
    /\ \A l \in Libraries : ~HasLibrary(l) => deleted[l] = 0
    /\ \A r \in Recordings : ~HasAudio(r) => deleted[r] = 0

TrashInv == TypeOK /\ KeepsALibrary /\ NothingAdrift /\ WriterSound /\ BlankRows

\* Destroyed only out of the trash, and for good (principle 5: deleting is
\* always a trash first), by every road there is.
Status(r) == IF HasAudio(r) THEN IF LiveAudio(r) THEN "live" ELSE "trashed"
             ELSE IF r \in gone THEN "gone" ELSE "unborn"

B == INSTANCE Bin WITH status <- [r \in Recordings |-> Status(r)]
ImplementsBin == B!Spec

Destroyed == {r \in Recordings : HasAudio(r) /\ home'[r] = Nowhere}

\* What an empty destroys and its summary did not count was being sent to the
\* trash while the summary was counted, or its user has been granted something
\* since.  Restoring, moving, uploading, trashing later and other purges
\* between the two add nothing to it.
UncountedHasACause ==
    [][\A u \in Users : Empty(u) =>
         \/ summary[u].given
         \/ Destroyed \subseteq
              Within(summary[u].missed, summary[u].recordings \cup summary[u].missed)
       ]_vars

\* The retention purge leaves nothing behind that is due: a trashed library
\* that expired goes with everything in it, the same day.
NothingDueStays ==
    [][RetentionPurge => \A t \in Things : ~Due(t)']_vars

-----------------------------------------------------------------------------
(* What the documentation says, and the code does not do *)

\* An empty destroys what the summary counted, and nothing else (trash.py:7),
\* the tie of what was sent to the trash in the very instant of the count apart.
EmptyTakesTheCounted ==
    [][\A u \in Users : Empty(u) =>
         \A r \in Destroyed :
            (\E t \in {r, home[r]} : deleted[t] \in 1..(summary[u].at - 1))
            => r \in summary[u].recordings]_vars
=============================================================================
