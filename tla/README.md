# A TLA+ model of Resonand

Resonand is a self-hosted archive of recordings: a FastAPI process with one SQLite file, a pool of
worker threads inside the same process, original and derived media files on disk, a transcription
engine reached over HTTP, and a browser client.  This directory models the parts of it that have a
behaviour over time, model-checks them with TLC on small instances, and proves what each of
them promises for its safety with TLAPS, for instances of every size.

Paths below are relative to `src/backend/resonand/` or to `src/frontend/src/`, unless they start
with `src/`; `design-system/` is `src/frontend/design-system/`.

## 1. The system

### How the parts interact

An upload streams a file to disk, then writes the recording's row and its first jobs.  Worker
threads claim jobs from the `job` table one write session at a time, run a handler that holds no
transaction, and record the outcome in another write session.  Handlers read and write media files
and rows, and call the engine.  People cancel, retry, trash, restore and purge while all of it goes
on.  After an outcome is committed the worker announces the recording; a stream of server-sent
events carries that to the pages that may read it, and a page that listens stops polling.

A page is a cache of answers with screens drawn from it.  Each answer is read at a moment of its
own; a write's answer marks as stale what the write changed, and what is on the screen is read
again.  The upload queue, the player and the session belong to no screen and live on while the
screens change.

Two facts shape the models.  On the instance, **a write session holds a process-wide lock up to its
commit** (`db/engine.py:131`), so each database operation is one atomic action; whatever is *not*
inside one - a handler, a file operation, a reader's several queries, an announcement - is a
sequence of actions that everything else may interleave with.  In the browser, **a task runs to its
end**, so a handler with the renders and effects it causes is one action, and what comes after an
await, an event or an answer is another.

### Inventory

| component | state it keeps | what is hard | what makes it correct | module |
|---|---|---|---|---|
| job queue and worker (`jobs/queue.py`, `jobs/worker.py`) | the `job` table; the work each thread holds | outcomes written by row id long after the claim; a crash between the two; ids that come back | the limit on transcriptions; one holder per job; what may undo a settled job; everything queued ends | `JobQueue`, `Slots` |
| transcription handler (`jobs/handlers.py:161`), transcripts (`db/transcripts.py`) | part files, transcripts, which is active | a cancellation between the question and the request; two threads on one recording | at most one part after a cancellation; one active transcript; `done` means that there is one | `Transcription` |
| trash, libraries, retention (`db/trash.py`, `db/libraries.py`, `db/audio.py`, `jobs/retention.py`, `acl/query.py`) | rows, `deleted_at`, shares | what was counted against what is destroyed; stamped before it is seen | only out of the trash, and for good; an account keeps a library | `Trash`, `Bin` |
| media files (`media/storage.py`, `api/routes/ingest.py`, `media/transcode.py`, `cli/integrity.py`) | directories and files, `derived_path` | rows and files cannot change together; crashes; fsck on a live instance | a row has its original; strays have a cause; fsck finds orphans and cries no loss | `RecordingFiles` |
| announcements (`jobs/worker.py:134`, `core/changes.py`, `api/routes/events.py`, `app/events.tsx`) | bounded queues, streams, what a page shows | overflow while being read; late answers; reconnecting | a page that listens hears of everything | `Changes` |
| categories (`db/categories.py`, `features/library-settings/`) | a tree per library, the copy a page has of it | calls made from an old copy; numbers that come back | it stays a tree, names apart, nothing filed under what is gone | `Categories` |
| sessions (`db/sessions.py`, `api/routes/auth.py`, `app/session.ts`) | rows, passwords, a cookie, a person's cache | an answer for the person before; a caller resolved before the lock | nobody sees another's archive; a new password ends the old sessions | `Session` |
| upload queue (`features/upload/uploads.ts`) | rows, queued and held files, one flag | one `drain()` called from everywhere; a check that is old when it is used; lost answers | nothing stranded; nothing stored twice unasked; every file answered | `Uploads` |
| upload dialog (`features/upload/UploadDialog.tsx`) | files, destination, what the instance takes | all of it changes beneath an open dialog | a category goes with its library; a closed dialog is empty | `UploadDialog` |
| player (`player/`) | the store, one audio element, a token | events of a source that was replaced; a play() refused late | the sound is the bar's; a position stands; buffering ends | `Player` |
| recording page (`features/recording/`) | following, scroll, drag, fade | whose scroll it is; a waveform taken from under a drag | only a person stops the following; it catches up | `RecordingPage` |
| transcription card (`features/recording/transcription.ts`) | three cached answers | read at three moments, compared with one another | a page at rest tells one story | `TranscriptionCard` |
| edits and the heart (`metadata.ts`, `app/hooks/use-favourite.ts`) | drafts, optimistic copies | answers and refetches that cross | the last press is kept, and shown by what was read after it; a copy not known to be stale is current | `Edits` |
| library view and bulk actions (`features/library/`) | pages of rows, ticks, runs | a run of many requests over rows that change | rows are current after it; tags come off for a cause | `Library` |
| trash page (`features/trash/`) | two lists, ticks, a count | the lists are read apart | what goes was agreed to | `TrashPage` |
| overlays (`design-system/components/overlay/`) | who is open, the focus, the scroll lock | each listens by itself | the page scrolls when nothing covers it; focus comes back | `Overlays` |
| search (`features/search/`, `app/url-state.ts`) | the field, the address, a page number, rows | none of the four need agree | "nothing matched" only where nothing did | `Search` |
| cache (`api/invalidate.ts`, `api/query-client.ts`) | copies, marks | a write answered while a read is in flight | the map forgets nothing; fresh means seen | `Staleness`, `Freshness` |
| forms, settings, administration (`features/settings/`, `features/libraries/`) | what is typed, followed, refused | closed, left or sent again before the answer | a refusal is said; `done` is of what was done last | `Forms` |
| chunking (`transcription/chunking.py`, `jobs/handlers.py:158`) | a plan, the answers so far | rounding, overlaps, pieces of words, names per request | a word comes back once, where it was said | `Chunking` |
| providers, request and rate limits, byte ranges, schemas, configuration, migrations, import/export, backup, rendering | none, or no concurrency | - | - | not modelled (section 6) |

## 2. The modules

Definitions named `...Variant` stand above the definition they vary: each is a plausible mistake in
that code, and putting it in place of the definition makes the property it is meant for fail.
Variables marked *history* in a module are not in the code; they remember a cause.

**The instance.**

- **`JobQueue`** - one action per function of `queue.py` and per step of `Worker.run_once`; `Crash`
  and `Start` are the process.  Timestamps are one flag per row, `cooling` (the backoff has not
  elapsed).  Ids are SQLite rowids without AUTOINCREMENT, so a purged row's id can be the next
  row's.  `overtaken` and `lost` are history: threads whose job was taken from them, and jobs whose
  outcome could not be recorded (`worker.py:194-203`).
- **`Slots`** - a counting lock: what the transcription limit promises.  `JobQueue` implements it,
  the holders being the transcriptions marked running.
- **`Transcription`** EXTENDS `JobQueue` and spells out the handler from claim to outcome, composed
  with uploads, purges and people switching transcripts.  Its actions are `JobQueue`'s with the
  handler's own state beside them, so what is proved of the table is carried over.
- **`Chunking`** - one recording cut, sent part by part and stitched together: a turn of
  `plan_parts`' loop is a step, and so is a part that is submitted.  Instants are whole
  milliseconds, halves rounded down as the code rounds them.  The engine is external: it returns
  what it heard whole, what it likes of the pieces at the edges, timed from the start of what it was
  sent and with names of its own.  The transcript is a set; its order is its fields'.
- **`Trash`** - libraries, recordings, shares and the trash.  A writer that stamps the clock is two
  actions (stamp, commit), because a reader takes no lock; a summary is three queries at three
  moments.  **`Bin`** is what it promises of one recording: live, trashed, gone, in that order only.
- **`RecordingFiles`** - a recording's row and its directory: upload, removal, transcode and `fsck`
  step by step, with a crash anywhere.
- **`Changes`** - from a commit to the page that shows it, with the queue's overflow flag, the event
  loop's callbacks, the wire, reconnecting, coalescing, polling and answers that come late.
- **`Categories`** - every call on a tree of categories, carried out one at a time, and the settings
  page that makes them from the list it last read (a new one goes anywhere in it, as the endpoint
  allows; the interface itself sends them to the root).  What is above a category is defined by closed
  sets, not by recursion.
- **`Session`** - rows and passwords on the instance; a page with its cookie, its cached answers and
  its place; calls between, a read answered in one transaction, a write resolved to its caller
  first and carried out later; other devices.  A page asks who is signed in as it opens; what makes
  it ask again (a view that mounts, the window's focus, the connection) is a person's doing.

**The browser.**

- **`Uploads`** - the queue: one action between two awaits of `drain()`, the instance's side of a
  request (looked, stored, given up and carried out all the same), and every button of the tray.
- **`UploadDialog`** - what is chosen and handed to the queue while the page beneath, the libraries
  and the limits move; and what tells the rest of the page of files that arrived.
- **`Player`** - the store, the one audio element (external), its events as tasks, tokens and
  refused sources, and every surface that drives them.  **`RecordingPage`** - the column, the
  transcript that follows, the waveform and its two surfaces.
- **`TranscriptionCard`** - three queries, each sent, read and answered; the stream; three buttons.
- **`Edits`** - one recording's title, tags and mark, on a page and in a list.  A write, a mark too,
  is two steps, what the instance did and its answer; a refetch is what it read and its arrival.
- **`Library`** - a filtered, paged list, a selection, and runs of one request per recording.  `kept`
  is the rows of the query before, which stay on screen, and can be pressed, until the new query has
  some (`paged.ts:166`); a recording that carries the tag already is sent nothing of.
- **`TrashPage`** - two lists made into one, ticks, and the confirmations that destroy.
- **`Overlays`**, **`Search`**, **`Forms`** - one screen's state each.  `Forms` is the fourteen forms
  and buttons that write, told apart by what they do when sent, refused, closed and answered.
- **`Staleness`** - data: what every write of the page's changes, reaches, replaces and overlooks,
  and what each screen reads.  **`Freshness`** - one cached copy of any of those keys, from read to
  read, while screens change and writes are in flight.

**Compositions.**  `Transcription` is composed with `JobQueue` by EXTENDS.  The `MC` modules put
components that share a place but no state beside one another: `MCScreens` (`Edits`, `Categories`,
`TranscriptionCard`, `Overlays`, `Search`, `Forms`, `Freshness`), `MCPlayback` (`Player`,
`RecordingPage`), `MCUploads` (`Uploads`, `UploadDialog`) and `MCRecordingFiles` (`RecordingFiles`,
`TrashPage`, `Chunking`).
A variable `scene` says which one a behaviour is of, and the others stand still: what
happens in one is nothing to the others, so exploring them together would multiply states and show
nothing.  (In `MCUploads` the dialog is `D!`, in `MCPlayback` the player is `A!` and the page `P!`.)
In `MCScreens` the scenes even share the variables `v1` to `v12`.  What one component
takes from another is an input of the second, as free as the first can make it: the announcement in
`TranscriptionCard`, the line being spoken in `RecordingPage`, the instance's row in `TrashPage`.

## 3. What is checked

| run | instance | what it shows |
|---|---|---|
| `job_queue` | 1 recording and the daily purge, 2 rows, 2 threads, 1 crash, 1 retry, 1 lost outcome | `IInv`: who holds a row, what running means, the limit; `QueuedOnce`; `OutcomesStand`: what may undo a settled job; `SecondInFlightOnlyByRetry`; `ImplementsSlots`; `EverySettles` |
| `transcription_race` | 1 long recording, 2 parts, 2 threads, 2 attempts, 1 retry | two threads on one job: `AtMostOneAfterCancel`, `OneActive`, `DoneStands` |
| `transcription_rows` | a long and a short recording, 1 thread, 1 crash, 1 lost outcome | purges and row numbers that come back: `StraysHaveACause`, and no badge says `running` for good (`BadgeSettles`) |
| `transcription_wrong_row` | 2 short recordings, 1 thread | `TranscriptOfItsRecording` is violated (section 5) |
| `trash` | 2 accounts, 3 libraries, 1 recording, 3 instants | `TrashInv`; `NothingDueStays`; `UncountedHasACause`: what an empty destroys was counted, or a cause is named; `ImplementsBin` |
| `recording_files` | 2 recordings, 1 thread, 1 remover, 1 crash, fsck; the trash screen with a library of two recordings; recordings of 8 to 20 cut with a ceiling of 8, an overlap of 3 and a least part of 5, 3 sets of pauses, 1 utterance anywhere and another at the end | `DiskInv` (`FilesInv` and `FsckInv`); `DestroysWhatWasAgreed`; what comes back of a recording cut in parts: `WordsComeBackOnce`, `ChunkInv` (the plan covers it, nothing is lost, a name is one voice's) |
| `changes` | 1 page, 2 recordings, 3 settling jobs, a queue of 1, 1 mishap | `ListensToEverything`, `CatchesUp` |
| `uploads` | 3 files, 2 of the same bytes, 1 over the limit, 1 sent again; a dialog with 2 files, 2 libraries, 1 change around it | `UploadsInv`, `DialogInv`, `EveryFileIsAnswered` |
| `playback` | 2 recordings, 3 positions, 3 pending events, 1 token, 1 error; a column of 4 lines, a panel of 2 | `PlaybackInv`; `PositionStands`: no jump nobody chose; `OnlyAPersonReleases`; `ListeningGoesOn` (`BufferingEnds` and `KeepsUp`) |
| `session` | 2 accounts, 2 sessions here and 1 elsewhere, 1 change of password | `SessionInv`, `LeavesForACause`, `DeadSessionLeaves` |
| `library` | 2 recordings a page apart, 2 tags, 2 filters, 2 runs, 1 mishap | `RowsAreCurrent`, `StripsForACause` |
| `screens` | 2 titles, 2 tags, 3 edits; 3 categories, 2 names, 2 calls; 2 transcripts made; 2 words, 2 pages of 1; 3 writes of a form; 2 libraries; 2 writes felt by a copy | `EditsInv`, `TagGoesForACause`; `TreeInv`; `LateAnswersInv` (card, search, forms); `FreshInv`; `KeepsThePlace` |

**Bounds.**  Every bound is a constant and named as one.  Two of each actor is what an interleaving
needs: two threads are the smallest pool in which one can be overtaken by the other (the pool's
default is two), two rows the smallest table in which one row waits for another's slot and an id
comes back, two attempts the smallest number with a backoff between them, two parts the smallest
number with a question between them, a queue of one change the one that overflows soonest, two
writes or runs what it takes for answers to come in the other order.  Crashes, retries, lost
outcomes and mishaps happen once each, at any point: what a second one does starts from a state the
first one's recovery can produce, and where there is a proof the invariant holds for any number of
them.  Three instants give a before, a same and an after for `deleted_at`.
The overlap and the least part of a cut recording are the real ones in thousandths; three cuts are one
more than it takes for a part to overlap two others' seams, and the longest utterance lies across
all of them.

Five state constraints cut what a property says nothing more about, or combinations of two bounds:
`AFew` of `recording_files` (after a crash, fsck looks on while nobody encodes; on the screen, one
call among two changes, or two calls and none), `AFew` of `library` (after two runs and a mishap
the list is read no further), `OneLooks` and `OneBusiness` of `trash` (one account at a time counts
its trash; something is shared, or an account has a second library), `Untroubled` of `screens` (a
card is not followed past its first mishap, after which it promises only its type).  No constraint
is in a run's specification, and the theorems do without them.

`CHECK_DEADLOCK FALSE` is set in every run, because each system really may come to rest: nothing
queued, nobody pressing anything, the bounds spent.

**Fairness.**  `JobQueue` and `Transcription`: worker threads loop (`worker.py:194-203`), every
external call a handler makes has a timeout, time passes, and the container is restarted.
`Changes`: threads announce, the event loop runs its callbacks and readers, an `EventSource`
reconnects by itself, requests are answered.  `Uploads`: a hash comes to an end and a request is
answered or given up.  `Player`: the element loads, sounds and fires its events, a request for a
token is answered.  `RecordingPage`: the browser draws frames.  `Session`: the guard renders, and a
request that was sent is refused if it is to be.  The guard is strongly fair, for another answer may
take the refusal's place each time.  Nothing has a page ask: the account is read again only when a
view mounts, the window is focused or the connection comes back (`session.ts:36-39`,
`query-client.ts:124-136`), which a page that is only looked at does none of.  Nobody is ever obliged to press anything, and no fairness is assumed of crashes, purges
or the daily schedule.

**What the liveness properties except.**  `EverySettles` and `BadgeSettles` except an outcome that
could not be recorded: the row then stays `running`, and keeps its slot, until a restart.
`CatchesUp` excepts what nobody announced where the page could hear.  `EveryFileIsAnswered` excepts
a 2xx answer that cannot be parsed.  `BufferingEnds` excepts the end of a recording and an event
thrown away with its source; `KeepsUp` a person's scroll that was taken for the page's own.
`DeadSessionLeaves` is about a page that has asked for something under the session that is over, and
excepts a sign-in or a sign-out of its own on the way, which empties the cache under the question; an
idle page with a revoked session stays as it is.  Each
exception is a state the code reaches, and without it the property fails.

## 4. What is proved

All proofs hold for every value of the constants that satisfies the named `ASSUME` of the module
(finite or natural-number parameters, disjoint names, marks that are no numbers; nothing about
sizes), and every inductive invariant was checked with TLC before it was proved.  One instance is
fixed: the overlays are those of `MCScreens`' page, which overlay opens from which being what the
component is given; the number of steps is not bounded there either.

**`TranscriptionProofs`, the queue.**  Theorems of `JobQueue`: `TypeCorrect`, `Invariant`, `SlotsAlwaysRespected`, `ClaimsExclusive`,
`RunningAlwaysHeld`, `OutcomesKept` (with `CancelledStays`, `DoneStays`, `GivesUpLate`),
`QueueImplementsSlots`, `AlwaysQueuedOnce`, `SecondOnlyByRetry`.  The properties are not inductive
alone: that a running row is held needs that no thread holds anything while the process is down
(else a restart would put back what somebody runs), and that a thread holds its row alone needs that
a thread with nothing was not overtaken.  The limit is preserved because a claim is the one step
that adds to the transcriptions marked running, and adds one below the limit; the same lemma gives
the refinement to `Slots`.  For the last two, a step is looked at by what it adds to the jobs of one
key: only an insert that found none, a retry, or the failure of a thread that was overtaken.

**`TranscriptionProofs`, the composition.**  Every step is a step of `JobQueue` or leaves its table alone by
how the composition is written (the lemma `TranscriptionIsQueue`), so `IInv` is carried over
(`QueueInvariantHolds`), not proved again.  `OneLatePart`
rests on `LateOnce`: a thread that has sent a part too late reads its job as cancelled, so it asks
before it sends another.  `TTypeCorrect` needs what stands between a row and its number: an upload's
row is the one it was given, and a number is free when nobody has it.  `AlwaysOneActive`: the one
step that adds a transcript takes the mark from the others of that row.  `DoneMeansDone`: a thread
that has written has a transcript of its job's, and transcripts leave only with their recording.
`StraysOnlyForACause`: a part file belongs to a thread that will remove it, until a crash or a cut
that fails.

**`TranscriptionProofs`, chunking.**  `PlansCover`, `WordsAreKept`, `NothingFallsDownTheGap`,
`NamesAreVoices` (the first, the third and the last together: `ChunksHoldTogether`), for any recording, pauses, ceiling and overlap, and with the rounding of `//`.
The invariant says that cuts go forwards by a ceiling at most and stop short of the end, and that
every answer is what the engine can give to its part; so parts begin and end in order, and seams
follow each other, each between where a part begins and where the one before ends.  That every
instant has one part is the least part whose seam lies behind it.  A word shorter than the overlap
lies whole in that part, by half an overlap on either side; a piece of it that another part heard
has its middle on the wrong side of *that* part's seam, even where both middles are rounded.  For
longer speech the part that keeps some is the first that does not leave what it heard to the next.

**`TrashProofs`.**  `TypeCorrect`, `TrashInvariant`, `AccountsKeepALibrary`, `BinImplemented`: what
the lock's holder is about to commit is still there, and its owner keeps a library beside it,
whatever committed last.  `DueThingsGo`: a thing stamped before the purge's instant is selected or
its library is.  `LooksHold` says of every summary and every empty under way which moment each of
its queries is true of, and `EmptyTakesWhatWasCounted` follows: what is destroyed uncounted was on
its way into the trash while it was counted, or its user has been granted something since.

**`FilesProofs`.**  `FilesInvariant` (with `RowsHaveOriginals`, `StraysAreExplained`): an upload
comes first, what is being removed has neither a row nor an upload that could give it one, and a
thread about to record a derivative has it on disk or its recording has left.  `FsckInvariant` (with
`OrphansAreFound`, `NoLossIsInvented`): an orphan stays one, so fsck need not be a snapshot.
`TheDiskHoldsTogether` is the two.
`OnlyWhatWasAgreed`: each call carries what was counted when it was confirmed; what it can take
besides is what the two lists missed between them.  This proof found a second way for that to
happen, which TLC's first instance was too small for: see the trash page in section 5.

**`ChangesProofs`.**  `TypeCorrect`, `HeardInvariant`, `HearsOfEverything`: answers are drawn in the
order they were read in; until a stream has been open, whatever a page is behind on was unheard of.

**`UploadsProofs`.**  `UploadsInvariant`, `TrayHoldsTogether`, `NeverTwiceUnasked`: with one run of
`drain()`, what is awaited is what is in hand; what passes the check unasked was waved through, and
what was not there when it was asked for is not there yet, because nothing else stores bytes but a
request given up before.  `DialogHoldsTogether`: what was handed over is a batch of what was
offered, with nothing of an opening before it, and a chosen category is of the library the files
would go into until that one moves under it (`ChosenInv`).

**`FrameProofs`, the session.**  `OnePersonAtATime`, `OnlyACauseSendsAway`: a query on its way was sent for the
session the cookie is for now, or the cache it will be put into has been replaced; a write carries
the caller it was resolved to.  That a live session knows its account's password holds because a
change revokes the others in the transaction that sets it.

**`FrameProofs`, the player and the page.**  `PlaybackHoldsTogether`, `PositionsStand`,
`APersonReleases`.  Of the player (`PlayerInOrder`): the element has the bar's source unless a token
was overtaken; tokens were minted for the source that uses one; the place shown is behind the
element's unless something seeks; what says it plays plays or has an event on its way that will say
otherwise; and what sounds is announced.  With that the states `PlayerInv` used to except turned out
not to need it: a token that is overtaken, or an event nobody hears, leaves the bar and the element
in step.  Of the page (`PageInOrder`): a scroll of its own has somewhere to go and the window in
which it counts as its own is open for as long as it lasts, so what releases the following came from
a person; a readout on the waveform is a drag's, and the picture is drawn where the panel is.

**`LibraryProofs`.**  `LibraryInvariant`, `RowsStayCurrent`, `TagsStripForACause`.  Neither property
says anything while a run is under way, so neither is inductive: in between, a row of the cache is
as the instance has it, or marked, or overtaken, or *untold* - changed by a run that has not told
the cache yet.  What makes it hold again is that the end of a run marks every query, not only the
one on screen, and not before its last answer.  For the tags, a run is sound when it is alone and
its source was not behind when it began; what it has still to send was read as it is, because
whatever else changes the instance disturbs it, and its own answers leave what it has to send.  The
one assumption added for the proof is that no query bears the name of what is not a query.

**`ScreensProofs`.**  Each part is an invariant of its own scene, inductive by itself.  `TreeStays`:
a category is above another when it is in every set that holds the other and is closed under
parents, so each lemma finds one closed set; moving under a descendant is the step that is refused.
`EditsSettle`, `TagsGoForACause`: the last mark that waits is the last one pressed; a recording as
held, read or drawn tells of so many presses, and with none refused its mark is the one the last of
them asked for, so a copy that tells of them all shows what is held; what was read while no field is
in flight is what is held; a field that was sent alone is alone still.  `CopiesStayFresh`: every
write reaches whatever it changed, replaces it, or is listed as overlooking it (a lemma about the
tables of `Staleness`, so worth what the lines they name are); so a copy that is not marked has
seen every write of the page's whose answer has come, except those of the list and those that were
lost.  `LateAnswersStand` is three: a card's two answers of something over cannot both be the last
(a failed job stays failed and a transcript stays, so the older is the one asked for again); a page
that was turned to over its own rows is a page of them, so an empty one means nothing was found; and
what a form follows is what it sent last, unless it was closed in between.  `PlacesAreKept`: each
open overlay has its listener, one opens only with those it belongs to, and the focus is on
something shown; closing keeps the lock and the covers agreed unless two covers are cleaned up in the
order they opened.  What the listeners make of a key, one after the other, is a recursive function;
that its runs exist is a lemma of its own (`RunExists`, by the least step that is missing).

**Only model-checked.**  Every invariant and every action property of a run is a theorem.  Left to
TLC is liveness: `EverySettles`, `BadgeSettles`, `CatchesUp`, `EveryFileIsAnswered`,
`ListeningGoesOn`, `DeadSessionLeaves`.  The installed provers have no rules for fairness or
ENABLED.

## 5. Where the code and what is said of it disagree

One is a run.

- `TranscriptOfItsRecording` (`jobs/handlers.py:340`, "the recording this job is about"): the row
  number read when a transcription starts may be another recording's when its transcript is written.

The others below were found by TLC in the modules, on the statement named or on one the model had
to weaken, or were met while translating; they are described here instead of each having a run.

**The instance.**

- `transcription/chunking.py:19`, "so nothing is emitted twice": the rule is about
  instants, and what is kept are segments.  An utterance longer than the overlap, across a cut, is two
  segments with a middle each on its own side of the seam.  The repository's plan knows it
  (`src/docs/next-plan/transcription.md:53`); `WordsComeBackOnce` is what is true.
- `transcription/chunking.py:110`, "the longest part the configured engine will accept": every part
  but the first is up to that long *and* an overlap (`:157`), which is what `PlanCovers` states.  Bytes
  have a tenth of headroom; a duration the engine declared has none.
- `transcription/chunking.py:50`, "the planner absorbs it into its neighbour": the least length is
  asked of a pause before a cut, not of what is left after the last one.
- `AttemptsBounded` (`jobs/queue.py:340`): a job that kills the process is claimed again and again;
  `recover_interrupted` and `claim` never compare attempts with `MAX_ATTEMPTS`, only `fail` does.
- `InFlightWithinLimit` (`jobs/queue.py:139`, `core/config.py:154`) and `OneWorkerPerJob`
  (`jobs/queue.py:14`): a job cancelled while its handler runs and then retried has two threads, and
  the engine more requests than the limit; the *marked* ones never exceed it.
- `CancelledLeavesNothing` (`jobs/queue.py:311`): a cancellation between the transcript's write
  session and the job's outcome leaves a cancelled job with a transcript.
- `ChargedOnce` (`transcription/contract.py:163`): a part whose answer died with the process is sent
  again by the recovered job.
- `EmptyTakesTheCounted` (`db/trash.py:65`): a recording stamped before a summary's instant and
  committed after its count is destroyed by the empty that the summary's numbers did not cover.
- `NothingHidden` (`jobs/retention.py:15`): files are removed in listing order, so a removal that
  is cut short can leave `derived.opus` alone, which `fsck` does not report.  On a live instance
  `fsck` also reports an upload that commits while it looks (`media/storage.py:176`).
- `PlaysItsOwn` (`api/routes/ingest.py:166`): a transcode records its path by row number, so a
  recording whose number came back can be given another's `derived_path`; and two encoders of one
  recording share a staging name (`media/transcode.py:31-36`).
- `jobs/worker.py:149-153` announces whatever a handler returned from, cancelled jobs included,
  while the requests that cancel or edit announce nothing (`worker.py:135-139`).
- `NeverQuietlyBehind` (`app/tests/events.test.tsx:6`): a job that settles between a page's first
  fetch and its subscription is announced to nobody, and the page stops polling.
- `db/categories.py`: categories tie in position only after a reorder made from an old list, not
  "after a re-parent" (`features/library/categories.ts:10`), since a moved one is put last; and a
  number that came back lets an old page rename, delete or file under another category than it drew.
- `share_library` also lowers a level, where its docstring says raise; two administrators disabling
  one another leave none; a late grant adds a person who was revoked meanwhile.
- `api/deps.py:104`: a caller resolved before the write lock is the caller still after it, whatever
  revoked the session in between.

**The player and the recording's page.**

- `PressedPlays` (`player/audio.ts:154`): at the end of a recording the transport looks pressed and
  is silent.  A token asked for one recording can start it after the bar has gone
  (`audio.ts:182-188`), and an AbortError of the old source fails the new one (`store.ts:29`).
- The system's `play` and `pause` both toggle; a seek back with an unknown duration is negative
  (`store.ts:155-162`); the phone's player is expanded again after a stop.
- `PreviewIsADrag` (`design-system/components/media/Waveform.tsx:126`); a seek does not resume the
  following (`use-follow.ts:27-29`), and some scrolls of a person's do not stop it (`:5`).
- `DoneHasItsTranscript` (`features/recording/transcription.ts:72`): a recording that arrives done
  has no status to compare with, so a transcript missed on the way in stays missing; and reading
  again does not always make the two answers agree (`:97`).

**The session.**

- `SignOutDiscards` (`app/session.ts:113`): a sign-out whose answer was lost leaves a session that
  works.  A late 401 bounces a fresh sign-in; a sign-out settled late empties the next person's
  cache, and a late write is put into it (`metadata.ts:55`).  The player and the upload queue are
  not cleared.

**Lists, edits and the trash page.**

- `AddingStripsNothing` (`features/library/use-bulk.ts:9-12`): adding a tag after everything was
  selected, or from rows read before a change, takes others off.  Ticks beyond the first page of the
  dense list are counted and not acted on; a selection made during a run is dropped; a part of the
  trashings failing offers Retry and no Undo; offsets skip and double rows as the list shifts.
- `OnlyWhatWasTyped` (`design-system/components/data/InlineField.tsx:19`): a field only passed
  through saves the title it opened with.  A heart that failed is put back over later presses
  (`use-favourite.ts:17-18`).  "Every copy already says what the server now holds" (`:14`): a press
  drops the reads in flight, not one that begins after it and reaches the instance before the mark
  does, nor a field's answer.  What such a read brings is drawn with the heart as it was, clears
  the mark that says it is stale if it lands last, and nothing reads again; `MarkIsShown` and
  `CopyIsCurrent` say when the sentence is true.  Two quick tags: the second takes the first off
  (`TagEditor.tsx:79`).
- The trash page's two lists are read apart.  A recording restored into a selected library between
  the readings, or trashed with its library between them, is destroyed and was not counted; in the
  other order it is counted twice (`selection.ts`, "counted once").  The second of these was found
  by the proof of `OnlyWhatWasAgreed`.  Of two purges in a row only the last's callbacks fire; a row
  that is refused says nothing; the count of the dialog before is shown first (`NeverFromTheCache`,
  `data.ts:163`).

**Overlays, uploads and search.**

- Escape closes every open overlay, contrary to `use-anchored-overlay.ts`; two covers that close in
  the order they opened leave the page locked; `/` and the player's keys act under a dialog; the
  click that closes an overlay also reaches what is behind it.
- `TheQueueDoesNot` (`features/upload/uploads.ts:252`): a 2xx answer that is not JSON raises inside
  the listener, and the queue stands still behind it.  `again` (`uploads.ts:193`) passes by the
  duplicate check, so a file stored before its answer was lost is stored twice.
- A tray with a file that failed or is too large cannot be closed (`Uploads.tsx:76`), although
  `clear` would allow it (`uploads.ts:203`) and `UploadTray.tsx` says it can.  On a phone nothing
  tells the cache of files that arrive while the Upload tab is shut.
- A category of another library is handed over when the suggestion moved (`UploadDialog.tsx:227`);
  before the instance's limits are known everything is accepted; crossing the phone's width empties
  an open dialog.
- Typing on `/search` drops every filter (`app/routes.ts`); Back leaves the field as it was
  (`AppShell.tsx`); Next over rows that are still the last page's turns past the end, and "nothing
  matched" is drawn under a count; an earlier search is returned to on its later page.

**The cache and the forms.**

- Clearing a library's description does nothing (`LibrarySettingsView.tsx:149` sends null, which
  `update_library` takes as no change).  A trash answered after its page was left navigates anyway
  and marks nothing (`RecordingActions.tsx:98-99`).  A bulk change leaves recordings' own pages and
  the tags stale (`use-bulk.ts:151-156`), a renamed account its name everywhere, an administrator's
  retry the recording.  A first load in flight when a write is answered is not restarted and clears
  the mark.  `Staleness` lists these as overlooked, each at its line.
- `api/query-client.ts:21`, "a write that failed says so": not when a form that says it itself was
  closed, left or sent again before the refusal.  A late success closes and empties a dialog that
  was opened again (`CreateLibraryDialog`, new accounts, ending sessions); `SetPasswordDialog` closed
  early sets a password nobody is shown, and two that cross show one that is not the account's.

## 6. What is not modelled, and why

- Of chunking, where ffmpeg hears a pause (`parse_silences`) and how many milliseconds a number of
  bytes holds (`max_part_ms_for`) are given; `Transcription` takes the number of parts as given.
- Search's SQL, presenters, schemas, configuration, migrations and rendering keep no state of their
  own.  Providers are one request per part, whose outcomes are the handler's.  Import, export,
  backup and the command line copy files around the modelled operations; of them only `fsck` runs
  beside a live instance, and it is modelled.
- Of the handlers, probing and the waveform are one request to a tool and one write; only the jobs
  they queue matter to the models here.
- SQLite and the file system are taken as they are: a commit is atomic, a rename is atomic, a crash
  loses nothing that was committed.  The pruning of empty shard directories
  (`media/storage.py:197`) is left out.
- The rate limit on signing in, the first account, and other tabs of the same browser; volume, speed
  and the words of a transcript; access below *edit*, which writes nothing.
- Texts, durations and the bytes of requests are abstracted to what the properties tell apart.

## 7. What is left

1. A composition of `Transcription` and `RecordingFiles` over one purge, where the row number that
   comes back is the same for both handlers.
2. The liveness properties, with a prover that has rules for fairness.
3. `PlacesAreKept` for any page: which overlays hold which would become an assumption instead of
   `MCScreens`' definitions.
