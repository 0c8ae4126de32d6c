------------------------------- MODULE Uploads -------------------------------
(***************************************************************************)
(* The upload queue in the browser (frontend/src/features/upload/          *)
(* uploads.ts, with the buttons Uploads.tsx and DuplicateNotice.tsx put on *)
(* it): files are hashed, asked about, sent and filed one at a time, while *)
(* people add more, answer duplicate warnings and send failed ones again.  *)
(*                                                                         *)
(* Abstractions.  A batch is its files added in a row, since nothing runs  *)
(* between two of them.  Of the instance only which copies of a file's     *)
(* bytes it has is kept, and nobody else stores any.  Progress in bytes is *)
(* only the last of it.  What runs between two awaits is one action.       *)
(***************************************************************************)
EXTENDS Naturals, Sequences, FiniteSets

CONSTANTS
    Files,          \* that are chosen; the same bytes chosen twice are two
    Contents,       \* what is in them
    ContentOf,
    Oversized,      \* the files over the instance's limit
    MaxAgain        \* bound on how often somebody sends a failed file again

ASSUME UploadsAssumption ==
    /\ ContentOf \in [Files -> Contents]
    /\ Oversized \subseteq Files
    /\ MaxAgain \in Nat

VARIABLES
    status,     \* of each file's row
    pending,    \* the files queued, and whether somebody has waved each through
    held,       \* the files kept for an answer or another attempt
    running,    \* the flag drain() guards itself with
    drains,     \* where each run of drain() is
    restoring,  \* what has come of restoring the copy in the trash instead
    archive,    \* which copies of each content the instance has
    late,       \* requests the page has given up and the instance has not
    again,      \* how often a failed file was sent again
    unasked,    \* history: the files somebody waved through, or whose check failed
    abandoned,  \* history: the files that have been in `late`
    twice       \* history: the files stored when a copy of them was there

tray == <<status, pending, held, running, drains>>
history == <<again, unasked, abandoned, twice>>
vars == <<tray, restoring, archive, late, history>>

-----------------------------------------------------------------------------
NoRow == {"unchosen", "cleared"}
InFlight == {"waiting", "checking", "uploading", "storing"}
Statuses == NoRow \cup InFlight \cup {"duplicate", "done", "skipped", "too-large", "failed"}

\* What a run of drain() awaits.  The duplicate check is answered once the
\* instance has looked, the upload once it has stored the file; `lost` is a
\* promise that never settles.
Steps == {"checking", "nothing", "here", "trashed", "sending", "stored", "filing", "lost"}

Entry(f, anyway) == [file |-> f, anyway |-> anyway]
HasRow(st, f) == st[f] \notin NoRow

Init ==
    /\ status = [f \in Files |-> "unchosen"]
    /\ pending = <<>>
    /\ held = {}
    /\ running = FALSE
    /\ drains = {}
    /\ restoring = [f \in Files |-> "no"]
    /\ archive \in [Contents -> SUBSET {"here", "trashed"}]
    /\ late = {}
    /\ again = 0
    /\ unasked = {} /\ abandoned = {} /\ twice = {}

-----------------------------------------------------------------------------
(* drain() *)

\* The next file with a row is taken, and drain() goes as far as its first
\* await; with none it ends.
Loop(p, st, ds) ==
    \/ /\ \A i \in 1..Len(p) : ~HasRow(st, p[i].file)
       /\ pending' = <<>>
       /\ status' = st
       /\ drains' = ds
       /\ running' = FALSE
    \/ \E i \in 1..Len(p) :
         /\ HasRow(st, p[i].file) /\ \A k \in 1..(i - 1) : ~HasRow(st, p[k].file)
         /\ pending' = SubSeq(p, i + 1, Len(p))
         /\ status' = [st EXCEPT ![p[i].file] = IF p[i].anyway THEN "uploading" ELSE "checking"]
         /\ drains' = ds \cup {[step |-> IF p[i].anyway THEN "sending" ELSE "checking",
                                file |-> p[i].file]}
         /\ running' = TRUE

\* One at a time.
Drain(p, st) ==
    IF running THEN /\ pending' = p /\ status' = st
                    /\ UNCHANGED <<running, drains>>
    ELSE Loop(p, st, drains)

\* On to the next await with this file, or to the next file.
GoesOn(d, step) == drains' = (drains \ {d}) \cup {[d EXCEPT !.step = step]}
EndsVariant(d, outcome) ==   \* the queue stops with the file
    /\ status' = [status EXCEPT ![d.file] = outcome]
    /\ drains' = drains \ {d} /\ running' = FALSE /\ UNCHANGED pending
Ends(d, outcome) == Loop(pending, [status EXCEPT ![d.file] = outcome], drains \ {d})

\* The instance looks for the file's bytes, the trash included, and reports
\* the first copy it finds.
Looks(d) ==
    LET copies == archive[ContentOf[d.file]] IN
    /\ d.step = "checking"
    /\ IF copies = {} THEN GoesOn(d, "nothing") ELSE \E copy \in copies : GoesOn(d, copy)
    /\ UNCHANGED <<status, pending, held, running, restoring, archive, late, history>>

WarnsVariant(d) ==   \* of what is not in the trash only
    /\ d.step \in {"here", "trashed"}
    /\ IF d.step = "here"
       THEN held' = held \cup {d.file} /\ Ends(d, "duplicate")
       ELSE /\ GoesOn(d, "sending") /\ status' = [status EXCEPT ![d.file] = "uploading"]
            /\ UNCHANGED <<pending, held, running>>
    /\ restoring' = [restoring EXCEPT ![d.file] = IF d.step = "trashed" THEN "offered" ELSE "no"]
    /\ UNCHANGED <<archive, late, history>>

Warns(d) ==
    /\ d.step \in {"here", "trashed"}
    /\ held' = held \cup {d.file}
    /\ Ends(d, "duplicate")
    /\ restoring' = [restoring EXCEPT ![d.file] = IF d.step = "trashed" THEN "offered" ELSE "no"]
    /\ UNCHANGED <<archive, late, history>>

StartsSending(d) ==
    /\ GoesOn(d, "sending")
    /\ status' = [status EXCEPT ![d.file] = "uploading"]
    /\ UNCHANGED <<pending, held, running, restoring, archive, late>>

FindsNothing(d) ==
    /\ d.step = "nothing"
    /\ StartsSending(d)
    /\ UNCHANGED history

\* A failure to check is not a failure to upload.
CheckFails(d) ==
    /\ d.step \in {"checking", "nothing", "here", "trashed"}
    /\ StartsSending(d)
    /\ unasked' = unasked \cup {d.file}
    /\ UNCHANGED <<again, abandoned, twice>>

\* The last byte has gone to the socket.
Progress(d) ==
    /\ d.step \in {"sending", "stored"} /\ status[d.file] = "uploading"
    /\ status' = [status EXCEPT ![d.file] = "storing"]
    /\ UNCHANGED <<pending, held, running, drains, restoring, archive, late, history>>

\* The instance stores the file and commits its row.
Stored(f) ==
    /\ archive' = [archive EXCEPT ![ContentOf[f]] = @ \cup {"here"}]
    /\ twice' = IF archive[ContentOf[f]] = {} THEN twice ELSE twice \cup {f}
    /\ UNCHANGED <<status, pending, held, running, restoring, again, unasked, abandoned>>

Stores(d) ==
    /\ d.step = "sending"
    /\ Stored(d.file)
    /\ GoesOn(d, "stored")
    /\ UNCHANGED late

StoresLate(f) ==
    /\ f \in late
    /\ late' = late \ {f}
    /\ Stored(f)
    /\ UNCHANGED drains

\* The instance refuses the file, or the connection breaks, which the instance
\* may notice or not, before it has stored the file or after.
Fails(d) ==
    /\ d.step \in {"sending", "stored"}
    /\ held' = held \cup {d.file}
    /\ Ends(d, "failed")
    /\ \/ UNCHANGED <<late, abandoned>>
       \/ /\ d.step = "sending"
          /\ late' = late \cup {d.file} /\ abandoned' = abandoned \cup {d.file}
    /\ UNCHANGED <<restoring, archive, again, unasked, twice>>

\* An answer that is not what it says it is raises inside the listener, where
\* nothing rejects the promise.
Unreadable(d) ==
    /\ d.step \in {"sending", "stored"}
    /\ GoesOn(d, "lost")
    /\ UNCHANGED <<status, pending, held, running, restoring, archive, late, history>>

Answered(d) ==
    /\ d.step = "stored"
    /\ GoesOn(d, "filing")
    /\ UNCHANGED <<status, pending, held, running, restoring, archive, late, history>>

\* The category is set, or is not, and nothing is said of it.
Filed(d) ==
    /\ d.step = "filing"
    /\ Ends(d, "done")
    /\ UNCHANGED <<held, restoring, archive, late, history>>

-----------------------------------------------------------------------------
(* People *)

Add(f) ==
    /\ status[f] = "unchosen"
    /\ IF f \in Oversized THEN Drain(pending, [status EXCEPT ![f] = "too-large"])
       ELSE Drain(Append(pending, Entry(f, FALSE)), [status EXCEPT ![f] = "waiting"])
    /\ UNCHANGED <<held, restoring, archive, late, history>>

\* Back onto the queue, past the duplicate check.
Requeue(f) ==
    /\ f \in held
    /\ held' = held \ {f}
    /\ Drain(Append(pending, Entry(f, TRUE)), [status EXCEPT ![f] = "waiting"])
    /\ unasked' = unasked \cup {f}
    /\ UNCHANGED <<restoring, archive, late, abandoned, twice>>

SendAnyway(f) ==
    /\ status[f] = "duplicate"
    /\ Requeue(f)
    /\ UNCHANGED again

SendAgain(f) ==
    /\ status[f] = "failed"
    /\ again < MaxAgain /\ again' = again + 1
    /\ Requeue(f)

Skip(f) ==
    /\ IF status[f] = "duplicate"
       THEN held' = held \ {f} /\ status' = [status EXCEPT ![f] = "skipped"]
       ELSE UNCHANGED <<held, status>>
    /\ UNCHANGED <<pending, running, drains, archive, late, history>>

LeaveAlone(f) ==
    /\ status[f] = "duplicate"
    /\ Skip(f)
    /\ UNCHANGED restoring

\* Restoring the copy in the trash instead: pressed, done by the instance or
\* refused, and answered, by when the file may have been sent anyway.
Restore(f) ==
    /\ status[f] = "duplicate" /\ restoring[f] = "offered"
    /\ restoring' = [restoring EXCEPT ![f] = "asked"]
    /\ UNCHANGED <<tray, archive, late, history>>

Restored(f) ==
    LET c == ContentOf[f] IN
    /\ restoring[f] = "asked"
    /\ \/ /\ restoring' = [restoring EXCEPT ![f] = "done"]
          /\ archive' = IF "trashed" \in archive[c]
                        THEN [archive EXCEPT ![c] = {"here"}] ELSE archive
       \/ restoring' = [restoring EXCEPT ![f] = "offered"] /\ UNCHANGED archive
    /\ UNCHANGED <<tray, late, history>>

RestoreAnswered(f) ==
    /\ restoring[f] = "done"
    /\ restoring' = [restoring EXCEPT ![f] = "no"]
    /\ Skip(f)

\* The tray can be closed once every row is done or skipped.
Clear ==
    /\ \A f \in Files : HasRow(status, f) => status[f] \in {"done", "skipped"}
    /\ status' = [f \in Files |-> IF HasRow(status, f) THEN "cleared" ELSE status[f]]
    /\ UNCHANGED <<pending, held, running, drains, restoring, archive, late, history>>

-----------------------------------------------------------------------------
Drives(d) ==
    \/ Looks(d) \/ Warns(d) \/ FindsNothing(d) \/ CheckFails(d)
    \/ Progress(d) \/ Stores(d) \/ Fails(d) \/ Unreadable(d) \/ Answered(d) \/ Filed(d)

People(f) ==
    \/ Add(f) \/ SendAnyway(f) \/ SendAgain(f) \/ LeaveAlone(f)
    \/ Restore(f) \/ Restored(f) \/ RestoreAnswered(f)

Next ==
    \/ \E d \in drains : Drives(d)
    \/ \E f \in Files : People(f) \/ StoresLate(f)
    \/ Clear

Spec == Init /\ [][Next]_vars

\* A hash comes to an end and a request is answered or given up; what people
\* press, and when, is theirs.
Fairness == WF_vars(\E d \in drains : Drives(d))

FairSpec == Spec /\ Fairness

-----------------------------------------------------------------------------
(* Properties *)

\* Every variable has the values the code can give it.
TypeOK ==
    /\ status \in [Files -> Statuses]
    /\ pending \in Seq([file : Files, anyway : BOOLEAN])
    /\ held \subseteq Files
    /\ running \in BOOLEAN
    /\ drains \subseteq [step : Steps, file : Files]
    /\ restoring \in [Files -> {"no", "offered", "asked", "done"}]
    /\ archive \in [Contents -> SUBSET {"here", "trashed"}]
    /\ late \subseteq abandoned
    /\ again \in Nat
    /\ unasked \subseteq Files /\ abandoned \subseteq Files /\ twice \subseteq Files

\* One file at a time: drain() runs at most once, and its flag says whether.
OneAtATime ==
    /\ \A d, e \in drains : d = e
    /\ running <=> drains # {}

\* Nothing is stranded: what waits is queued, once, with a drain() to come to
\* it; what is being checked or sent is in that drain()'s hands.
Awaited == {"checking", "uploading", "storing"}
NothingStranded ==
    /\ \A i, j \in 1..Len(pending) : pending[i].file = pending[j].file => i = j
    /\ \A f \in Files : status[f] = "waiting" <=> \E i \in 1..Len(pending) : pending[i].file = f
    /\ pending # <<>> => running
    /\ \A d \in drains : status[d.file] \in
         IF d.step \in {"checking", "nothing", "here", "trashed"}
         THEN {"checking"} ELSE {"uploading", "storing"}
    /\ \A f \in Files : status[f] \in Awaited => \E d \in drains : d.file = f

\* Its bytes are kept exactly while a row offers to send them.
BytesKept == \A f \in Files : f \in held <=> status[f] \in {"duplicate", "failed"}

TrayInv == TypeOK /\ OneAtATime /\ NothingStranded /\ BytesKept

\* A file is stored beside a copy of it only because somebody waved it through,
\* the check failed, or a request given up before was carried out after all:
\* the check that precedes the first byte is still good when the last is stored.
Excused(f) ==
    \/ f \in unasked
    \/ \E g \in abandoned : ContentOf[g] = ContentOf[f]
TwiceForACause == \A f \in twice : Excused(f)

\* What makes it inductive: what passes the check unasked was waved through, and
\* what was not there when it was asked for is not there yet.
StillNothing ==
    /\ \A i \in 1..Len(pending) : pending[i].anyway => pending[i].file \in unasked
    /\ \A d \in drains :
         d.step \in {"nothing", "sending"} => archive[ContentOf[d.file]] = {} \/ Excused(d.file)
UploadsInv == TrayInv /\ TwiceForACause /\ StillNothing

\* Every file comes to an end of its own, or to a question for somebody, unless
\* an answer could not be read.
EveryFileIsAnswered ==
    \A f \in Files :
        status[f] \in InFlight ~> status[f] \notin InFlight \/ \E d \in drains : d.step = "lost"

-----------------------------------------------------------------------------
(* What the documentation says, and the code does not do *)

\* The file that failed stops, the queue does not (uploads.ts:252).
TheQueueDoesNot ==
    \A f \in Files : status[f] = "waiting" ~> status[f] # "waiting"
=============================================================================
