----------------------------- MODULE RecordingFiles -----------------------------
(***************************************************************************)
(* A recording's row and its files, which cannot change together           *)
(* (media/storage.py, api/routes/ingest.py, media/transcode.py,            *)
(* handle_transcode and handle_purge in jobs/handlers.py,                  *)
(* cli/integrity.py): an upload stores the file before the row, a purge    *)
(* removes the row before the files, a transcode works on the files for    *)
(* an hour with no row locked, and fsck compares the two while all of it   *)
(* goes on.                                                                *)
(*                                                                         *)
(* Abstractions.  A transcription's part files are Transcription's, and    *)
(* the levels a purge asks for are Trash's.  A crash and the restart that  *)
(* follows are one step, since only fsck acts between them.  The job table *)
(* is one transcode job per recording; JobQueue has the whole of it.  Row  *)
(* numbers are SQLite's, reused once their row has gone.  Hashes match.    *)
(***************************************************************************)
EXTENDS Naturals, FiniteSets, Sequences, SequencesExt

CONSTANTS
    Recordings,
    Threads,
    Purgers,        \* requests and purge jobs that destroy recordings
    MaxCrashes,     \* bound on how often the process dies
    Checked,        \* whether somebody runs fsck meanwhile
    NoFile

ASSUME FilesAssumption ==
    /\ IsFiniteSet(Recordings)
    /\ Recordings \cap Purgers = {}
    /\ NoFile \notin Recordings
    /\ MaxCrashes \in Nat /\ Checked \in BOOLEAN

VARIABLES
    row,        \* each recording's row number; 0 while it has no row
    derived,    \* derived_path of each row: whose directory it points into
    dirs,       \* the directories on disk
    files,      \* what is in each
    uploader,   \* how far each recording's upload has come
    remover,    \* what each removal has still to remove
    job,        \* each recording's transcode job
    at,         \* where each thread is in handle_transcode
    fsck,       \* the integrity check
    crashes,
    cutShort    \* history: recordings whose upload or removal did not complete

server == <<row, derived, dirs, files, uploader, remover, job, at>>
vars == <<server, fsck, crashes, cutShort>>

-----------------------------------------------------------------------------
\* Names in a recording's directory, in the order a directory listing sorts
\* them: the two written under a leading dot come first.
STAGING == ".derived.opus.partial"
UPLOADING == ".original.partial"
DERIVED == "derived.opus"
ORIGINAL == "original"
Listing == <<STAGING, UPLOADING, DERIVED, ORIGINAL>>
Names == {STAGING, UPLOADING, DERIVED, ORIGINAL}

HasRow(r) == row[r] # 0
IsNextRow(n) == /\ n \in 1..Cardinality(Recordings)
                /\ \A r \in Recordings : row[r] < n
                /\ n = 1 \/ \E r \in Recordings : row[r] = n - 1

\* A removal: the recordings still to go, and of the first one what was listed
\* and has not been come to.
Idle == [todo |-> <<>>, listed |-> FALSE, left |-> {}]

\* Each recording of a purge is removed by the purge, each failed upload by
\* its own request.
Removers == Purgers \cup Recordings

\* Past locate, a thread holds the paths it found and looks at no row again
\* until it records.
Located == {"mkdir", "open", "encode", "replaced", "failed", "record"}
Steps == {"none", "locate", "returned", "raised"} \cup Located

Home == [step |-> "none", of |-> NoFile, row |-> 0, about |-> NoFile]

Unchecked == [step |-> "idle", busy |-> {}, todo |-> {}, seen |-> {}, missing |-> {},
              orphans |-> {}, standing |-> {}]

GoTo(t, step) == at' = [at EXCEPT ![t].step = step]

Put(r, name) == files' = [files EXCEPT ![r] = @ \cup {name}]
Unlink(r, name) == files' = [files EXCEPT ![r] = @ \ {name}]

-----------------------------------------------------------------------------
Init ==
    /\ row = [r \in Recordings |-> 0]
    /\ derived = [r \in Recordings |-> NoFile]
    /\ dirs = {}
    /\ files = [r \in Recordings |-> {}]
    /\ uploader = [r \in Recordings |-> "none"]
    /\ remover = [p \in Removers |-> Idle]
    /\ job = [r \in Recordings |-> "none"]
    /\ at = [t \in Threads |-> Home]
    /\ fsck = Unchecked
    /\ crashes = 0
    /\ cutShort = {}

-----------------------------------------------------------------------------
(* Uploading: bytes, then the row, or the bytes away again *)

Receive(r) ==
    /\ uploader[r] = "none"
    /\ uploader' = [uploader EXCEPT ![r] = "receiving"]
    /\ dirs' = dirs \cup {r}
    /\ Put(r, UPLOADING)
    /\ UNCHANGED <<row, derived, remover, job, at, fsck, crashes, cutShort>>

Store(r) ==
    /\ uploader[r] = "receiving"
    /\ uploader' = [uploader EXCEPT ![r] = "stored"]
    /\ files' = [files EXCEPT ![r] = (@ \ {UPLOADING}) \cup {ORIGINAL}]
    /\ UNCHANGED <<row, derived, dirs, remover, job, at, fsck, crashes, cutShort>>

Insert(r) ==
    /\ uploader[r] = "stored"
    /\ uploader' = [uploader EXCEPT ![r] = "over"]
    /\ \E n \in 1..Cardinality(Recordings) : IsNextRow(n) /\ row' = [row EXCEPT ![r] = n]
    /\ UNCHANGED <<derived, dirs, files, remover, job, at, fsck, crashes, cutShort>>

\* A file over the limit, a client that went away, a permission withdrawn, a
\* commit that failed.
Abort(r) ==
    /\ uploader[r] \in {"receiving", "stored"}
    /\ uploader' = [uploader EXCEPT ![r] = "over"]
    /\ Unlink(r, UPLOADING)
    /\ remover' = [remover EXCEPT ![r] = [Idle EXCEPT !.todo = <<r>>]]
    /\ UNCHANGED <<row, derived, dirs, job, at, fsck, crashes, cutShort>>

-----------------------------------------------------------------------------
(* Destroying: the rows in one transaction, the files after it *)

Purge(p, rs) ==
    /\ remover[p] = Idle
    /\ rs # {} /\ \A r \in rs : HasRow(r)
    /\ row' = [r \in Recordings |-> IF r \in rs THEN 0 ELSE row[r]]
    /\ derived' = [r \in Recordings |-> IF r \in rs THEN NoFile ELSE derived[r]]
    /\ job' = [r \in Recordings |-> IF r \in rs THEN "none" ELSE job[r]]
    /\ \E todo \in SetToSeqs(rs) : remover' = [remover EXCEPT ![p].todo = todo]
    /\ UNCHANGED <<dirs, files, uploader, at, fsck, crashes, cutShort>>

\* delete_recording, for the first of the recordings still to go.
First(p) == Head(remover[p].todo)

ListFiles(p) ==
    /\ remover[p].todo # <<>> /\ ~remover[p].listed
    /\ remover' = [remover EXCEPT ![p] =
         IF First(p) \in dirs
         THEN [@ EXCEPT !.listed = TRUE, !.left = files[First(p)]]
         ELSE [Idle EXCEPT !.todo = Tail(remover[p].todo)]]
    /\ UNCHANGED <<row, derived, dirs, files, uploader, job, at, fsck, crashes, cutShort>>

\* One name after another, in the order they were sorted.
Comes(p, name) ==
    \E i \in 1..Len(Listing) : /\ name = Listing[i] /\ name \in remover[p].left
                               /\ \A k \in 1..(i - 1) : Listing[k] \notin remover[p].left

RemoveFile(p) ==   \* one that is gone by then is passed over
    /\ remover[p].listed
    /\ \E name \in Names : /\ Comes(p, name)
                          /\ Unlink(First(p), name)
                          /\ remover' = [remover EXCEPT ![p].left = @ \ {name}]
    /\ UNCHANGED <<row, derived, dirs, uploader, job, at, fsck, crashes, cutShort>>

RemoveDirectory(p) ==
    /\ remover[p].listed /\ remover[p].left = {}
    /\ files[First(p)] = {}
    /\ dirs' = dirs \ {First(p)}
    /\ remover' = [remover EXCEPT ![p] = [Idle EXCEPT !.todo = Tail(remover[p].todo)]]
    /\ UNCHANGED <<row, derived, files, uploader, job, at, fsck, crashes, cutShort>>

\* Something was written since it was listed, or went between being looked at
\* and being unlinked: the removal raises, and the rest is not come to.
Refused(p) ==
    /\ remover[p].listed
    /\ \/ remover[p].left = {} /\ files[First(p)] # {}
       \/ \E name \in Names : Comes(p, name) /\ name \notin files[First(p)]
    /\ remover' = [remover EXCEPT ![p] = Idle]
    /\ cutShort' = cutShort \cup {remover[p].todo[i] : i \in 1..Len(remover[p].todo)}
    /\ UNCHANGED <<row, derived, dirs, files, uploader, job, at, fsck, crashes>>

-----------------------------------------------------------------------------
(* Transcoding *)

\* The probe's last transaction queues the transcode, once for a recording.
Probed(r) ==
    /\ HasRow(r) /\ job[r] = "none"
    /\ job' = [job EXCEPT ![r] = "pending"]
    /\ UNCHANGED <<row, derived, dirs, files, uploader, remover, at, fsck, crashes, cutShort>>

Claim(t, r) ==
    /\ at[t] = Home
    /\ job[r] = "pending"
    /\ job' = [job EXCEPT ![r] = "running"]
    /\ at' = [at EXCEPT ![t] = [step |-> "locate", of |-> r, row |-> row[r], about |-> NoFile]]
    /\ UNCHANGED <<row, derived, dirs, files, uploader, remover, fsck, crashes, cutShort>>

Locate(t) ==
    /\ at[t].step = "locate"
    /\ \/ \E r \in Recordings :
            /\ row[r] = at[t].row /\ ORIGINAL \in files[r]
            /\ at' = [at EXCEPT ![t] = [@ EXCEPT !.step = "mkdir", !.about = r]]
       \/ /\ \A r \in Recordings : row[r] = at[t].row => ORIGINAL \notin files[r]
          /\ GoTo(t, "raised")
    /\ UNCHANGED <<row, derived, dirs, files, uploader, remover, job, fsck, crashes, cutShort>>

MakeDirectory(t) ==
    /\ at[t].step = "mkdir"
    /\ dirs' = dirs \cup {at[t].about}
    /\ GoTo(t, "open")
    /\ UNCHANGED <<row, derived, files, uploader, remover, job, fsck, crashes, cutShort>>

\* ffmpeg opens the original and starts its output afresh under the staging
\* name, which a second encoding of the same recording shares.
Open(t) ==
    LET r == at[t].about IN
    /\ at[t].step = "open"
    /\ IF ORIGINAL \in files[r] /\ r \in dirs
       THEN Put(r, STAGING) /\ GoTo(t, "encode")
       ELSE GoTo(t, "failed") /\ UNCHANGED files
    /\ UNCHANGED <<row, derived, dirs, uploader, remover, job, fsck, crashes, cutShort>>

EncodeFails(t) ==
    /\ at[t].step = "encode"
    /\ GoTo(t, "failed")
    /\ UNCHANGED <<row, derived, dirs, files, uploader, remover, job, fsck, crashes, cutShort>>

Replace(t) ==
    LET r == at[t].about IN
    /\ at[t].step = "encode"
    /\ IF STAGING \in files[r]
       THEN /\ files' = [files EXCEPT ![r] = (@ \ {STAGING}) \cup {DERIVED}]
            /\ GoTo(t, "replaced")
       ELSE GoTo(t, "failed") /\ UNCHANGED files
    /\ UNCHANGED <<row, derived, dirs, uploader, remover, job, fsck, crashes, cutShort>>

\* The staging file goes, whoever's it is by now.
Tidy(t) ==
    /\ at[t].step \in {"replaced", "failed"}
    /\ Unlink(at[t].about, STAGING)
    /\ GoTo(t, IF at[t].step = "replaced" THEN "record" ELSE "raised")
    /\ UNCHANGED <<row, derived, dirs, uploader, remover, job, fsck, crashes, cutShort>>

\* derived_path is written to whichever row has the number now.
Record(t) ==
    /\ at[t].step = "record"
    /\ \/ \E r \in Recordings :
            /\ row[r] = at[t].row
            /\ derived' = [derived EXCEPT ![r] = at[t].about]
            /\ GoTo(t, "returned")
       \/ /\ \A r \in Recordings : row[r] # at[t].row
          /\ GoTo(t, "raised") /\ UNCHANGED derived
    /\ UNCHANGED <<row, dirs, files, uploader, remover, job, fsck, crashes, cutShort>>

\* The outcome is written over whatever the row says by then, but for a
\* cancellation, which stands, and a row that has gone with its recording.
Settle(t) ==
    /\ at[t].step \in {"returned", "raised"}
    /\ IF job[at[t].of] \in {"cancelled", "none"}
       THEN UNCHANGED job
       ELSE \E state \in IF at[t].step = "raised" THEN {"failed", "pending"} ELSE {"done"} :
               job' = [job EXCEPT ![at[t].of] = state]
    /\ at' = [at EXCEPT ![t] = Home]
    /\ UNCHANGED <<row, derived, dirs, files, uploader, remover, fsck, crashes, cutShort>>

Cancel(r) ==
    /\ job[r] \in {"pending", "running"}
    /\ job' = [job EXCEPT ![r] = "cancelled"]
    /\ UNCHANGED <<row, derived, dirs, files, uploader, remover, at, fsck, crashes, cutShort>>

Retry(r) ==
    /\ job[r] \in {"failed", "cancelled"}
    /\ job' = [job EXCEPT ![r] = "pending"]
    /\ UNCHANGED <<row, derived, dirs, files, uploader, remover, at, fsck, crashes, cutShort>>

-----------------------------------------------------------------------------
\* The process dies, and comes back with its interrupted jobs pending.
Crash ==
    /\ crashes < MaxCrashes
    /\ crashes' = crashes + 1
    /\ uploader' = [r \in Recordings |->
                      IF uploader[r] = "none" THEN "none" ELSE "over"]
    /\ remover' = [p \in Removers |-> Idle]
    /\ job' = [r \in Recordings |-> IF job[r] = "running" THEN "pending" ELSE job[r]]
    /\ at' = [t \in Threads |-> Home]
    /\ cutShort' = cutShort
         \cup {r \in Recordings : uploader[r] \in {"receiving", "stored"}}
         \cup {r \in Recordings : \E t \in Threads : at[t].about = r}
         \cup UNION {{remover[p].todo[i] : i \in 1..Len(remover[p].todo)} : p \in Removers}
    /\ UNCHANGED <<row, derived, dirs, files, fsck>>

-----------------------------------------------------------------------------
(* resonand fsck: two queries, then the files row by row, then two listings *)

\* An original nobody will put a row to or remove: what fsck is there to find.
Orphaned(r) ==
    /\ ORIGINAL \in files[r] /\ ~HasRow(r)
    /\ uploader[r] = "over"
    /\ \A p \in Removers : r \notin Range(remover[p].todo)

FsckBegins ==
    /\ Checked /\ fsck.step = "idle"
    /\ fsck' = [fsck EXCEPT !.step = "busy",
                            !.busy = {r \in Recordings : job[r] \in {"pending", "running"}},
                            !.standing = {r \in Recordings : Orphaned(r)}]
    /\ UNCHANGED <<server, crashes, cutShort>>

FsckReadsRows ==
    /\ fsck.step = "busy"
    /\ fsck' = [fsck EXCEPT !.step = "rows",
                            !.seen = {r \in Recordings : HasRow(r)},
                            !.todo = {r \in Recordings : HasRow(r)}]
    /\ UNCHANGED <<server, crashes, cutShort>>

FsckLooksAt(r) ==
    /\ fsck.step = "rows" /\ r \in fsck.todo
    /\ fsck' = [fsck EXCEPT !.todo = @ \ {r},
                            !.missing = @ \cup IF ORIGINAL \in files[r] THEN {} ELSE {r}]
    /\ UNCHANGED <<server, crashes, cutShort>>

FsckListsOriginalsVariant ==   \* a directory something is being written in is passed over
    /\ fsck.step = "rows" /\ fsck.todo = {}
    /\ fsck' = [fsck EXCEPT !.step = "listed",
                            !.orphans = {r \in Recordings \ fsck.seen :
                                           ORIGINAL \in files[r] /\ STAGING \notin files[r]}]
    /\ UNCHANGED <<server, crashes, cutShort>>

FsckListsOriginals ==
    /\ fsck.step = "rows" /\ fsck.todo = {}
    /\ fsck' = [fsck EXCEPT !.step = "listed",
                            !.orphans = {r \in Recordings \ fsck.seen : ORIGINAL \in files[r]}]
    /\ UNCHANGED <<server, crashes, cutShort>>

\* Fragments, but not beside a recording that had a row and a job unfinished.
Leftovers == {r \in Recordings \ (fsck.busy \cap fsck.seen) :
                 files[r] \cap {STAGING, UPLOADING} # {}}

FsckListsLeftovers ==   \* the last it does: the report is printed
    /\ fsck.step = "listed"
    /\ fsck' = Unchecked
    /\ UNCHANGED <<server, crashes, cutShort>>

-----------------------------------------------------------------------------
Transcoder(t) ==
    \/ \E r \in Recordings : Claim(t, r)
    \/ Locate(t) \/ MakeDirectory(t) \/ Open(t) \/ EncodeFails(t)
    \/ Replace(t) \/ Tidy(t) \/ Record(t) \/ Settle(t)

Removal(p) == ListFiles(p) \/ RemoveFile(p) \/ RemoveDirectory(p) \/ Refused(p)

Next ==
    \/ \E r \in Recordings : \/ Receive(r) \/ Store(r) \/ Insert(r) \/ Abort(r)
                             \/ Probed(r) \/ Cancel(r) \/ Retry(r) \/ FsckLooksAt(r)
    \/ \E p \in Purgers, rs \in SUBSET Recordings : Purge(p, rs)
    \/ \E p \in Removers : Removal(p)
    \/ \E t \in Threads : Transcoder(t)
    \/ Crash
    \/ FsckBegins \/ FsckReadsRows \/ FsckListsOriginals \/ FsckListsLeftovers

Spec == Init /\ [][Next]_vars

-----------------------------------------------------------------------------
(* Properties *)

\* Every variable has the values the code can give it.
RowTypes ==
    /\ row \in [Recordings -> 0..Cardinality(Recordings)]
    /\ derived \in [Recordings -> Recordings \cup {NoFile}]
    /\ uploader \in [Recordings -> {"none", "receiving", "stored", "over"}]
    /\ job \in [Recordings -> {"none", "pending", "running", "done",
                              "failed", "cancelled"}]
DiskTypes ==
    /\ dirs \subseteq Recordings
    /\ files \in [Recordings -> SUBSET Names]
Removals == [todo : Seq(Recordings), listed : BOOLEAN, left : SUBSET Names]
RemoverTypes == /\ remover \in [Removers -> Removals]
                /\ \A p \in Removers : remover[p].listed => remover[p].todo # <<>>
ThreadTypes ==
    /\ at \in [Threads -> [step : Steps, of : Recordings \cup {NoFile},
                          row : 0..Cardinality(Recordings),
                          about : Recordings \cup {NoFile}]]
    /\ \A t \in Threads : at[t].step \in Located => at[t].about \in Recordings
CheckTypes ==
    /\ fsck \in [step : {"idle", "busy", "rows", "listed"}, busy : SUBSET Recordings,
                 todo : SUBSET Recordings, seen : SUBSET Recordings, missing : SUBSET Recordings,
                 orphans : SUBSET Recordings, standing : SUBSET Recordings]
    /\ crashes \in 0..MaxCrashes
    /\ cutShort \subseteq Recordings
TypeOK == RowTypes /\ DiskTypes /\ RemoverTypes /\ ThreadTypes /\ CheckTypes

\* A row is never without its original (retention.py:14): the file before the
\* row on the way in, the row before the file on the way out.
RowHasOriginal == \A r \in Recordings : HasRow(r) => ORIGINAL \in files[r]

\* A row that names its own derivative can play it.
DerivativeIsThere ==
    \A r \in Recordings : HasRow(r) /\ derived[r] = r => DERIVED \in files[r]

\* Files no row points at, and that nobody is uploading or removing, are the
\* remains of a crash or of a removal that was refused: nothing else leaves
\* any, a transcode that outlives its recording included.
BeingAddedOrRemoved(r) == \/ uploader[r] \in {"receiving", "stored"}
                          \/ \E p \in Removers : r \in Range(remover[p].todo)
StraysHaveACause ==
    \A r \in Recordings :
        files[r] # {} /\ ~HasRow(r) /\ ~BeingAddedOrRemoved(r) => r \in cutShort

\* An original that was an orphan when fsck began is in its report, whatever
\* goes on while it looks.
FsckFindsOrphans == fsck.step = "listed" => fsck.standing \subseteq fsck.orphans

\* What fsck calls missing had been destroyed by then: it never cries loss.
MissingHadLeft == \A r \in fsck.missing : ~HasRow(r)

\* What makes the first three inductive.  An upload comes first: until it is
\* over there is no row, no removal and no thread, and whatever is removed has
\* neither a row nor an upload that could give it one.
UploadComesFirst ==
    \A r \in Recordings :
        /\ HasRow(r) => uploader[r] = "over"
        /\ ~HasRow(r) => derived[r] = NoFile
        /\ job[r] # "none" => HasRow(r)
        /\ uploader[r] = "none" => files[r] = {}
        /\ uploader[r] = "stored" => ORIGINAL \in files[r]
        /\ uploader[r] # "over" => remover[r] = Idle
        /\ files[r] # {} \/ uploader[r] = "receiving" => r \in dirs

RemovedHaveNoRow ==
    \A p \in Removers : \A r \in Range(remover[p].todo) : ~HasRow(r) /\ uploader[r] = "over"

ThreadsFollow ==
    \A t \in Threads :
        /\ at[t].step # "none" => at[t].row # 0
        /\ at[t].step \in Located => uploader[at[t].about] = "over"
        /\ at[t].step \in {"replaced", "record"} /\ HasRow(at[t].about)
             => DERIVED \in files[at[t].about]

FilesInv == /\ UploadComesFirst /\ RemovedHaveNoRow /\ ThreadsFollow
            /\ RowHasOriginal /\ DerivativeIsThere /\ StraysHaveACause

\* What fsck relies on: an orphan stays one, and a recording it saw a row of
\* has no upload to come.
FsckInv ==
    /\ fsck.step \in {"busy", "rows"} => \A r \in fsck.standing : Orphaned(r)
    /\ fsck.step \in {"idle", "busy"} => fsck.seen = {}
    /\ fsck.step = "rows" => fsck.standing \cap fsck.seen = {}
    /\ fsck.step = "listed" => fsck.standing \subseteq fsck.orphans
    /\ \A r \in fsck.todo \cup fsck.missing : uploader[r] = "over"
    /\ MissingHadLeft

\* What is on disk, and what fsck makes of it.
DiskInv == FilesInv /\ FsckInv

-----------------------------------------------------------------------------
(* What the documentation says, and the code does not do *)

\* Files that outlive their row are orphans, which fsck reports (retention.py:15).
NothingHidden ==
    \A r \in Recordings :
        DERIVED \in files[r] /\ ~HasRow(r) /\ ~BeingAddedOrRemoved(r) => ORIGINAL \in files[r]

\* An orphan is a recording the database has forgotten (storage.py:176).
OrphansAreForgotten == fsck.step = "listed" => \A r \in fsck.orphans : ~HasRow(r)

\* What is being written is not reported as left behind (ING-13a).
Writing(r) == \E t \in Threads : at[t].about = r /\ at[t].step = "encode"
LeftoversAreLeft == fsck.step = "listed" => \A r \in Leftovers : ~Writing(r)

\* A recording is playable from the moment it is uploaded (ingest.py:166): its
\* derived_path never names another's files.
PlaysItsOwn == \A r \in Recordings : derived[r] \in {r, NoFile}
=============================================================================
