---------------------------- MODULE Transcription ----------------------------
(***************************************************************************)
(* What a worker thread does between claiming a transcription and          *)
(* recording its outcome (handle_transcribe in jobs/handlers.py), on top   *)
(* of the job table: the recording's rows, its file and the parts cut from *)
(* it, the transcripts, and the people who upload, cancel, retry, switch   *)
(* transcripts and purge meanwhile.                                        *)
(*                                                                         *)
(* The handler holds no transaction while it works.  It looks its          *)
(* recording up once, by row number, asks before each part whether it is   *)
(* still wanted, and writes the transcript in one write session that asks  *)
(* again.  Each of these is a step of its own here.                        *)
(*                                                                         *)
(* Abstractions.  A recording needs one part, or MaxParts of them, as its  *)
(* length decides.  Segments, languages and texts are left out.  A row     *)
(* number is an SQLite rowid of a table without AUTOINCREMENT, so a purged *)
(* recording's number is the next upload's when it was the largest.  The   *)
(* other kinds of job are JobQueue's.                                      *)
(***************************************************************************)
EXTENDS JobQueue

CONSTANTS
    Long,       \* recordings longer than the engine's ceiling
    MaxParts    \* how many parts a long one is planned in

ASSUME TranscriptionAssumption ==
    /\ Kinds = {Transcribe} /\ HandledKinds = {Transcribe}
    /\ IsFiniteSet(Audios)
    /\ Long \subseteq Audios
    /\ MaxParts \in Nat \ {0, 1}

VARIABLES
    row,         \* each recording's row number; 0 while it has no row
    disk,        \* whether its original is on disk, and about to be removed
    at,          \* where each thread is in handle_transcribe
    parts,       \* the part files on disk: recording and index
    transcripts, \* the transcript table
    cutoff       \* history: parts whose answer the process did not live to see

handler == <<row, disk, at, parts, transcripts, cutoff>>
tvars == <<vars, handler>>

-----------------------------------------------------------------------------
PartsOf(a) == IF a \in Long THEN MaxParts ELSE 1

\* An original is there, is there with a purge about to remove it, or is not.
GONE == "gone"
KEPT == "kept"
DOOMED == "doomed"

Steps == {"none", "locate", "ask", "cut", "send", "await", "write",
          "returned", "raised"}

RowNumbers == 0..Cardinality(Audios)

\* A thread carries the row number its job gave it, and once it has looked
\* that up, the recording it found there and the part it has come to.  `late`
\* is history: the parts it sent although the job read cancelled by then.
Places == [step : Steps, row : Nat, about : Audios \cup {NoAudio},
           part : Nat, late : Nat]

Home == [step |-> "none", row |-> 0, about |-> NoAudio, part |-> 0, late |-> 0]

\* A transcript: whose it is, whose audio it was made from, the job that made
\* it, and whether it is the one shown.
Transcripts == [n : Nat, of : Audios, from : Audios, by : JobId, active : BOOLEAN]

\* A job without a recording carries no row number.
RowOf(a) == IF a \in Audios THEN row[a] ELSE 0

HasRow(a) == row[a] # 0

IsNextRow(n) == /\ \A a \in Audios : row[a] < n
                /\ n = 1 \/ \E a \in Audios : row[a] = n - 1

Cancelled(t) == job[work[t].id].state = CANCELLED

TranscriptsOf(a) == {x \in transcripts : x.of = a}

\* Where a thread's audio is: the original, or the part it cut.
Split(t) == PartsOf(at[t].about) > 1
MoreParts(t) == at[t].part < PartsOf(at[t].about)
PartFile(t) == <<at[t].about, at[t].part>>
SourceThere(t) == IF Split(t) THEN PartFile(t) \in parts
                  ELSE disk[at[t].about] # GONE

GoTo(t, step) == at' = [at EXCEPT ![t].step = step]

-----------------------------------------------------------------------------
TInit ==
    /\ Init
    /\ row = [a \in Audios |-> 0]
    /\ disk = [a \in Audios |-> GONE]
    /\ at = [t \in Threads |-> Home]
    /\ parts = {}
    /\ transcripts = {}
    /\ cutoff = {}

-----------------------------------------------------------------------------
(* The handler, step by step *)

TClaim(t) ==
    /\ Claim(t)
    /\ at' = [at EXCEPT ![t] = [Home EXCEPT !.step = "locate",
                                            !.row = RowOf(job[work'[t].id].audio)]]
    /\ UNCHANGED <<row, disk, parts, transcripts, cutoff>>

\* _locate and _require: whichever recording has the row number now, or a
\* failure if none has, or if its original is missing.
Locate(t) ==
    /\ up /\ at[t].step = "locate"
    /\ \/ \E a \in Audios :
            /\ row[a] = at[t].row
            /\ disk[a] # GONE
            /\ at' = [at EXCEPT ![t].step = "ask", ![t].about = a, ![t].part = 1]
       \/ /\ \A a \in Audios : row[a] = at[t].row => disk[a] = GONE
          /\ GoTo(t, "raised")
    /\ UNCHANGED <<vars, row, disk, parts, transcripts, cutoff>>

AskVariant(t) ==   \* only the first part asks
    /\ up /\ at[t].step = "ask"
    /\ GoTo(t, IF at[t].part = 1 /\ Cancelled(t) THEN "returned"
               ELSE IF Split(t) THEN "cut" ELSE "send")
    /\ UNCHANGED <<vars, row, disk, parts, transcripts, cutoff>>

\* Before each part: is this still wanted?
Ask(t) ==
    /\ up /\ at[t].step = "ask"
    /\ GoTo(t, IF Cancelled(t) THEN "returned"
               ELSE IF Split(t) THEN "cut" ELSE "send")
    /\ UNCHANGED <<vars, row, disk, parts, transcripts, cutoff>>

Cut(t) ==
    /\ up /\ at[t].step = "cut"
    /\ disk[at[t].about] # GONE
    /\ parts' = parts \cup {PartFile(t)}
    /\ GoTo(t, "send")
    /\ UNCHANGED <<vars, row, disk, transcripts, cutoff>>

\* The cut fails or runs out of time.  It is outside the try that removes the
\* part, so what ffmpeg had written of it may stay.
CutFails(t) ==
    /\ up /\ at[t].step = "cut"
    /\ \/ parts' = parts
       \/ disk[at[t].about] # GONE /\ parts' = parts \cup {PartFile(t)}
    /\ GoTo(t, "raised")
    /\ UNCHANGED <<vars, row, disk, transcripts, cutoff>>

\* The file is opened and the request goes out; the answer is awaited.
Send(t) ==
    /\ up /\ at[t].step = "send"
    /\ SourceThere(t)
    /\ at' = [at EXCEPT ![t].step = "await",
                        ![t].late = @ + IF Cancelled(t) THEN 1 ELSE 0]
    /\ UNCHANGED <<vars, row, disk, parts, transcripts, cutoff>>

\* The part's file, if there is one, is removed whatever came of it.
Discard(t) == parts' = parts \ {PartFile(t)}

SendFails(t) ==
    /\ up /\ at[t].step = "send"
    /\ ~SourceThere(t)
    /\ Discard(t)
    /\ GoTo(t, "raised")
    /\ UNCHANGED <<vars, row, disk, transcripts, cutoff>>

AnswerVariant(t) ==   \* the part is removed only when it was the last
    /\ up /\ at[t].step = "await"
    /\ IF MoreParts(t)
       THEN /\ at' = [at EXCEPT ![t].step = "ask", ![t].part = @ + 1]
            /\ UNCHANGED parts
       ELSE GoTo(t, "write") /\ Discard(t)
    /\ UNCHANGED <<vars, row, disk, transcripts, cutoff>>

Answer(t) ==
    /\ up /\ at[t].step = "await"
    /\ Discard(t)
    /\ IF MoreParts(t)
       THEN at' = [at EXCEPT ![t].step = "ask", ![t].part = @ + 1]
       ELSE GoTo(t, "write")
    /\ UNCHANGED <<vars, row, disk, transcripts, cutoff>>

\* The provider refuses, times out or answers nothing.
Refused(t) ==
    /\ up /\ at[t].step = "await"
    /\ Discard(t)
    /\ GoTo(t, "raised")
    /\ UNCHANGED <<vars, row, disk, transcripts, cutoff>>

\* No length can be read, or the segments are not in order.
GivesUp(t) ==
    /\ up /\ at[t].step \in {"locate", "write"}
    /\ GoTo(t, "raised")
    /\ UNCHANGED <<vars, row, disk, parts, transcripts, cutoff>>

ActivatedVariant(x) ==   \* nobody tells the transcript shown so far
    transcripts \cup {[x EXCEPT !.active = TRUE]}

ActivatedGapVariant(x) ==   \* the one shown is switched off, and only a first one on
    {IF y.of = x.of THEN [y EXCEPT !.active = FALSE] ELSE y :
        y \in transcripts \ {x}}
      \cup {[x EXCEPT !.active = TranscriptsOf(x.of) = {}]}

\* activate: this transcript is the one shown of its recording, and no other.
Activated(x) ==
    {IF y.of = x.of THEN [y EXCEPT !.active = FALSE] ELSE y :
        y \in transcripts \ {x}}
      \cup {[x EXCEPT !.active = TRUE]}

\* The last transaction: asked once more, then the transcript is stored under
\* the row number.  A number nobody has violates the foreign key.
Write(t) ==
    /\ up /\ at[t].step = "write"
    /\ \/ Cancelled(t) /\ GoTo(t, "returned") /\ UNCHANGED transcripts
       \/ /\ ~Cancelled(t)
          /\ \A a \in Audios : row[a] # at[t].row
          /\ GoTo(t, "raised") /\ UNCHANGED transcripts
       \/ /\ ~Cancelled(t)
          /\ \E a \in Audios, n \in {1} \cup {x.n + 1 : x \in transcripts} :
               /\ row[a] = at[t].row
               /\ \A x \in transcripts : x.n < n
               /\ transcripts' =
                    Activated([n |-> n, of |-> a, from |-> at[t].about,
                               by |-> work[t].id, active |-> FALSE])
          /\ GoTo(t, "returned")
    /\ UNCHANGED <<vars, row, disk, parts, cutoff>>

\* The outcome, in a write session of its own.
TFinish(t) ==
    /\ at[t].step = "returned"
    /\ Finish(t)
    /\ at' = [at EXCEPT ![t] = Home]
    /\ UNCHANGED <<row, disk, parts, transcripts, cutoff>>

TFail(t) ==
    /\ at[t].step = "raised"
    /\ Fail(t)
    /\ at' = [at EXCEPT ![t] = Home]
    /\ UNCHANGED <<row, disk, parts, transcripts, cutoff>>

TLoseOutcome(t) ==
    /\ at[t].step \in {"returned", "raised"}
    /\ LoseOutcome(t)
    /\ at' = [at EXCEPT ![t] = Home]
    /\ UNCHANGED <<row, disk, parts, transcripts, cutoff>>

-----------------------------------------------------------------------------
(* People and the process *)

\* An upload stores the file and then its row, and may ask for a transcription
\* in the same transaction.
Upload(a) ==
    /\ up
    /\ a \notin purged /\ ~HasRow(a)
    /\ \E n \in RowNumbers : IsNextRow(n) /\ row' = [row EXCEPT ![a] = n]
    /\ disk' = [disk EXCEPT ![a] = KEPT]
    /\ EnqueueTranscription(a) \/ UNCHANGED vars
    /\ UNCHANGED <<at, parts, transcripts, cutoff>>

AskFor(a) == HasRow(a) /\ EnqueueTranscription(a) /\ UNCHANGED handler

GiveUpOn(a) == CancelTranscription(a) /\ UNCHANGED handler

TRetry(j) == Retry(j) /\ UNCHANGED handler

\* The administrator gives up on any job, whoever's recording it works on.
TCancel(j) == Cancel(j) /\ UNCHANGED handler

TBackoffElapsed(j) == BackoffElapsed(j) /\ UNCHANGED handler

Activate(x) ==
    /\ up
    /\ ~x.active
    /\ transcripts' = Activated(x)
    /\ UNCHANGED <<vars, row, disk, at, parts, cutoff>>

\* The rows go in a transaction; the files go after it.
TPurge(a) ==
    /\ HasRow(a)
    /\ Purge(a)
    /\ row' = [row EXCEPT ![a] = 0]
    /\ disk' = [disk EXCEPT ![a] = DOOMED]
    /\ transcripts' = transcripts \ TranscriptsOf(a)
    /\ UNCHANGED <<at, parts, cutoff>>

RemoveFiles(a) ==
    /\ up
    /\ disk[a] = DOOMED
    /\ disk' = [disk EXCEPT ![a] = GONE]
    /\ parts' = {p \in parts : p[1] # a}
    /\ UNCHANGED <<vars, row, at, transcripts, cutoff>>

TCrash ==
    /\ Crash
    /\ at' = [t \in Threads |-> Home]
    /\ disk' = [a \in Audios |-> IF disk[a] = DOOMED THEN KEPT ELSE disk[a]]
    /\ cutoff' = cutoff \cup {<<work[t].id, at[t].about, at[t].part>> :
                              t \in {u \in Threads : at[u].step = "await"}}
    /\ UNCHANGED <<row, parts, transcripts>>

TStart == Start /\ UNCHANGED handler

-----------------------------------------------------------------------------
Handler(t) ==
    \/ Locate(t) \/ Ask(t) \/ Cut(t) \/ CutFails(t) \/ Send(t) \/ SendFails(t)
    \/ Answer(t) \/ Refused(t) \/ GivesUp(t) \/ Write(t)

TNext ==
    \/ \E t \in Threads : \/ TClaim(t) \/ Handler(t)
                          \/ TFinish(t) \/ TFail(t) \/ TLoseOutcome(t)
    \/ \E a \in Audios : \/ Upload(a) \/ AskFor(a) \/ GiveUpOn(a)
                         \/ TPurge(a) \/ RemoveFiles(a)
    \/ \E j \in JobId : TRetry(j) \/ TCancel(j) \/ TBackoffElapsed(j)
    \/ \E x \in transcripts : Activate(x)
    \/ TCrash
    \/ TStart

TSpec == TInit /\ [][TNext]_tvars

\* Handlers end: every tool and request has a timeout, and the parts are
\* finitely many.  The process polls, and is restarted.
TFairness ==
    /\ \A t \in Threads : /\ WF_tvars(TClaim(t))
                          /\ WF_tvars(Handler(t))
                          /\ WF_tvars(TFinish(t) \/ TFail(t))
    /\ \A j \in JobId : WF_tvars(TBackoffElapsed(j))
    /\ WF_tvars(TStart)

TFairSpec == TSpec /\ TFairness

-----------------------------------------------------------------------------
(* Properties *)


\* Every variable has the values the code can give it.
TTypeOK ==
    /\ TypeOK
    /\ row \in [Audios -> RowNumbers]
    /\ disk \in [Audios -> {GONE, KEPT, DOOMED}]
    /\ at \in [Threads -> Places]
    /\ parts \subseteq Audios \X (1..MaxParts)
    /\ transcripts \subseteq Transcripts
    /\ cutoff \subseteq JobId \X Audios \X (1..MaxParts)

\* Whoever cancels a transcription is not sent on: between the question and
\* the request there is one part, and at most that one goes out afterwards
\* (API-21), unless the job was taken out of the thread's hands.
AtMostOneAfterCancel == \A t \in Threads \ overtaken : at[t].late <= 1

\* What makes that so: a thread that has sent a part too late reads its job as
\* cancelled for good, and will ask before it sends another; a thread is in the
\* handler exactly while it has work.
AtWork == \A t \in Threads : work[t] = Idle <=> at[t].step = "none"

LateOnce ==
    \A t \in Threads \ overtaken : at[t].late # 0 =>
        /\ at[t].late = 1
        /\ at[t].step # "none"
        /\ Cancelled(t)
        /\ at[t].step \notin {"cut", "send"}

TInv == IInv /\ AtWork /\ LateOnce

\* A recording that has transcripts shows exactly one of them (JOB-7).
OneActive ==
    \A a \in Audios : TranscriptsOf(a) # {} =>
        Cardinality({x \in TranscriptsOf(a) : x.active}) = 1

\* The badge: an active transcript, else a job in flight, else a failed one.
Badge(a) ==
    LET states == {job[j].state : j \in {i \in JobId : job[i].audio = a}} IN
    IF \E x \in TranscriptsOf(a) : x.active THEN "done"
    ELSE IF states \cap Unsettled # {} THEN "running"
    ELSE IF FAILED \in states THEN "failed"
    ELSE "none"

\* A recording that reads `done` goes on reading so, whatever becomes of the
\* transcriptions asked for after it, until it leaves.
DoneBadgeStays ==
    [][\A a \in Audios : Badge(a) = "done" /\ HasRow(a)'
         => Badge(a)' = "done"]_tvars

\* Part files nobody is going to remove appear only when the process dies or a
\* cut fails half way, which is what `leftover_files` looks for.
Strays == {p \in parts : \A t \in Threads :
               ~(at[t].step \in {"send", "await"} /\ PartFile(t) = p)}

StraysHaveACause ==
    [][Strays' \subseteq Strays \/ Crash \/ \E t \in Threads : CutFails(t)]_tvars

\* A job that comes to read `done` left a transcript of its own, unless the
\* thread that says so had lost the job.
DoneLeavesTranscript ==
    [][\A j \in JobId :
         /\ job[j].state # DONE /\ job'[j].state = DONE
         => \/ \E x \in transcripts : x.by = j
            \/ overtaken \cap Holders(j) # {}]_tvars

\* Both halves of what `done` means, of a recording and of a job.
DoneStands == DoneBadgeStays /\ DoneLeavesTranscript

\* The badge does not say `running` for good.
BadgeSettles ==
    \A a \in Audios : Badge(a) = "running" ~> Badge(a) # "running" \/ lost # {}

-----------------------------------------------------------------------------
(* What the documentation says, and the code does not do *)

\* A cancelled job leaves no transcript (queue.py:311).
CancelledLeavesNothing == \A x \in transcripts : job[x.by].state # CANCELLED

\* The recording a job is about, or a failure (handlers.py:340): never another
\* recording that came to have its row number.
TranscriptOfItsRecording == \A x \in transcripts : x.of = x.from

\* A part whose answer died with the process is not charged for twice
\* (contract.py:164).
ChargedOnce ==
    [][\A t \in Threads :
         at[t].step = "send" /\ at'[t].step = "await"
         => <<work[t].id, at[t].about, at[t].part>> \notin cutoff]_tvars
=============================================================================
