------------------------------ MODULE JobQueue ------------------------------
(***************************************************************************)
(* The job table of an instance and the worker threads that take work off  *)
(* it: backend/resonand/jobs/queue.py and backend/resonand/jobs/worker.py. *)
(*                                                                         *)
(* Every operation of queue.py runs inside one write session, and a write  *)
(* session holds the process's only write lock (db/engine.py), so each of  *)
(* them is one atomic action here.  What is NOT atomic is a job: a thread  *)
(* claims it in one write session, runs the handler outside any            *)
(* transaction, and records the outcome in another write session.  Between *)
(* the two, the row may be cancelled, retried, or deleted together with    *)
(* its recording, and the process may die.                                 *)
(*                                                                         *)
(* Abstractions.  A job's payload, error text and timestamps are left out. *)
(* The two timestamps that feed the backoff are the boolean `cooling`: the *)
(* row's last failure is more recent than its backoff allows.  Job ids are *)
(* SQLite rowids of a table without AUTOINCREMENT: a new row takes the     *)
(* largest id present plus one, so the id of a deleted row can come back.  *)
(***************************************************************************)
EXTENDS Integers, FiniteSets

CONSTANTS
    Audios,             \* recordings
    Threads,            \* worker threads (job_concurrency of them)
    Kinds,              \* kinds of job that are ever queued
    HandledKinds,       \* the kinds this build has a handler for
    MaxAttempts,        \* MAX_ATTEMPTS
    TranscriptionLimit, \* transcription_concurrency
    MaxJobs,            \* bound: largest job id ever allocated
    MaxCrashes,         \* bound: how often the process dies
    MaxRetries,         \* bound: how often somebody presses retry
    MaxLost             \* bound: how often recording an outcome fails

Transcribe == "transcribe"
KIND_PURGE == "purge"

JobId == 1..MaxJobs

ASSUME QueueAssumption ==
    /\ HandledKinds \subseteq Kinds
    /\ MaxAttempts \in Nat \ {0}
    /\ TranscriptionLimit \in Nat \ {0}
    /\ MaxJobs \in Nat
    /\ MaxCrashes \in Nat
    /\ MaxRetries \in Nat
    /\ MaxLost \in Nat

VARIABLES
    job,       \* the job table, by id; a row that is not there is ABSENT
    work,      \* what each thread is running: the Work it claimed, or nothing
    up,        \* whether the process is running
    purged,    \* recordings whose rows are gone for good
    crashes, retries, losses,   \* what the bounds count
    overtaken, \* history: threads whose job was taken out of their hands
    lost       \* history: running jobs whose outcome could not be recorded

table == <<job, purged>>
bounds == <<crashes, retries, losses>>
vars == <<job, work, up, purged, crashes, retries, losses, overtaken, lost>>

-----------------------------------------------------------------------------
(* Rows and claimed work *)

ABSENT    == "absent"
PENDING   == "pending"
RUNNING   == "running"
DONE      == "done"
FAILED    == "failed"
CANCELLED == "cancelled"

States == {ABSENT, PENDING, RUNNING, DONE, FAILED, CANCELLED}
Unsettled == {PENDING, RUNNING}

NoAudio == "no recording"
NoKind == "no kind"

Rows == [state : States, kind : Kinds \cup {NoKind},
         audio : Audios \cup {NoAudio}, attempts : Nat, cooling : BOOLEAN]

NoRow == [state |-> ABSENT, kind |-> NoKind, audio |-> NoAudio,
          attempts |-> 0, cooling |-> FALSE]

NewRow(k, a) == [state |-> PENDING, kind |-> k, audio |-> a,
                 attempts |-> 0, cooling |-> FALSE]

\* Work is the value a thread carries while it runs a handler.
Works == [id : JobId, kind : Kinds \cup {NoKind}, attempts : Nat]

Idle == [id |-> 0, kind |-> NoKind, attempts |-> 0]

Present == {j \in JobId : job[j].state # ABSENT}

Holders(j) == {t \in Threads : work[t].id = j}

\* The rowid the next insert gets: one more than the largest present.
IsNextId(n) == /\ \A j \in Present : j < n
               /\ n = 1 \/ n - 1 \in Present

RunningTranscriptions ==
    {j \in JobId : job[j].kind = Transcribe /\ job[j].state = RUNNING}

TranscriptionInFlight(a) ==
    {j \in JobId : /\ job[j].kind = Transcribe
                   /\ job[j].audio = a
                   /\ job[j].state \in Unsettled}

-----------------------------------------------------------------------------
Init ==
    /\ job = [j \in JobId |-> NoRow]
    /\ work = [t \in Threads |-> Idle]
    /\ up = TRUE
    /\ purged = {}
    /\ crashes = 0 /\ retries = 0 /\ losses = 0
    /\ overtaken = {}
    /\ lost = {}

-----------------------------------------------------------------------------
(* Putting work in *)

Insert(k, a) ==
    /\ \E n \in JobId : /\ IsNextId(n)
                        /\ job' = [job EXCEPT ![n] = NewRow(k, a)]
    /\ UNCHANGED <<work, up, purged, bounds, overtaken, lost>>

\* Variants named ...Variant are ways this code could have been wrong; the
\* mutation checks put each in place of the definition below it.
EnqueueVariant(k, a) == up /\ k \notin {Transcribe, KIND_PURGE} /\ a \notin purged /\ Insert(k, a)

\* Work whose idempotency key names the kind and the recording for good: a
\* second enqueue finds the key taken and adds nothing.
Enqueue(k, a) ==
    /\ up
    /\ k \notin {Transcribe, KIND_PURGE}
    /\ a \notin purged
    /\ \A j \in Present : ~(job[j].kind = k /\ job[j].audio = a)
    /\ Insert(k, a)

\* The purge is about no recording, and its key names the day: a second look at
\* the calendar finds it taken, another day adds one.
Schedule ==
    /\ up
    /\ KIND_PURGE \in Kinds
    /\ Insert(KIND_PURGE, NoAudio)

EnqueueTranscriptionVariant(a) ==   \* a pending one does not count
    /\ up
    /\ Transcribe \in Kinds
    /\ a \notin purged
    /\ TranscriptionInFlight(a) \cap RunningTranscriptions = {}
    /\ Insert(Transcribe, a)

\* A transcription is refused while one is pending or running; its key counts
\* the attempts so far, so it never collides with an earlier one's.
EnqueueTranscription(a) ==
    /\ up
    /\ Transcribe \in Kinds
    /\ a \notin purged
    /\ TranscriptionInFlight(a) = {}
    /\ Insert(Transcribe, a)

-----------------------------------------------------------------------------
(* The worker: claim, run, record *)

IsReady(j) == job[j].state = PENDING /\ ~job[j].cooling

ClaimableVariant(j) ==   \* off by one
    /\ IsReady(j)
    /\ job[j].kind = Transcribe
         => Cardinality(RunningTranscriptions) <= TranscriptionLimit

\* A transcription held back by the limit is skipped, not waited on.
Claimable(j) ==
    /\ IsReady(j)
    /\ job[j].kind = Transcribe
         => Cardinality(RunningTranscriptions) < TranscriptionLimit

Oldest(j) == \A i \in JobId : Claimable(i) => j <= i

TakeVariant(t, j) ==   \* the row is read before the update, not refreshed
    /\ job' = [job EXCEPT ![j].state = RUNNING, ![j].attempts = @ + 1]
    /\ work' = [work EXCEPT ![t] = [id |-> j, kind |-> job[j].kind,
                                    attempts |-> job[j].attempts]]
    /\ lost' = lost \ {j}

Take(t, j) ==
    /\ job' = [job EXCEPT ![j].state = RUNNING, ![j].attempts = @ + 1]
    /\ work' = [work EXCEPT ![t] = [id |-> j, kind |-> job[j].kind,
                                    attempts |-> job[j].attempts + 1]]
    /\ lost' = lost \ {j}

Claim(t) ==
    /\ up
    /\ work[t] = Idle
    /\ \E j \in JobId : Claimable(j) /\ Oldest(j) /\ Take(t, j)
    /\ UNCHANGED <<up, purged, bounds, overtaken>>

SettleVariant(j, s) ==   \* the cancellation is not asked about
    job' = IF job[j].state = ABSENT THEN job
           ELSE [job EXCEPT ![j].state = s,
                            ![j].cooling = s = PENDING /\ job[j].attempts # 0]

\* Write a job's new state unless it was cancelled, or deleted, meanwhile; a
\* pending row waits out a backoff only if its own attempts are not zero.
Settle(j, s) ==
    job' = IF job[j].state \in {CANCELLED, ABSENT} THEN job
           ELSE [job EXCEPT ![j].state = s,
                            ![j].cooling = s = PENDING /\ job[j].attempts # 0]

\* A thread lets go of its job; another thread that holds the same row has
\* had the row's state changed under it.
Release(t) ==
    /\ work' = [work EXCEPT ![t] = Idle]
    /\ overtaken' = (overtaken \ {t})
                      \cup (IF job' = job THEN {}
                            ELSE Holders(work[t].id) \ {t})

Running(t) == up /\ work[t] # Idle

Finish(t) ==
    /\ Running(t)
    /\ work[t].kind \in HandledKinds
    /\ Settle(work[t].id, DONE)
    /\ Release(t)
    /\ UNCHANGED <<up, purged, bounds, lost>>

AfterFailure(attempts) == IF attempts < MaxAttempts THEN PENDING ELSE FAILED

Fail(t) ==
    /\ Running(t)
    /\ work[t].kind \in HandledKinds
    /\ Settle(work[t].id, AfterFailure(work[t].attempts))
    /\ Release(t)
    /\ UNCHANGED <<up, purged, bounds, lost>>

\* A kind this build does not know is failed for good at once.
NoHandler(t) ==
    /\ Running(t)
    /\ work[t].kind \notin HandledKinds
    /\ Settle(work[t].id, AfterFailure(MaxAttempts))
    /\ Release(t)
    /\ UNCHANGED <<up, purged, bounds, lost>>

\* The write that should record the outcome raises: the loop logs it and goes
\* on, and the row stays as it was with nobody running it.
LoseOutcome(t) ==
    /\ Running(t)
    /\ losses < MaxLost
    /\ losses' = losses + 1
    /\ work' = [work EXCEPT ![t] = Idle]
    /\ overtaken' = overtaken \ {t}
    /\ lost' = IF t \in overtaken THEN lost ELSE lost \cup {work[t].id}
    /\ UNCHANGED <<job, up, purged, crashes, retries>>

\* Time passes: a pending job's backoff is over.
BackoffElapsed(j) ==
    /\ job[j].cooling
    /\ job' = [job EXCEPT ![j].cooling = FALSE]
    /\ UNCHANGED <<work, up, purged, bounds, overtaken, lost>>

-----------------------------------------------------------------------------
(* What people do to jobs *)

Cancel(j) ==
    /\ up
    /\ job[j].state \in {PENDING, RUNNING}
    /\ job' = [job EXCEPT ![j].state = CANCELLED, ![j].cooling = FALSE]
    /\ UNCHANGED <<work, up, purged, bounds, overtaken, lost>>

\* The recording's own cancel button: its latest job in flight.
CancelTranscription(a) ==
    \E j \in TranscriptionInFlight(a) :
        /\ \A i \in TranscriptionInFlight(a) : i <= j
        /\ Cancel(j)

Retry(j) ==
    /\ up
    /\ retries < MaxRetries
    /\ job[j].state \in {FAILED, CANCELLED}
    /\ job' = [job EXCEPT ![j].state = PENDING, ![j].attempts = 0,
                          ![j].cooling = FALSE]
    /\ overtaken' = overtaken \cup Holders(j)
    /\ retries' = retries + 1
    /\ UNCHANGED <<work, up, purged, crashes, losses, lost>>

\* A recording leaves for good, and its jobs go with it (ON DELETE CASCADE).
Purge(a) ==
    LET own == {j \in Present : job[j].audio = a} IN
    /\ up
    /\ a \notin purged
    /\ purged' = purged \cup {a}
    /\ job' = [j \in JobId |-> IF j \in own THEN NoRow ELSE job[j]]
    /\ overtaken' = overtaken \cup {t \in Threads : work[t].id \in own}
    /\ lost' = lost \ own
    /\ UNCHANGED <<work, up, bounds>>

-----------------------------------------------------------------------------
(* The process *)

Crash ==
    /\ up
    /\ crashes < MaxCrashes
    /\ crashes' = crashes + 1
    /\ up' = FALSE
    /\ work' = [t \in Threads |-> Idle]
    /\ overtaken' = {}
    /\ UNCHANGED <<job, purged, retries, losses, lost>>

RecoveredVariant(row) == row   \* nothing is recovered

Recovered(row) ==
    IF row.state = RUNNING
    THEN [row EXCEPT !.state = PENDING, !.cooling = row.attempts # 0]
    ELSE row

Start ==
    /\ ~up
    /\ up' = TRUE
    /\ job' = [j \in JobId |-> Recovered(job[j])]
    /\ lost' = {}
    /\ UNCHANGED <<work, purged, bounds, overtaken>>

-----------------------------------------------------------------------------
Worker(t) ==
    \/ Claim(t)
    \/ Finish(t)
    \/ Fail(t)
    \/ NoHandler(t)
    \/ LoseOutcome(t)

People ==
    \/ \E a \in Audios, k \in Kinds : Enqueue(k, a)
    \/ \E a \in Audios : EnqueueTranscription(a)
    \/ \E a \in Audios : CancelTranscription(a)
    \/ \E a \in Audios : Purge(a)
    \/ \E j \in JobId : Cancel(j)
    \/ \E j \in JobId : Retry(j)

Next ==
    \/ \E t \in Threads : Worker(t)
    \/ People
    \/ Schedule
    \/ \E j \in JobId : BackoffElapsed(j)
    \/ Crash
    \/ Start

Spec == Init /\ [][Next]_vars

\* Threads keep polling, handlers end (every external call they make has a
\* timeout), time passes and the container is restarted.  Nobody is obliged to
\* press anything.
Fairness ==
    /\ \A t \in Threads : /\ WF_vars(Claim(t))
                          /\ WF_vars(Finish(t) \/ Fail(t) \/ NoHandler(t))
    /\ \A j \in JobId : WF_vars(BackoffElapsed(j))
    /\ WF_vars(Start)

FairSpec == Spec /\ Fairness

-----------------------------------------------------------------------------
(* Properties *)

\* Every variable has the values the code can give it.
TypeOK ==
    /\ job \in [JobId -> Rows]
    /\ work \in [Threads -> Works \cup {Idle}]
    /\ up \in BOOLEAN
    /\ purged \subseteq Audios
    /\ crashes \in Nat /\ retries \in Nat /\ losses \in Nat
    /\ overtaken \subseteq Threads
    /\ lost \subseteq JobId

\* No more transcriptions are marked running than the engine's own limit
\* (JOB-15), whatever is cancelled, retried, purged or recovered meanwhile.
SlotsRespected == Cardinality(RunningTranscriptions) <= TranscriptionLimit

\* A thread that nobody overtook still has the job it claimed: the row is there,
\* running or cancelled, on the attempt the thread believes it is making.
HeldRow ==
    \A t \in Threads \ overtaken : work[t] # Idle =>
        /\ job[work[t].id].state \in {RUNNING, CANCELLED}
        /\ job[work[t].id].attempts = work[t].attempts
        /\ job[work[t].id].kind = work[t].kind

\* Two threads run one job only when the job was taken out of the hands of
\* one of them (it was retried, or purged and its id used again).
ExclusiveClaim ==
    \A t, u \in Threads \ overtaken :
        work[t] # Idle /\ work[u] # Idle /\ work[t].id = work[u].id => t = u

\* While the process is up, a job that says it is running is being run, unless
\* recording its outcome failed.
RunningIsHeld ==
    up => \A j \in JobId : job[j].state = RUNNING =>
            j \in lost \/ \E t \in Threads \ overtaken : work[t].id = j

\* The inductive invariant: beside the properties above, a thread that runs
\* nothing was not overtaken, and no thread runs anything while the process is
\* down (a restart may then put every running row back).
IdleNotOvertaken == \A t \in Threads : work[t] = Idle => t \notin overtaken

DownIsIdle == ~up => \A t \in Threads : work[t] = Idle

IInv ==
    /\ TypeOK
    /\ IdleNotOvertaken
    /\ DownIsIdle
    /\ HeldRow
    /\ ExclusiveClaim
    /\ RunningIsHeld
    /\ SlotsRespected

\* Work whose key names a recording for good is in the table once.
QueuedOnce ==
    \A i, j \in Present :
        /\ job[i].kind = job[j].kind /\ job[i].audio = job[j].audio
        /\ job[i].kind \notin {Transcribe, KIND_PURGE}
        => i = j

\* A cancellation stands against everything but somebody pressing retry (or
\* the recording leaving): not against the handler's success, its failure, or
\* a restart.
CancellationStands ==
    [][\A j \in JobId :
         /\ job[j].state = CANCELLED
         /\ job'[j].state \notin {CANCELLED, ABSENT}
         => Retry(j)]_vars

\* A job that is done is only ever put back by a thread that no longer had it.
DoneStaysDone ==
    [][\A j \in JobId :
         /\ job[j].state = DONE
         /\ job'[j].state \notin {DONE, ABSENT}
         => overtaken \cap Holders(j) # {}]_vars

\* The queue gives up on a job it knows how to run only once it has made all
\* its attempts, again except through a thread that no longer had it.
GivesUpOnlyWhenExhausted ==
    [][\A j \in JobId :
         /\ job[j].state # FAILED /\ job'[j].state = FAILED
         /\ job[j].kind \in HandledKinds
         => \/ job[j].attempts >= MaxAttempts
            \/ overtaken \cap Holders(j) # {}]_vars

\* A recording that has at most one transcription in flight gets a second one
\* only from retry or from a thread that no longer had its job: the refusal at
\* the endpoint is never got round by a restart or a failure.
SecondInFlightOnlyByRetry ==
    [][\A a \in Audios :
         /\ Cardinality(TranscriptionInFlight(a)) <= 1
         /\ Cardinality(TranscriptionInFlight(a)') > 1
         => \/ \E j \in JobId : Retry(j)
            \/ \E t \in overtaken : Fail(t)]_vars

\* What has been settled stands: the three together, over any sequence of claims,
\* outcomes, cancellations, retries and restarts (queue.py).
OutcomesStand == CancellationStands /\ DoneStaysDone /\ GivesUpOnlyWhenExhausted

\* Everything that is queued comes to an end: it is done, it failed with an
\* error somebody can read, it was cancelled, or it left with its recording --
\* unless an outcome could not be recorded, which holds a slot until a restart.
EverySettles ==
    \A j \in JobId :
        job[j].state \in Unsettled ~>
            \/ job[j].state \notin Unsettled
            \/ lost # {}

\* The table implements the counting lock: the jobs that hold a slot are the
\* transcriptions marked running.  No operation hands a slot from one job to
\* another or takes two at once.
EngineSlots == INSTANCE Slots WITH Jobs <- JobId, Limit <- TranscriptionLimit,
                                   held <- RunningTranscriptions

ImplementsSlots == EngineSlots!Spec

-----------------------------------------------------------------------------
(* What the documentation says of the queue, and the code does not do *)

\* A job that keeps killing the process is given up on (queue.py:340,
\* tests/jobs/test_queue.py:138): no job is tried more than MAX_ATTEMPTS times.
AttemptsBounded == \A j \in JobId : job[j].attempts <= MaxAttempts

\* No more transcriptions are in flight at the engine than its limit
\* (queue.py:139, core/config.py:154).
InFlightWithinLimit ==
    Cardinality({t \in Threads : work[t].kind = Transcribe}) <= TranscriptionLimit

\* Two workers never have the same job (queue.py:14).
OneWorkerPerJob ==
    \A t, u \in Threads :
        work[t] # Idle /\ work[u] # Idle /\ work[t].id = work[u].id => t = u
=============================================================================
