------------------------ MODULE TranscriptionProofs ------------------------
(***************************************************************************)
(* Proofs about JobQueue, for every number of recordings, threads, jobs,   *)
(* attempts, crashes, retries and lost outcomes, and about Transcription,  *)
(* which composes it with the handler.                                     *)
(*                                                                         *)
(* With the handler spelled out the job table still does what JobQueue     *)
(* says, so everything proved of JobQueue holds of it; at most one part is *)
(* sent for a job that was cancelled; and, from what a thread holds and    *)
(* which file and transcript are its row's, one transcript is shown,       *)
(* `done` means that there is one, and part files are left behind only for *)
(* a cause.                                                                *)
(*                                                                         *)
(* Last, about Chunking, for any recording, ceiling and overlap: the parts *)
(* of a plan cover the recording, and what is said in it comes back from   *)
(* them.                                                                   *)
(***************************************************************************)
EXTENDS Transcription, Chunking, FiniteSetTheorems, WellFoundedInduction, TLAPS

-----------------------------------------------------------------------------
(* The job queue *)

\* A step of the specification, as the disjunction the proofs split on.
LEMMA NextCases ==
  ASSUME Next
  PROVE  \/ \E a \in Audios \cup {NoAudio}, k \in Kinds : Insert(k, a)
         \/ \E t \in Threads : Claim(t)
         \/ \E t \in Threads : Finish(t)
         \/ \E t \in Threads : Fail(t)
         \/ \E t \in Threads : NoHandler(t)
         \/ \E t \in Threads : LoseOutcome(t)
         \/ \E j \in JobId : BackoffElapsed(j)
         \/ \E j \in JobId : Cancel(j)
         \/ \E j \in JobId : Retry(j)
         \/ \E a \in Audios : Purge(a)
         \/ Crash
         \/ Start
<1>1. ASSUME NEW a \in Audios, CancelTranscription(a)
      PROVE  \E j \in JobId : Cancel(j)
  BY <1>1 DEF CancelTranscription, TranscriptionInFlight
<1>2. ASSUME \/ \E a \in Audios, k \in Kinds : Enqueue(k, a)
             \/ \E a \in Audios : EnqueueTranscription(a)
             \/ Schedule
      PROVE  \E a \in Audios \cup {NoAudio}, k \in Kinds : Insert(k, a)
  BY <1>2 DEF Enqueue, EnqueueTranscription, Schedule
<1> QED
  BY <1>1, <1>2, Zenon DEF Next, People, Worker

-----------------------------------------------------------------------------
(* What the operations do to a row and to a thread *)

\* Changing a row's state, attempts or backoff leaves a row.
LEMMA RowUpdates ==
  ASSUME NEW r \in Rows, NEW s \in States, NEW n \in Nat, NEW c \in BOOLEAN
  PROVE  /\ [r EXCEPT !.state = s, !.attempts = n] \in Rows
         /\ [r EXCEPT !.state = s, !.cooling = c] \in Rows
         /\ [r EXCEPT !.state = s, !.attempts = n, !.cooling = c] \in Rows
         /\ [r EXCEPT !.cooling = c] \in Rows
<1>1. \A q \in Rows : [q EXCEPT !.state = s] \in Rows
  BY DEF Rows
<1>2. \A q \in Rows : [q EXCEPT !.attempts = n] \in Rows
  BY DEF Rows
<1>3. \A q \in Rows : [q EXCEPT !.cooling = c] \in Rows
  BY DEF Rows
<1> QED
  BY <1>1, <1>2, <1>3

\* Id 0 is no job's, so a thread that holds a job's id is running it.
LEMMA IdleFacts ==
  ASSUME TypeOK, NEW t \in Threads
  PROVE  /\ Idle.id \notin JobId
         /\ work[t] # Idle <=> work[t].id \in JobId
         /\ work[t] # Idle => work[t] \in Works
         /\ work[t] # Idle => work[t].attempts \in Nat
<1>1. Idle.id \notin JobId
  BY QueueAssumption DEF Idle, JobId
<1>2. work[t] \in Works \cup {Idle}
  BY DEF TypeOK
<1>3. \A w \in Works : w.id \in JobId /\ w.attempts \in Nat
  BY DEF Works
<1> QED
  BY <1>1, <1>2, <1>3

\* A new row goes where there was none.
LEMMA InsertFacts ==
  ASSUME TypeOK, NEW k \in Kinds, NEW a \in Audios \cup {NoAudio}, Insert(k, a)
  PROVE  \E n \in JobId : /\ job[n].state = ABSENT
                          /\ job' = [job EXCEPT ![n] = NewRow(k, a)]
<1>1. PICK n \in JobId : IsNextId(n) /\ job' = [job EXCEPT ![n] = NewRow(k, a)]
  BY DEF Insert
<1>2. n \notin Present
  BY <1>1, QueueAssumption DEF IsNextId, JobId
<1> QED
  BY <1>1, <1>2 DEF Present

\* Recording an outcome changes the one row, and never a cancelled or a
\* deleted one.
LEMMA SettleFacts ==
  ASSUME TypeOK, NEW j \in JobId, NEW s \in States, Settle(j, s)
  PROVE  /\ job' \in [JobId -> Rows]
         /\ \A i \in JobId : i # j => job'[i] = job[i]
         /\ job[j].state \in {CANCELLED, ABSENT} => job' = job
         /\ job[j].state \notin {CANCELLED, ABSENT} => job'[j].state = s
         /\ \A i \in JobId : /\ job'[i].kind = job[i].kind
                             /\ job'[i].audio = job[i].audio
                             /\ job'[i].attempts = job[i].attempts
<1>1. CASE job[j].state \in {CANCELLED, ABSENT}
  BY <1>1 DEF Settle, TypeOK
<1>2. CASE job[j].state \notin {CANCELLED, ABSENT}
  <2> DEFINE cool == s = PENDING /\ job[j].attempts # 0
             entry == [job[j] EXCEPT !.state = s, !.cooling = cool]
  <2>1. cool \in BOOLEAN
    OBVIOUS
  <2>2. job[j] \in Rows
    BY DEF TypeOK
  <2>3. entry \in Rows
    BY <2>1, <2>2, RowUpdates
  <2>4. job' = [job EXCEPT ![j] = entry]
    BY <1>2 DEF Settle
  <2>5. /\ entry.state = s /\ entry.kind = job[j].kind
        /\ entry.audio = job[j].audio /\ entry.attempts = job[j].attempts
    BY <2>2 DEF Rows
  <2> HIDE DEF entry, cool
  <2>6. job \in [JobId -> Rows]
    BY DEF TypeOK
  <2>7. job'[j] = entry /\ \A i \in JobId : i # j => job'[i] = job[i]
    BY <2>4, <2>6
  <2> QED
    BY <1>2, <2>3, <2>4, <2>5, <2>6, <2>7
<1> QED
  BY <1>1, <1>2

LEMMA OutcomesAreStates ==
  ASSUME NEW n \in Nat
  PROVE  AfterFailure(n) \in {PENDING, FAILED} /\ AfterFailure(n) \in States
BY DEF AfterFailure, States

-----------------------------------------------------------------------------
(* Types *)

LEMMA ReleaseTypeOK ==
  ASSUME TypeOK, NEW t \in Threads, Release(t)
  PROVE  /\ work' \in [Threads -> Works \cup {Idle}]
         /\ overtaken' \subseteq Threads
<1>1. work' = [work EXCEPT ![t] = Idle]
  BY DEF Release
<1>2. overtaken' \subseteq overtaken \cup Threads
  BY DEF Release, Holders
<1> QED
  BY <1>1, <1>2 DEF TypeOK

\* The three ways a handler's end is recorded, as one fact: the row is settled
\* to a state that is neither running nor cancelled, and the thread lets go.
LEMMA OutcomeFacts ==
  ASSUME TypeOK, NEW t \in Threads, Finish(t) \/ Fail(t) \/ NoHandler(t)
  PROVE  /\ up /\ up' = up /\ work[t] # Idle /\ work[t].id \in JobId
         /\ Release(t)
         /\ UNCHANGED <<purged, crashes, retries, losses, lost>>
         /\ \E s \in {DONE, PENDING, FAILED} : Settle(work[t].id, s)
<1>1. up /\ work[t] # Idle /\ Release(t)
  BY DEF Finish, Fail, NoHandler, Running
<1>2. UNCHANGED <<up, purged, crashes, retries, losses, lost>>
  BY DEF Finish, Fail, NoHandler, bounds
<1>3. work[t].id \in JobId /\ work[t].attempts \in Nat
  BY <1>1, IdleFacts
<1>4. AfterFailure(work[t].attempts) \in {PENDING, FAILED}
  BY <1>3, OutcomesAreStates
<1>5. AfterFailure(MaxAttempts) \in {PENDING, FAILED}
  BY QueueAssumption, OutcomesAreStates
<1>6. \E s \in {DONE, PENDING, FAILED} : Settle(work[t].id, s)
  BY <1>4, <1>5 DEF Finish, Fail, NoHandler
<1> QED
  BY <1>1, <1>2, <1>3, <1>6

LEMMA OutcomeStates == {DONE, PENDING, FAILED} \subseteq States
BY DEF States

LEMMA TypeInit == Init => TypeOK
<1> SUFFICES ASSUME Init PROVE TypeOK
  OBVIOUS
<1>1. NoRow \in Rows
  BY DEF NoRow, Rows, States
<1> QED
  BY <1>1 DEF Init, TypeOK

LEMMA TypeNext == TypeOK /\ [Next]_vars => TypeOK'
<1> SUFFICES ASSUME TypeOK, [Next]_vars PROVE TypeOK'
  OBVIOUS
<1>1. ASSUME NEW k \in Kinds, NEW a \in Audios \cup {NoAudio}, Insert(k, a)
      PROVE  TypeOK'
  <2>1. NewRow(k, a) \in Rows
    BY DEF NewRow, Rows, States
  <2>2. job' \in [JobId -> Rows]
    BY <1>1, <2>1, InsertFacts DEF TypeOK
  <2> QED
    BY <1>1, <2>2 DEF Insert, TypeOK, bounds
<1>2. ASSUME NEW t \in Threads, Claim(t)
      PROVE  TypeOK'
  <2>1. PICK j \in JobId : Take(t, j)
    BY <1>2 DEF Claim
  <2>2. job[j] \in Rows
    BY DEF TypeOK
  <2>3. [job[j] EXCEPT !.state = RUNNING, !.attempts = @ + 1] \in Rows
    <3>1. RUNNING \in States /\ job[j].attempts + 1 \in Nat
      BY <2>2 DEF Rows, States
    <3> QED
      BY <2>2, <3>1, RowUpdates
  <2>4. job' \in [JobId -> Rows]
    BY <2>1, <2>3 DEF Take, TypeOK
  <2>5. [id |-> j, kind |-> job[j].kind, attempts |-> job[j].attempts + 1] \in Works
    BY <2>2 DEF Rows, Works
  <2>6. work' \in [Threads -> Works \cup {Idle}]
    BY <2>1, <2>5 DEF Take, TypeOK
  <2> QED
    BY <1>2, <2>1, <2>4, <2>6 DEF Claim, Take, TypeOK, bounds
<1>3. ASSUME NEW t \in Threads, Finish(t) \/ Fail(t) \/ NoHandler(t)
      PROVE  TypeOK'
  <2>1. job' \in [JobId -> Rows]
    BY <1>3, OutcomeFacts, OutcomeStates, SettleFacts
  <2> QED
    BY <1>3, <2>1, OutcomeFacts, ReleaseTypeOK DEF TypeOK
<1>4. ASSUME NEW t \in Threads, LoseOutcome(t)
      PROVE  TypeOK'
  BY <1>4, IdleFacts DEF LoseOutcome, Running, TypeOK
<1>5. ASSUME NEW j \in JobId, BackoffElapsed(j)
      PROVE  TypeOK'
  BY <1>5 DEF BackoffElapsed, TypeOK, Rows, bounds
<1>6. ASSUME NEW j \in JobId, Cancel(j)
      PROVE  TypeOK'
  BY <1>6 DEF Cancel, TypeOK, Rows, States, bounds
<1>7. ASSUME NEW j \in JobId, Retry(j)
      PROVE  TypeOK'
  <2>1. job[j] \in Rows /\ PENDING \in States
    BY DEF TypeOK, States
  <2>2. [job[j] EXCEPT !.state = PENDING, !.attempts = 0, !.cooling = FALSE] \in Rows
    BY <2>1, RowUpdates
  <2>3. job' \in [JobId -> Rows]
    BY <1>7, <2>2 DEF Retry, TypeOK
  <2> QED
    BY <1>7, <2>3 DEF Retry, TypeOK, Holders
<1>8. ASSUME NEW a \in Audios, Purge(a)
      PROVE  TypeOK'
  <2>1. NoRow \in Rows
    BY DEF NoRow, Rows, States
  <2> QED
    BY <1>8, <2>1 DEF Purge, TypeOK, bounds
<1>9. ASSUME Crash
      PROVE  TypeOK'
  <2>1. up' \in BOOLEAN
    BY <1>9 DEF Crash
  <2>2. work' \in [Threads -> Works \cup {Idle}]
    BY <1>9 DEF Crash
  <2> QED
    BY <1>9, <2>1, <2>2 DEF Crash, TypeOK
<1>10. ASSUME Start
       PROVE  TypeOK'
  <2>1. \A r \in Rows : Recovered(r) \in Rows
    BY DEF Recovered, Rows, States
  <2> QED
    BY <1>10, <2>1 DEF Start, TypeOK, bounds
<1>11. CASE UNCHANGED vars
  BY <1>11 DEF vars, TypeOK
<1> QED
  BY <1>1, <1>2, <1>3, <1>4, <1>5, <1>6, <1>7, <1>8, <1>9, <1>10, <1>11,
     NextCases

\* Every variable keeps the values the code can give it, on instances of any
\* size.
THEOREM TypeCorrect == Spec => []TypeOK
BY TypeInit, TypeNext, PTL DEF Spec

-----------------------------------------------------------------------------
(* The effect of each action, read off entry by entry and thread by thread *)

LEMMA ClaimFacts ==
  ASSUME TypeOK, NEW t \in Threads, Claim(t)
  PROVE  /\ up /\ up' = up /\ work[t] = Idle
         /\ overtaken' = overtaken
         /\ \A u \in Threads : u # t => work'[u] = work[u]
         /\ \E j \in JobId :
              /\ Claimable(j)
              /\ job'[j].state = RUNNING
              /\ job'[j].attempts = job[j].attempts + 1
              /\ job'[j].kind = job[j].kind
              /\ job'[j].audio = job[j].audio
              /\ \A i \in JobId : i # j => job'[i] = job[i]
              /\ work'[t] = [id |-> j, kind |-> job[j].kind,
                             attempts |-> job[j].attempts + 1]
              /\ lost' = lost \ {j}
<1>1. PICK j \in JobId : Claimable(j) /\ Take(t, j)
  BY DEF Claim
<1> DEFINE entry == [job[j] EXCEPT !.state = RUNNING, !.attempts = @ + 1]
           new == [id |-> j, kind |-> job[j].kind, attempts |-> job[j].attempts + 1]
<1>2. job' = [job EXCEPT ![j] = entry] /\ work' = [work EXCEPT ![t] = new] /\ lost' = lost \ {j}
  BY <1>1 DEF Take
<1>3. job[j] \in Rows
  BY DEF TypeOK
<1>4. /\ entry.state = RUNNING /\ entry.attempts = job[j].attempts + 1
      /\ entry.kind = job[j].kind /\ entry.audio = job[j].audio
  BY <1>3 DEF Rows
<1> HIDE DEF entry
<1>5. job'[j] = entry /\ \A i \in JobId : i # j => job'[i] = job[i]
  BY <1>2 DEF TypeOK
<1>6. work'[t] = new /\ \A u \in Threads : u # t => work'[u] = work[u]
  BY <1>2 DEF TypeOK
<1>7. up /\ up' = up /\ work[t] = Idle /\ overtaken' = overtaken
  BY DEF Claim
<1> QED
  BY <1>1, <1>2, <1>4, <1>5, <1>6, <1>7

LEMMA ReleaseFacts ==
  ASSUME TypeOK, NEW t \in Threads, Release(t)
  PROVE  /\ work'[t] = Idle
         /\ \A u \in Threads : u # t => work'[u] = work[u]
         /\ t \notin overtaken'
         /\ \A u \in Threads : u # t =>
              (u \in overtaken'
                 <=> (u \in overtaken \/ (job' # job /\ work[u].id = work[t].id)))
<1>1. work' = [work EXCEPT ![t] = Idle]
  BY DEF Release
<1>2. overtaken' = (overtaken \ {t}) \cup (IF job' = job THEN {}
                                           ELSE Holders(work[t].id) \ {t})
  BY DEF Release
<1> QED
  BY <1>1, <1>2 DEF TypeOK, Holders

LEMMA LoseFacts ==
  ASSUME TypeOK, NEW t \in Threads, LoseOutcome(t)
  PROVE  /\ up /\ up' = up /\ work[t] # Idle /\ work'[t] = Idle
         /\ \A u \in Threads : u # t => work'[u] = work[u]
         /\ job' = job
         /\ overtaken' = overtaken \ {t}
         /\ lost' = IF t \in overtaken THEN lost ELSE lost \cup {work[t].id}
BY DEF LoseOutcome, Running, TypeOK

LEMMA BackoffFacts ==
  ASSUME TypeOK, NEW j \in JobId, BackoffElapsed(j)
  PROVE  /\ UNCHANGED <<work, up, overtaken, lost>>
         /\ \A i \in JobId : /\ job'[i].state = job[i].state
                             /\ job'[i].attempts = job[i].attempts
                             /\ job'[i].kind = job[i].kind
                             /\ job'[i].audio = job[i].audio
BY DEF BackoffElapsed, TypeOK, Rows

LEMMA CancelFacts ==
  ASSUME TypeOK, NEW j \in JobId, Cancel(j)
  PROVE  /\ UNCHANGED <<work, up, overtaken, lost>>
         /\ job[j].state \in {PENDING, RUNNING}
         /\ job'[j].state = CANCELLED
         /\ \A i \in JobId : i # j => job'[i] = job[i]
         /\ \A i \in JobId : /\ job'[i].attempts = job[i].attempts
                             /\ job'[i].kind = job[i].kind
                             /\ job'[i].audio = job[i].audio
BY DEF Cancel, TypeOK, Rows

LEMMA RetryFacts ==
  ASSUME TypeOK, NEW j \in JobId, Retry(j)
  PROVE  /\ UNCHANGED <<work, up, lost>>
         /\ overtaken' = overtaken \cup Holders(j)
         /\ job[j].state \in {FAILED, CANCELLED}
         /\ job'[j].state = PENDING
         /\ \A i \in JobId : i # j => job'[i] = job[i]
<1> DEFINE entry == [job[j] EXCEPT !.state = PENDING, !.attempts = 0, !.cooling = FALSE]
<1>1. job' = [job EXCEPT ![j] = entry]
  BY DEF Retry
<1>2. entry.state = PENDING
  BY DEF TypeOK, Rows
<1> HIDE DEF entry
<1> QED
  BY <1>1, <1>2 DEF Retry, TypeOK

LEMMA PurgeFacts ==
  ASSUME TypeOK, NEW a \in Audios, Purge(a)
  PROVE  \E own \in SUBSET JobId :
           /\ UNCHANGED <<work, up>>
           /\ overtaken' = overtaken \cup {t \in Threads : work[t].id \in own}
           /\ lost' = lost \ own
           /\ \A i \in own : job'[i].state = ABSENT
           /\ \A i \in JobId \ own : job'[i] = job[i]
<1> DEFINE own == {j \in Present : job[j].audio = a}
<1>1. own \in SUBSET JobId
  BY DEF Present
<1>2. \A i \in own : job'[i].state = ABSENT
  BY <1>1 DEF Purge, NoRow
<1>3. \A i \in JobId \ own : job'[i] = job[i]
  BY DEF Purge
<1>4. /\ UNCHANGED <<work, up>>
      /\ overtaken' = overtaken \cup {t \in Threads : work[t].id \in own}
      /\ lost' = lost \ own
  BY DEF Purge
<1> HIDE DEF own
<1> QED
  BY <1>1, <1>2, <1>3, <1>4

LEMMA StartFacts ==
  ASSUME TypeOK, Start
  PROVE  /\ ~up /\ up' = TRUE
         /\ UNCHANGED <<work, overtaken>>
         /\ lost' = {}
         /\ \A i \in JobId :
              /\ job[i].state = RUNNING => job'[i].state = PENDING
              /\ job[i].state # RUNNING => job'[i] = job[i]
              /\ job'[i].kind = job[i].kind
              /\ job'[i].audio = job[i].audio
<1>1. \A i \in JobId : job'[i] = Recovered(job[i])
  BY DEF Start
<1>2. \A r \in Rows : /\ r.state = RUNNING => Recovered(r).state = PENDING
                      /\ r.state # RUNNING => Recovered(r) = r
                      /\ Recovered(r).kind = r.kind
                      /\ Recovered(r).audio = r.audio
  <2> TAKE r \in Rows
  <2>1. CASE r.state # RUNNING
    BY <2>1 DEF Recovered
  <2>2. CASE r.state = RUNNING
    <3> DEFINE cool == r.attempts # 0
               entry == [r EXCEPT !.state = PENDING, !.cooling = cool]
    <3>1. Recovered(r) = entry
      BY <2>2 DEF Recovered
    <3>2. entry.state = PENDING /\ entry.kind = r.kind /\ entry.audio = r.audio
      BY DEF Rows
    <3> QED
      BY <2>2, <3>1, <3>2
  <2> QED
    BY <2>1, <2>2
<1> QED
  BY <1>1, <1>2 DEF Start, TypeOK

LEMMA StatesDistinct ==
  /\ ABSENT # PENDING /\ ABSENT # RUNNING /\ ABSENT # DONE
  /\ ABSENT # FAILED /\ ABSENT # CANCELLED
  /\ PENDING # RUNNING /\ PENDING # DONE /\ PENDING # FAILED /\ PENDING # CANCELLED
  /\ RUNNING # DONE /\ RUNNING # FAILED /\ RUNNING # CANCELLED
  /\ DONE # FAILED /\ DONE # CANCELLED /\ FAILED # CANCELLED
BY DEF ABSENT, PENDING, RUNNING, DONE, FAILED, CANCELLED

-----------------------------------------------------------------------------
(* Who holds what: the inductive invariant, conjunct by conjunct *)

LEMMA IdleNext ==
  ASSUME TypeOK, IdleNotOvertaken, DownIsIdle, Next
  PROVE  IdleNotOvertaken' /\ DownIsIdle'
<1>1. ASSUME NEW k \in Kinds, NEW a \in Audios \cup {NoAudio}, Insert(k, a)
      PROVE  IdleNotOvertaken' /\ DownIsIdle'
  BY <1>1 DEF Insert, IdleNotOvertaken, DownIsIdle
<1>2. ASSUME NEW t \in Threads, Claim(t)
      PROVE  IdleNotOvertaken' /\ DownIsIdle'
  BY <1>2, ClaimFacts DEF IdleNotOvertaken, DownIsIdle
<1>3. ASSUME NEW t \in Threads, Finish(t) \/ Fail(t) \/ NoHandler(t)
      PROVE  IdleNotOvertaken' /\ DownIsIdle'
  <2>1. up' /\ work[t] # Idle /\ work[t].id \in JobId /\ Release(t)
    BY <1>3, OutcomeFacts
  <2>2. ASSUME NEW u \in Threads, work'[u] = Idle
        PROVE  u \notin overtaken'
    <3>1. CASE u = t
      BY <2>1, <3>1, ReleaseFacts
    <3>2. CASE u # t
      <4>1. work[u] = Idle /\ u \notin overtaken
        BY <2>1, <2>2, <3>2, ReleaseFacts DEF IdleNotOvertaken
      <4>2. work[u].id # work[t].id
        BY <2>1, <4>1, IdleFacts
      <4> QED
        BY <2>1, <3>2, <4>1, <4>2, ReleaseFacts
    <3> QED
      BY <3>1, <3>2
  <2> QED
    BY <2>1, <2>2 DEF IdleNotOvertaken, DownIsIdle
<1>4. ASSUME NEW t \in Threads, LoseOutcome(t)
      PROVE  IdleNotOvertaken' /\ DownIsIdle'
  BY <1>4, LoseFacts DEF IdleNotOvertaken, DownIsIdle
<1>5. ASSUME NEW j \in JobId, BackoffElapsed(j) \/ Cancel(j)
      PROVE  IdleNotOvertaken' /\ DownIsIdle'
  BY <1>5, BackoffFacts, CancelFacts DEF IdleNotOvertaken, DownIsIdle
<1>6. ASSUME NEW j \in JobId, Retry(j)
      PROVE  IdleNotOvertaken' /\ DownIsIdle'
  BY <1>6, RetryFacts, IdleFacts DEF IdleNotOvertaken, DownIsIdle, Holders
<1>7. ASSUME NEW a \in Audios, Purge(a)
      PROVE  IdleNotOvertaken' /\ DownIsIdle'
  BY <1>7, PurgeFacts, IdleFacts DEF IdleNotOvertaken, DownIsIdle
<1>8. CASE Crash
  BY <1>8 DEF Crash, IdleNotOvertaken, DownIsIdle
<1>9. CASE Start
  BY <1>9, StartFacts DEF IdleNotOvertaken, DownIsIdle
<1> QED
  BY <1>1, <1>2, <1>3, <1>4, <1>5, <1>6, <1>7, <1>8, <1>9, NextCases

\* A row that a thread nobody overtook is running is left alone by everything
\* but a cancellation; so is the thread's claim to it.
LEMMA HeldRowNext ==
  ASSUME TypeOK, IdleNotOvertaken, DownIsIdle, HeldRow, ExclusiveClaim, Next
  PROVE  HeldRow' /\ ExclusiveClaim'
<1> DEFINE P == HeldRow' /\ ExclusiveClaim'
<1>1. ASSUME NEW k \in Kinds, NEW a \in Audios \cup {NoAudio}, Insert(k, a)
      PROVE  P
  <2>1. PICK n \in JobId : /\ job[n].state = ABSENT
                           /\ job' = [job EXCEPT ![n] = NewRow(k, a)]
    BY <1>1, InsertFacts
  <2>2. UNCHANGED <<work, overtaken>>
    BY <1>1 DEF Insert
  <2>3. \A i \in JobId : i # n => job'[i] = job[i]
    BY <2>1 DEF TypeOK
  <2>4. \A t \in Threads \ overtaken : work[t] # Idle => work[t].id # n
    BY <2>1, StatesDistinct DEF HeldRow
  <2> QED
    BY <2>2, <2>3, <2>4, IdleFacts DEF HeldRow, ExclusiveClaim
<1>2. ASSUME NEW t \in Threads, Claim(t)
      PROVE  P
  <2>1. PICK j \in JobId :
              /\ Claimable(j)
              /\ job'[j].state = RUNNING
              /\ job'[j].attempts = job[j].attempts + 1
              /\ job'[j].kind = job[j].kind
              /\ \A i \in JobId : i # j => job'[i] = job[i]
              /\ work'[t] = [id |-> j, kind |-> job[j].kind,
                             attempts |-> job[j].attempts + 1]
    BY <1>2, ClaimFacts
  <2>2. overtaken' = overtaken /\ \A u \in Threads : u # t => work'[u] = work[u]
    BY <1>2, ClaimFacts
  <2>3. job[j].state = PENDING
    BY <2>1 DEF Claimable, IsReady
  <2>4. \A u \in Threads \ overtaken : work[u] # Idle => work[u].id # j
    BY <2>3, StatesDistinct DEF HeldRow
  <2>5. HeldRow'
    <3> SUFFICES ASSUME NEW u \in Threads \ overtaken', work'[u] # Idle
                 PROVE  /\ job'[work'[u].id].state \in {RUNNING, CANCELLED}
                        /\ job'[work'[u].id].attempts = work'[u].attempts
                        /\ job'[work'[u].id].kind = work'[u].kind
      BY DEF HeldRow
    <3>1. CASE u = t
      BY <2>1, <3>1
    <3>2. CASE u # t
      BY <2>1, <2>2, <2>4, <3>2, IdleFacts DEF HeldRow
    <3> QED
      BY <3>1, <3>2
  <2>6. ExclusiveClaim'
    BY <2>1, <2>2, <2>4 DEF ExclusiveClaim
  <2> QED
    BY <2>5, <2>6
<1>3. ASSUME NEW t \in Threads, Finish(t) \/ Fail(t) \/ NoHandler(t)
      PROVE  P
  <2>1. work[t] # Idle /\ work[t].id \in JobId /\ Release(t)
    BY <1>3, OutcomeFacts
  <2>2. PICK s \in States : Settle(work[t].id, s)
    BY <1>3, OutcomeFacts, OutcomeStates
  <2>3. \A i \in JobId : i # work[t].id => job'[i] = job[i]
    BY <2>1, <2>2, SettleFacts
  <2>4. ASSUME NEW u \in Threads \ overtaken', work'[u] # Idle
        PROVE  /\ u # t /\ u \in Threads \ overtaken
               /\ work'[u] = work[u]
               /\ job'[work[u].id] = job[work[u].id]
    <3>1. u # t /\ work'[u] = work[u] /\ u \notin overtaken
      BY <2>1, <2>4, ReleaseFacts
    <3>2. job' = job \/ work[u].id # work[t].id
      BY <2>1, <2>4, <3>1, ReleaseFacts
    <3>3. work[u].id \in JobId
      BY <2>4, <3>1, IdleFacts
    <3> QED
      BY <2>3, <3>1, <3>2, <3>3
  <2> QED
    BY <2>4 DEF HeldRow, ExclusiveClaim
<1>4. ASSUME NEW t \in Threads, LoseOutcome(t)
      PROVE  P
  BY <1>4, LoseFacts DEF HeldRow, ExclusiveClaim
<1>5. ASSUME NEW j \in JobId, BackoffElapsed(j) \/ Cancel(j)
      PROVE  P
  <2>1. UNCHANGED <<work, overtaken>>
    BY <1>5, BackoffFacts, CancelFacts
  <2>2. \A i \in JobId : /\ job'[i].attempts = job[i].attempts
                         /\ job'[i].kind = job[i].kind
                         /\ job'[i].state = job[i].state \/ job'[i].state = CANCELLED
    BY <1>5, BackoffFacts, CancelFacts
  <2> QED
    BY <2>1, <2>2, IdleFacts DEF HeldRow, ExclusiveClaim
<1>6. ASSUME NEW j \in JobId, Retry(j)
      PROVE  P
  <2>1. /\ work' = work /\ overtaken' = overtaken \cup Holders(j)
        /\ \A i \in JobId : i # j => job'[i] = job[i]
    BY <1>6, RetryFacts
  <2>2. \A u \in Threads \ overtaken' : u \notin overtaken /\ work[u].id # j
    BY <2>1 DEF Holders
  <2> QED
    BY <2>1, <2>2, IdleFacts DEF HeldRow, ExclusiveClaim
<1>7. ASSUME NEW a \in Audios, Purge(a)
      PROVE  P
  <2>1. PICK own \in SUBSET JobId :
           /\ work' = work
           /\ overtaken' = overtaken \cup {t \in Threads : work[t].id \in own}
           /\ \A i \in JobId \ own : job'[i] = job[i]
    BY <1>7, PurgeFacts
  <2>2. \A u \in Threads \ overtaken' : u \notin overtaken /\ work[u].id \notin own
    BY <2>1
  <2> QED
    BY <2>1, <2>2, IdleFacts DEF HeldRow, ExclusiveClaim
<1>8. CASE Crash
  <2>1. \A t \in Threads : work'[t] = Idle
    BY <1>8 DEF Crash
  <2> QED
    BY <2>1 DEF HeldRow, ExclusiveClaim
<1>9. CASE Start
  <2>1. \A t \in Threads : work'[t] = Idle
    BY <1>9, StartFacts DEF DownIsIdle
  <2> QED
    BY <2>1 DEF HeldRow, ExclusiveClaim
<1> QED
  BY <1>1, <1>2, <1>3, <1>4, <1>5, <1>6, <1>7, <1>8, <1>9, NextCases

LEMMA RunningIsHeldNext ==
  ASSUME TypeOK, IdleNotOvertaken, HeldRow, RunningIsHeld, Next
  PROVE  RunningIsHeld'
<1> DEFINE Held(j) == j \in lost \/ \E t \in Threads \ overtaken : work[t].id = j
<1>1. ASSUME NEW k \in Kinds, NEW a \in Audios \cup {NoAudio}, Insert(k, a)
      PROVE  RunningIsHeld'
  <2>1. PICK n \in JobId : job' = [job EXCEPT ![n] = NewRow(k, a)]
    BY <1>1, InsertFacts
  <2>2. NewRow(k, a).state # RUNNING
    BY StatesDistinct DEF NewRow
  <2>3. \A i \in JobId : job'[i].state = RUNNING => job[i].state = RUNNING
    BY <2>1, <2>2 DEF TypeOK
  <2> QED
    BY <1>1, <2>3 DEF Insert, RunningIsHeld
<1>2. ASSUME NEW t \in Threads, Claim(t)
      PROVE  RunningIsHeld'
  <2>1. PICK j \in JobId :
              /\ \A i \in JobId : i # j => job'[i] = job[i]
              /\ work'[t] = [id |-> j, kind |-> job[j].kind,
                             attempts |-> job[j].attempts + 1]
              /\ lost' = lost \ {j}
    BY <1>2, ClaimFacts
  <2>2. /\ up /\ work[t] = Idle /\ overtaken' = overtaken
        /\ \A u \in Threads : u # t => work'[u] = work[u]
    BY <1>2, ClaimFacts
  <2>3. t \in Threads \ overtaken' /\ work'[t].id = j
    BY <2>1, <2>2 DEF IdleNotOvertaken
  <2>4. ASSUME NEW i \in JobId, job'[i].state = RUNNING, i # j
        PROVE  i \in lost' \/ \E u \in Threads \ overtaken' : work'[u].id = i
    <3>1. i \in lost \/ \E u \in Threads \ overtaken : work[u].id = i
      BY <2>1, <2>2, <2>4 DEF RunningIsHeld
    <3>2. work[t].id # i
      BY <2>2, IdleFacts
    <3> QED
      BY <2>1, <2>2, <2>4, <3>1, <3>2
  <2> QED
    BY <2>3, <2>4 DEF RunningIsHeld
<1>3. ASSUME NEW t \in Threads, Finish(t) \/ Fail(t) \/ NoHandler(t)
      PROVE  RunningIsHeld'
  <2>1. up /\ lost' = lost /\ work[t].id \in JobId /\ Release(t)
    BY <1>3, OutcomeFacts
  <2>2. PICK s \in {DONE, PENDING, FAILED} : Settle(work[t].id, s)
    BY <1>3, OutcomeFacts
  <2>3. job'[work[t].id].state # RUNNING
    <3>1. s \in States /\ s # RUNNING
      BY OutcomeStates, StatesDistinct
    <3> QED
      BY <2>1, <2>2, <3>1, SettleFacts, StatesDistinct
  <2>4. ASSUME NEW i \in JobId, job'[i].state = RUNNING
        PROVE  i \in lost' \/ \E u \in Threads \ overtaken' : work'[u].id = i
    <3>1. i # work[t].id /\ job'[i] = job[i]
      BY <2>1, <2>2, <2>3, <2>4, SettleFacts, OutcomeStates
    <3>2. CASE i \in lost
      BY <2>1, <3>2
    <3>3. CASE i \notin lost
      <4>1. PICK u \in Threads \ overtaken : work[u].id = i
        BY <2>1, <2>4, <3>1, <3>3 DEF RunningIsHeld
      <4>2. u # t /\ work'[u] = work[u] /\ u \notin overtaken'
        BY <2>1, <3>1, <4>1, ReleaseFacts
      <4> QED
        BY <4>1, <4>2
    <3> QED
      BY <3>2, <3>3
  <2> QED
    BY <2>4 DEF RunningIsHeld
<1>4. ASSUME NEW t \in Threads, LoseOutcome(t)
      PROVE  RunningIsHeld'
  <2>1. /\ up /\ job' = job
        /\ lost' = IF t \in overtaken THEN lost ELSE lost \cup {work[t].id}
        /\ overtaken' = overtaken \ {t}
        /\ \A u \in Threads : u # t => work'[u] = work[u]
    BY <1>4, LoseFacts
  <2>2. ASSUME NEW i \in JobId, job'[i].state = RUNNING
        PROVE  i \in lost' \/ \E u \in Threads \ overtaken' : work'[u].id = i
    <3>1. CASE i \in lost
      BY <2>1, <3>1
    <3>2. ASSUME NEW u \in Threads \ overtaken, work[u].id = i
          PROVE  i \in lost' \/ \E v \in Threads \ overtaken' : work'[v].id = i
      <4>1. CASE u = t
        BY <2>1, <3>2, <4>1
      <4>2. CASE u # t
        <5>1. u \in Threads \ overtaken' /\ work'[u].id = i
          BY <2>1, <3>2, <4>2
        <5> QED
          BY <5>1
      <4> QED
        BY <4>1, <4>2
    <3>3. job[i].state = RUNNING
      BY <2>1, <2>2
    <3> QED
      BY <2>1, <3>1, <3>2, <3>3 DEF RunningIsHeld
  <2> QED
    BY <2>2 DEF RunningIsHeld
<1>5. ASSUME NEW j \in JobId, BackoffElapsed(j) \/ Cancel(j)
      PROVE  RunningIsHeld'
  <2>1. UNCHANGED <<work, up, overtaken, lost>>
    BY <1>5, BackoffFacts, CancelFacts
  <2>2. \A i \in JobId : job'[i].state = RUNNING => job[i].state = RUNNING
    BY <1>5, BackoffFacts, CancelFacts, StatesDistinct
  <2> QED
    BY <2>1, <2>2 DEF RunningIsHeld
<1>6. ASSUME NEW j \in JobId, Retry(j)
      PROVE  RunningIsHeld'
  <2>1. /\ UNCHANGED <<work, up, lost>> /\ overtaken' = overtaken \cup Holders(j)
        /\ \A i \in JobId : job'[i].state = RUNNING => i # j /\ job[i].state = RUNNING
    BY <1>6, RetryFacts, StatesDistinct
  <2> QED
    BY <2>1 DEF RunningIsHeld, Holders
<1>7. ASSUME NEW a \in Audios, Purge(a)
      PROVE  RunningIsHeld'
  <2>1. PICK own \in SUBSET JobId :
           /\ UNCHANGED <<work, up>>
           /\ overtaken' = overtaken \cup {t \in Threads : work[t].id \in own}
           /\ lost' = lost \ own
           /\ \A i \in own : job'[i].state = ABSENT
           /\ \A i \in JobId \ own : job'[i] = job[i]
    BY <1>7, PurgeFacts
  <2>2. \A i \in JobId : job'[i].state = RUNNING => i \notin own /\ job[i].state = RUNNING
    BY <2>1, StatesDistinct
  <2> QED
    BY <2>1, <2>2 DEF RunningIsHeld
<1>8. CASE Crash
  BY <1>8 DEF Crash, RunningIsHeld
<1>9. CASE Start
  BY <1>9, StartFacts, StatesDistinct DEF RunningIsHeld
<1> QED
  BY <1>1, <1>2, <1>3, <1>4, <1>5, <1>6, <1>7, <1>8, <1>9, NextCases

\* Only a claim adds to the transcriptions marked running, it adds one, and it
\* does so only below the limit.
LEMMA SlotSteps ==
  ASSUME TypeOK, Next
  PROVE  \/ RunningTranscriptions' \subseteq RunningTranscriptions
         \/ /\ Cardinality(RunningTranscriptions) < TranscriptionLimit
            /\ \E j \in JobId \ RunningTranscriptions :
                 RunningTranscriptions' = RunningTranscriptions \cup {j}
<1> DEFINE Shrinks == RunningTranscriptions' \subseteq RunningTranscriptions
<1>1. ASSUME NEW k \in Kinds, NEW a \in Audios \cup {NoAudio}, Insert(k, a)
      PROVE  Shrinks
  <2>1. PICK n \in JobId : job' = [job EXCEPT ![n] = NewRow(k, a)]
    BY <1>1, InsertFacts
  <2>2. NewRow(k, a).state # RUNNING
    BY StatesDistinct DEF NewRow
  <2> QED
    BY <2>1, <2>2 DEF TypeOK, RunningTranscriptions
<1>2. ASSUME NEW t \in Threads, Claim(t)
      PROVE  \/ Shrinks
             \/ /\ Cardinality(RunningTranscriptions) < TranscriptionLimit
                /\ \E j \in JobId \ RunningTranscriptions :
                     RunningTranscriptions' = RunningTranscriptions \cup {j}
  <2>1. PICK j \in JobId :
              /\ Claimable(j)
              /\ job'[j].state = RUNNING
              /\ job'[j].kind = job[j].kind
              /\ \A i \in JobId : i # j => job'[i] = job[i]
    BY <1>2, ClaimFacts
  <2>2. job[j].state # RUNNING
    BY <2>1, StatesDistinct DEF Claimable, IsReady
  <2>3. CASE job[j].kind = Transcribe
    <3>1. RunningTranscriptions' = RunningTranscriptions \cup {j}
      BY <2>1, <2>3 DEF RunningTranscriptions
    <3>2. j \notin RunningTranscriptions
      BY <2>2 DEF RunningTranscriptions
    <3>3. Cardinality(RunningTranscriptions) < TranscriptionLimit
      BY <2>1, <2>3 DEF Claimable
    <3> QED
      BY <3>1, <3>2, <3>3
  <2>4. CASE job[j].kind # Transcribe
    BY <2>1, <2>4 DEF RunningTranscriptions
  <2> QED
    BY <2>3, <2>4
<1>3. ASSUME NEW t \in Threads, Finish(t) \/ Fail(t) \/ NoHandler(t)
      PROVE  Shrinks
  <2>1. work[t].id \in JobId
    BY <1>3, OutcomeFacts
  <2>2. PICK s \in {DONE, PENDING, FAILED} : Settle(work[t].id, s)
    BY <1>3, OutcomeFacts
  <2>3. s \in States /\ s # RUNNING
    BY OutcomeStates, StatesDistinct
  <2>4. \A i \in JobId : /\ job'[i].kind = job[i].kind
                         /\ job'[i].state = RUNNING => job[i].state = RUNNING
    BY <2>1, <2>2, <2>3, SettleFacts
  <2> QED
    BY <2>4 DEF RunningTranscriptions
<1>4. ASSUME NEW t \in Threads, LoseOutcome(t)
      PROVE  Shrinks
  BY <1>4, LoseFacts DEF RunningTranscriptions
<1>5. ASSUME NEW j \in JobId, BackoffElapsed(j) \/ Cancel(j)
      PROVE  Shrinks
  <2>1. \A i \in JobId : /\ job'[i].kind = job[i].kind
                         /\ job'[i].state = RUNNING => job[i].state = RUNNING
    BY <1>5, BackoffFacts, CancelFacts, StatesDistinct
  <2> QED
    BY <2>1 DEF RunningTranscriptions
<1>6. ASSUME NEW j \in JobId, Retry(j)
      PROVE  Shrinks
  BY <1>6, RetryFacts, StatesDistinct DEF RunningTranscriptions
<1>7. ASSUME NEW a \in Audios, Purge(a)
      PROVE  Shrinks
  BY <1>7, PurgeFacts, StatesDistinct DEF RunningTranscriptions
<1>8. CASE Crash
  BY <1>8 DEF Crash, RunningTranscriptions
<1>9. CASE Start
  BY <1>9, StartFacts, StatesDistinct DEF RunningTranscriptions
<1> QED
  BY <1>1, <1>2, <1>3, <1>4, <1>5, <1>6, <1>7, <1>8, <1>9, NextCases

LEMMA RunningFinite ==
  /\ IsFiniteSet(RunningTranscriptions)
  /\ Cardinality(RunningTranscriptions) \in Nat
<1>1. IsFiniteSet(JobId)
  BY QueueAssumption, FS_Interval DEF JobId
<1>2. RunningTranscriptions \subseteq JobId
  BY DEF RunningTranscriptions
<1> QED
  BY <1>1, <1>2, FS_Subset, FS_CardinalityType

LEMMA SlotsRespectedNext ==
  ASSUME TypeOK, SlotsRespected, Next
  PROVE  SlotsRespected'
<1>1. CASE RunningTranscriptions' \subseteq RunningTranscriptions
  <2>1. Cardinality(RunningTranscriptions') <= Cardinality(RunningTranscriptions)
    BY <1>1, RunningFinite, FS_Subset
  <2>2. Cardinality(RunningTranscriptions') \in Nat
    BY <1>1, RunningFinite, FS_Subset, FS_CardinalityType
  <2> QED
    BY <2>1, <2>2, RunningFinite, QueueAssumption DEF SlotsRespected
<1>2. ASSUME Cardinality(RunningTranscriptions) < TranscriptionLimit,
             NEW j \in JobId \ RunningTranscriptions,
             RunningTranscriptions' = RunningTranscriptions \cup {j}
      PROVE  SlotsRespected'
  <2>1. Cardinality(RunningTranscriptions') = Cardinality(RunningTranscriptions) + 1
    BY <1>2, RunningFinite, FS_AddElement
  <2> QED
    BY <1>2, <2>1, RunningFinite, QueueAssumption DEF SlotsRespected
<1> QED
  BY <1>1, <1>2, SlotSteps

LEMMA InvInit == Init => IInv
<1> SUFFICES ASSUME Init PROVE IInv
  OBVIOUS
<1>1. TypeOK
  BY TypeInit
<1>2. RunningTranscriptions = {}
  BY StatesDistinct DEF Init, RunningTranscriptions, NoRow
<1>3. SlotsRespected
  BY <1>2, FS_EmptySet, QueueAssumption DEF SlotsRespected
<1>4. RunningIsHeld
  BY StatesDistinct DEF Init, RunningIsHeld, NoRow
<1> QED
  BY <1>1, <1>3, <1>4 DEF Init, IInv, IdleNotOvertaken, DownIsIdle, HeldRow, ExclusiveClaim

LEMMA InvNext == IInv /\ [Next]_vars => IInv'
<1> SUFFICES ASSUME IInv, [Next]_vars PROVE IInv'
  OBVIOUS
<1>1. TypeOK'
  BY TypeNext DEF IInv
<1>2. CASE Next
  BY <1>1, <1>2, IdleNext, HeldRowNext, RunningIsHeldNext, SlotsRespectedNext DEF IInv
<1>3. CASE UNCHANGED vars
  BY <1>1, <1>3 DEF vars, IInv, IdleNotOvertaken, DownIsIdle, HeldRow, ExclusiveClaim,
     RunningIsHeld, SlotsRespected, RunningTranscriptions
<1> QED
  BY <1>2, <1>3

\* The inductive invariant holds of every reachable state.
THEOREM Invariant == Spec => []IInv
BY InvInit, InvNext, PTL DEF Spec

\* JOB-15's limit on rows marked running, whatever is cancelled, retried,
\* purged or recovered.
THEOREM SlotsAlwaysRespected == Spec => []SlotsRespected
<1>1. IInv => SlotsRespected
  BY DEF IInv
<1> QED
  BY <1>1, Invariant, PTL

\* Two threads never run one job unless it was taken from one of them, and
\* the thread that still has it agrees with the row.
THEOREM ClaimsExclusive == Spec => [](ExclusiveClaim /\ HeldRow)
<1>1. IInv => ExclusiveClaim /\ HeldRow
  BY DEF IInv
<1> QED
  BY <1>1, Invariant, PTL

\* A job that says it is running is being run, or its outcome was lost.
THEOREM RunningAlwaysHeld == Spec => []RunningIsHeld
<1>1. IInv => RunningIsHeld
  BY DEF IInv
<1> QED
  BY <1>1, Invariant, PTL

-----------------------------------------------------------------------------
(* What a step may do to a settled row *)

\* Recording a failed outcome means the thread believes the attempts are used
\* up, or that nobody can run this kind.
LEMMA FailedOutcome ==
  ASSUME TypeOK, NEW t \in Threads, Finish(t) \/ Fail(t) \/ NoHandler(t),
         job[work[t].id].state # FAILED, job'[work[t].id].state = FAILED
  PROVE  work[t].attempts >= MaxAttempts \/ work[t].kind \notin HandledKinds
<1>1. work[t].id \in JobId
  BY OutcomeFacts
<1>2. CASE Finish(t)
  <2>1. Settle(work[t].id, DONE) /\ DONE \in States
    BY <1>2 DEF Finish, States
  <2>2. job' = job \/ job'[work[t].id].state = DONE
    BY <1>1, <2>1, SettleFacts
  <2> QED
    BY <2>2, StatesDistinct
<1>3. CASE Fail(t)
  <2>1. work[t].attempts \in Nat
    BY <1>1, IdleFacts
  <2>2. /\ Settle(work[t].id, AfterFailure(work[t].attempts))
        /\ AfterFailure(work[t].attempts) \in States
    BY <1>3, <2>1, OutcomesAreStates DEF Fail
  <2>3. job' = job \/ job'[work[t].id].state = AfterFailure(work[t].attempts)
    BY <1>1, <2>2, SettleFacts
  <2>4. AfterFailure(work[t].attempts) = FAILED
    BY <2>3
  <2> QED
    BY <2>1, <2>4, QueueAssumption, StatesDistinct DEF AfterFailure
<1>4. CASE NoHandler(t)
  BY <1>4 DEF NoHandler
<1> QED
  BY <1>2, <1>3, <1>4

\* Every way a row's state can change, with who does it.
LEMMA RowSteps ==
  ASSUME TypeOK, Next, NEW j \in JobId
  PROVE  \/ job'[j].state = job[j].state
         \/ job[j].state = ABSENT /\ job'[j].state = PENDING
         \/ job'[j].state = ABSENT
         \/ Retry(j) /\ job'[j].state = PENDING
         \/ job[j].state \in {PENDING, RUNNING} /\ job'[j].state = CANCELLED
         \/ job[j].state = PENDING /\ job'[j].state = RUNNING
         \/ job[j].state = RUNNING /\ job'[j].state = PENDING
         \/ \E t \in Holders(j) :
              /\ Finish(t) \/ Fail(t) \/ NoHandler(t)
              /\ job[j].state \notin {CANCELLED, ABSENT}
<1> DEFINE P == \/ job'[j].state = job[j].state
                \/ job[j].state = ABSENT /\ job'[j].state = PENDING
                \/ job'[j].state = ABSENT
                \/ Retry(j) /\ job'[j].state = PENDING
                \/ job[j].state \in {PENDING, RUNNING} /\ job'[j].state = CANCELLED
                \/ job[j].state = PENDING /\ job'[j].state = RUNNING
                \/ job[j].state = RUNNING /\ job'[j].state = PENDING
                \/ \E t \in Holders(j) :
                     /\ Finish(t) \/ Fail(t) \/ NoHandler(t)
                     /\ job[j].state \notin {CANCELLED, ABSENT}
<1>1. ASSUME NEW k \in Kinds, NEW a \in Audios \cup {NoAudio}, Insert(k, a)
      PROVE  P
  <2>1. PICK n \in JobId : /\ job[n].state = ABSENT
                           /\ job' = [job EXCEPT ![n] = NewRow(k, a)]
    BY <1>1, InsertFacts
  <2>2. NewRow(k, a).state = PENDING
    BY DEF NewRow
  <2>3. CASE j = n
    BY <2>1, <2>2, <2>3 DEF TypeOK
  <2>4. CASE j # n
    BY <2>1, <2>4 DEF TypeOK
  <2> QED
    BY <2>3, <2>4
<1>2. ASSUME NEW t \in Threads, Claim(t)
      PROVE  P
  <2>1. PICK i \in JobId : /\ Claimable(i)
                           /\ job'[i].state = RUNNING
                           /\ \A n \in JobId : n # i => job'[n] = job[n]
    BY <1>2, ClaimFacts
  <2>2. job[i].state = PENDING
    BY <2>1 DEF Claimable, IsReady
  <2> QED
    BY <2>1, <2>2
<1>3. ASSUME NEW t \in Threads, Finish(t) \/ Fail(t) \/ NoHandler(t)
      PROVE  P
  <2>1. work[t].id \in JobId
    BY <1>3, OutcomeFacts
  <2>2. PICK s \in {DONE, PENDING, FAILED} : Settle(work[t].id, s)
    BY <1>3, OutcomeFacts
  <2>3. s \in States
    BY OutcomeStates
  <2>4. CASE j # work[t].id
    BY <2>1, <2>2, <2>3, <2>4, SettleFacts
  <2>5. CASE j = work[t].id /\ job[j].state \in {CANCELLED, ABSENT}
    BY <2>1, <2>2, <2>3, <2>5, SettleFacts
  <2>6. CASE j = work[t].id /\ job[j].state \notin {CANCELLED, ABSENT}
    <3>1. t \in Holders(j)
      BY <2>6 DEF Holders
    <3> QED
      BY <1>3, <2>6, <3>1
  <2> QED
    BY <2>4, <2>5, <2>6
<1>4. ASSUME NEW t \in Threads, LoseOutcome(t)
      PROVE  P
  BY <1>4, LoseFacts
<1>5. ASSUME NEW i \in JobId, BackoffElapsed(i)
      PROVE  P
  BY <1>5, BackoffFacts
<1>6. ASSUME NEW i \in JobId, Cancel(i)
      PROVE  P
  BY <1>6, CancelFacts
<1>7. ASSUME NEW i \in JobId, Retry(i)
      PROVE  P
  BY <1>7, RetryFacts
<1>8. ASSUME NEW a \in Audios, Purge(a)
      PROVE  P
  <2>1. PICK own \in SUBSET JobId :
           /\ \A i \in own : job'[i].state = ABSENT
           /\ \A i \in JobId \ own : job'[i] = job[i]
    BY <1>8, PurgeFacts
  <2> QED
    BY <2>1
<1>9. ASSUME Crash
      PROVE  P
  BY <1>9 DEF Crash
<1>10. ASSUME Start
       PROVE  P
  BY <1>10, StartFacts
<1> HIDE DEF P
<1>11. P
  BY <1>1, <1>2, <1>3, <1>4, <1>5, <1>6, <1>7, <1>8, <1>9, <1>10,
     NextCases, Zenon
<1> QED
  BY <1>11 DEF P

\* A cancellation stands: only somebody pressing retry puts the job back.
THEOREM CancelledStays == Spec => CancellationStands
<1> DEFINE Stands == \A j \in JobId :
                       /\ job[j].state = CANCELLED
                       /\ job'[j].state \notin {CANCELLED, ABSENT}
                       => Retry(j)
<1>1. IInv /\ [Next]_vars => [Stands]_vars
  <2> SUFFICES ASSUME IInv, Next PROVE Stands
    OBVIOUS
  <2> TAKE j \in JobId
  <2> QED
    BY RowSteps, StatesDistinct DEF IInv
<1>2. Spec => [][Next]_vars
  BY PTL DEF Spec
<1> QED
  BY <1>1, <1>2, Invariant, PTL DEF CancellationStands

\* A job that is done stays done unless a thread it was taken from ends later.
THEOREM DoneStays == Spec => DoneStaysDone
<1> DEFINE Stays == \A j \in JobId :
                      /\ job[j].state = DONE
                      /\ job'[j].state \notin {DONE, ABSENT}
                      => overtaken \cap Holders(j) # {}
<1>1. IInv /\ [Next]_vars => [Stays]_vars
  <2> SUFFICES ASSUME IInv, Next PROVE Stays
    OBVIOUS
  <2> SUFFICES ASSUME NEW j \in JobId, job[j].state = DONE,
                      job'[j].state \notin {DONE, ABSENT}
               PROVE  overtaken \cap Holders(j) # {}
    OBVIOUS
  <2>1. ~Retry(j)
    BY RetryFacts, StatesDistinct DEF IInv
  <2>2. PICK t \in Holders(j) : Finish(t) \/ Fail(t) \/ NoHandler(t)
    BY <2>1, RowSteps, StatesDistinct DEF IInv
  <2>3. t \in Threads /\ work[t].id = j /\ work[t] # Idle
    BY <2>2, OutcomeFacts DEF Holders, IInv
  <2>4. t \in overtaken
    BY <2>3, StatesDistinct DEF IInv, HeldRow
  <2> QED
    BY <2>2, <2>4
<1>2. Spec => [][Next]_vars
  BY PTL DEF Spec
<1> QED
  BY <1>1, <1>2, Invariant, PTL DEF DoneStaysDone

\* The queue gives up on a job it can run only when its attempts are used up,
\* or through a thread it had been taken from.
THEOREM GivesUpLate == Spec => GivesUpOnlyWhenExhausted
<1> DEFINE Late == \A j \in JobId :
                     /\ job[j].state # FAILED /\ job'[j].state = FAILED
                     /\ job[j].kind \in HandledKinds
                     => \/ job[j].attempts >= MaxAttempts
                        \/ overtaken \cap Holders(j) # {}
<1>1. IInv /\ [Next]_vars => [Late]_vars
  <2> SUFFICES ASSUME IInv, Next PROVE Late
    OBVIOUS
  <2> SUFFICES ASSUME NEW j \in JobId,
                      job[j].state # FAILED, job'[j].state = FAILED,
                      job[j].kind \in HandledKinds
               PROVE  \/ job[j].attempts >= MaxAttempts
                      \/ overtaken \cap Holders(j) # {}
    OBVIOUS
  <2>1. PICK t \in Holders(j) : Finish(t) \/ Fail(t) \/ NoHandler(t)
    BY RowSteps, StatesDistinct DEF IInv
  <2>2. t \in Threads /\ work[t].id = j /\ work[t] # Idle
    BY <2>1, OutcomeFacts DEF Holders, IInv
  <2>3. CASE t \in overtaken
    BY <2>1, <2>3
  <2>4. CASE t \notin overtaken
    <3>1. job[j].attempts = work[t].attempts /\ job[j].kind = work[t].kind
      BY <2>2, <2>4 DEF IInv, HeldRow
    <3> QED
      BY <2>1, <2>2, <3>1, FailedOutcome DEF IInv
  <2> QED
    BY <2>3, <2>4
<1>2. Spec => [][Next]_vars
  BY PTL DEF Spec
<1> QED
  BY <1>1, <1>2, Invariant, PTL DEF GivesUpOnlyWhenExhausted

\* What is settled stands, in all three ways.
THEOREM OutcomesKept == Spec => OutcomesStand
BY CancelledStays, DoneStays, GivesUpLate DEF OutcomesStand

\* The queue is a counting lock: its every step is one of Slots' steps, or
\* leaves the running transcriptions alone.
THEOREM QueueImplementsSlots == Spec => ImplementsSlots
<1>1. Init => EngineSlots!Init
  BY StatesDistinct DEF Init, EngineSlots!Init, RunningTranscriptions, NoRow
<1>2. TypeOK /\ [Next]_vars => [EngineSlots!Next]_RunningTranscriptions
  <2> SUFFICES ASSUME TypeOK, [Next]_vars
               PROVE  [EngineSlots!Next]_RunningTranscriptions
    OBVIOUS
  <2>1. CASE UNCHANGED vars
    BY <2>1 DEF vars, RunningTranscriptions
  <2>2. CASE RunningTranscriptions' \subseteq RunningTranscriptions
    <3>1. RunningTranscriptions' =
            RunningTranscriptions \ (RunningTranscriptions \ RunningTranscriptions')
      BY <2>2
    <3>2. \E S \in SUBSET RunningTranscriptions :
            RunningTranscriptions' = RunningTranscriptions \ S
      <4>1. RunningTranscriptions \ RunningTranscriptions' \in SUBSET RunningTranscriptions
        OBVIOUS
      <4> QED
        BY <3>1, <4>1
    <3>3. EngineSlots!GiveBack
      BY <3>2 DEF EngineSlots!GiveBack
    <3> QED
      BY <3>3 DEF EngineSlots!Next
  <2>3. ASSUME Cardinality(RunningTranscriptions) < TranscriptionLimit,
               NEW j \in JobId \ RunningTranscriptions,
               RunningTranscriptions' = RunningTranscriptions \cup {j}
        PROVE  EngineSlots!Next
    BY <2>3 DEF EngineSlots!Acquire, EngineSlots!Next,
       EngineSlots!Cardinality, Cardinality
  <2> QED
    BY <2>1, <2>2, <2>3, SlotSteps
<1> QED
  BY <1>1, <1>2, TypeCorrect, PTL DEF Spec, ImplementsSlots, EngineSlots!Spec

-----------------------------------------------------------------------------
(* What is in the table *)

\* A row that is there after a step was there before with its kind and its
\* recording.
KeepsRows == \A i \in JobId : job'[i].state # ABSENT =>
                 /\ job[i].state # ABSENT
                 /\ job'[i].kind = job[i].kind
                 /\ job'[i].audio = job[i].audio

\* Nothing but the three steps that put a row in ever makes it otherwise.
LEMMA OthersKeepRows ==
  ASSUME TypeOK,
         \/ \E t \in Threads : Worker(t)
         \/ \E i \in JobId : BackoffElapsed(i) \/ Cancel(i) \/ Retry(i)
         \/ \E a \in Audios : Purge(a) \/ CancelTranscription(a)
         \/ Crash \/ Start \/ UNCHANGED vars
  PROVE  KeepsRows
<1>1. ASSUME NEW t \in Threads, Claim(t)
      PROVE  KeepsRows
  <2>1. PICK j \in JobId : /\ Claimable(j)
                           /\ job'[j].kind = job[j].kind
                           /\ job'[j].audio = job[j].audio
                           /\ \A i \in JobId : i # j => job'[i] = job[i]
    BY <1>1, ClaimFacts
  <2>2. job[j].state # ABSENT
    BY <2>1, StatesDistinct DEF Claimable, IsReady
  <2> QED
    BY <2>1, <2>2 DEF KeepsRows
<1>2. ASSUME NEW t \in Threads, Finish(t) \/ Fail(t) \/ NoHandler(t)
      PROVE  KeepsRows
  <2>1. work[t].id \in JobId
    BY <1>2, OutcomeFacts
  <2>2. PICK s \in {DONE, PENDING, FAILED} : Settle(work[t].id, s)
    BY <1>2, OutcomeFacts
  <2>3. s \in States
    BY OutcomeStates
  <2> QED
    BY <2>1, <2>2, <2>3, SettleFacts DEF KeepsRows
<1>3. ASSUME NEW t \in Threads, LoseOutcome(t)
      PROVE  KeepsRows
  BY <1>3, LoseFacts DEF KeepsRows
<1>4. ASSUME NEW i \in JobId, BackoffElapsed(i)
      PROVE  KeepsRows
  BY <1>4, BackoffFacts DEF KeepsRows
<1>5. ASSUME NEW i \in JobId, Cancel(i)
      PROVE  KeepsRows
  BY <1>5, CancelFacts, StatesDistinct DEF KeepsRows
<1>6. ASSUME NEW i \in JobId, Retry(i)
      PROVE  KeepsRows
  <2>1. job'[i].kind = job[i].kind /\ job'[i].audio = job[i].audio
    BY <1>6 DEF Retry, TypeOK, Rows
  <2> QED
    BY <1>6, <2>1, RetryFacts, StatesDistinct DEF KeepsRows
<1>7. ASSUME NEW a \in Audios, Purge(a)
      PROVE  KeepsRows
  <2>1. PICK own \in SUBSET JobId :
           /\ \A i \in own : job'[i].state = ABSENT
           /\ \A i \in JobId \ own : job'[i] = job[i]
    BY <1>7, PurgeFacts
  <2> QED
    BY <2>1 DEF KeepsRows
<1>8. ASSUME Crash
      PROVE  KeepsRows
  BY <1>8 DEF Crash, KeepsRows
<1>9. ASSUME Start
      PROVE  KeepsRows
  BY <1>9, StartFacts, StatesDistinct DEF KeepsRows
<1>10. ASSUME NEW a \in Audios, CancelTranscription(a)
       PROVE  KeepsRows
  BY <1>5, <1>10 DEF CancelTranscription, TranscriptionInFlight
<1>11. CASE UNCHANGED vars
  BY <1>11 DEF vars, KeepsRows
<1> QED
  BY <1>1, <1>2, <1>3, <1>4, <1>5, <1>6, <1>7, <1>8, <1>9, <1>10, <1>11, Zenon DEF Worker

LEMMA RowsKept ==
  ASSUME TypeOK, Next
  PROVE  \/ \E a \in Audios, k \in Kinds : Enqueue(k, a)
         \/ \E a \in Audios : EnqueueTranscription(a)
         \/ Schedule
         \/ KeepsRows
BY OthersKeepRows, Zenon DEF Next, People

\* A new row is of the kind and the recording asked for, and no other changes.
LEMMA NewRowFacts ==
  ASSUME TypeOK, NEW k \in Kinds, NEW a \in Audios \cup {NoAudio}, Insert(k, a)
  PROVE  \E n \in JobId : /\ job[n].state = ABSENT
                          /\ job'[n].state = PENDING
                          /\ job'[n].kind = k /\ job'[n].audio = a
                          /\ \A i \in JobId : i # n => job'[i] = job[i]
<1>1. PICK n \in JobId : /\ job[n].state = ABSENT
                         /\ job' = [job EXCEPT ![n] = NewRow(k, a)]
  BY InsertFacts
<1>2. job'[n] = NewRow(k, a) /\ \A i \in JobId : i # n => job'[i] = job[i]
  BY <1>1 DEF TypeOK
<1> QED
  BY <1>1, <1>2 DEF NewRow

LEMMA QueuedOnceNext ==
  ASSUME TypeOK, QueuedOnce, Next
  PROVE  QueuedOnce'
<1>1. \A i, j \in JobId :
         /\ job[i].state # ABSENT /\ job[j].state # ABSENT
         /\ job[i].kind = job[j].kind /\ job[i].audio = job[j].audio
         /\ job[i].kind \notin {Transcribe, KIND_PURGE}
         => i = j
  BY DEF QueuedOnce, Present
<1> SUFFICES ASSUME NEW i \in JobId, NEW j \in JobId,
                    job'[i].state # ABSENT, job'[j].state # ABSENT,
                    job'[i].kind = job'[j].kind, job'[i].audio = job'[j].audio,
                    job'[i].kind \notin {Transcribe, KIND_PURGE}
             PROVE  i = j
  BY DEF QueuedOnce, Present
<1>2. ASSUME NEW k \in Kinds, NEW a \in Audios, Enqueue(k, a)
      PROVE  i = j
  <2>1. \A m \in JobId : job[m].state # ABSENT => ~(job[m].kind = k /\ job[m].audio = a)
    BY <1>2 DEF Enqueue, Present
  <2>2. PICK n \in JobId : /\ job[n].state = ABSENT
                           /\ job'[n].kind = k /\ job'[n].audio = a
                           /\ \A m \in JobId : m # n => job'[m] = job[m]
    BY <1>2, NewRowFacts DEF Enqueue
  <2> QED
    BY <1>1, <2>1, <2>2
<1>3. ASSUME NEW a \in Audios, EnqueueTranscription(a)
      PROVE  i = j
  <2>1. PICK n \in JobId : /\ job'[n].kind = Transcribe
                           /\ \A m \in JobId : m # n => job'[m] = job[m]
    BY <1>3, NewRowFacts DEF EnqueueTranscription
  <2> QED
    BY <1>1, <2>1
<1>4. ASSUME Schedule
      PROVE  i = j
  <2>1. PICK n \in JobId : /\ job'[n].kind = KIND_PURGE
                           /\ \A m \in JobId : m # n => job'[m] = job[m]
    BY <1>4, NewRowFacts DEF Schedule
  <2> QED
    BY <1>1, <2>1
<1>5. ASSUME \A m \in JobId : job'[m].state # ABSENT =>
               /\ job[m].state # ABSENT
               /\ job'[m].kind = job[m].kind
               /\ job'[m].audio = job[m].audio
      PROVE  i = j
  BY <1>1, <1>5
<1> QED
  BY <1>2, <1>3, <1>4, <1>5, RowsKept DEF KeepsRows

\* Work whose key names a recording for good is in the table once, whatever is
\* uploaded again, probed again, purged or recovered.
THEOREM AlwaysQueuedOnce == Spec => []QueuedOnce
<1>1. Init => QueuedOnce
  BY DEF Init, QueuedOnce, Present, NoRow
<1>2. TypeOK /\ QueuedOnce /\ [Next]_vars => QueuedOnce'
  <2>1. CASE UNCHANGED vars
    BY <2>1 DEF vars, QueuedOnce, Present
  <2> QED
    BY <2>1, QueuedOnceNext
<1> QED
  BY <1>1, <1>2, TypeCorrect, PTL DEF Spec

-----------------------------------------------------------------------------
(* Transcriptions in flight *)

\* What a step does to the transcriptions of one recording that are in flight:
\* it adds none, unless it is the request at the endpoint with none there,
\* somebody's retry, or a failure recorded by a thread that had lost its job.
LEMMA InFlightSteps ==
  ASSUME IInv, Next, NEW a \in Audios
  PROVE  \/ TranscriptionInFlight(a)' \subseteq TranscriptionInFlight(a)
         \/ /\ TranscriptionInFlight(a) = {}
            /\ \E n \in JobId : TranscriptionInFlight(a)' \subseteq {n}
         \/ \E j \in JobId : Retry(j)
         \/ \E t \in overtaken : Fail(t)
<1> DEFINE F == TranscriptionInFlight(a)
           P == \/ F' \subseteq F
                \/ F = {} /\ \E n \in JobId : F' \subseteq {n}
                \/ \E j \in JobId : Retry(j)
                \/ \E t \in overtaken : Fail(t)
           Same(i) == /\ job'[i].kind = job[i].kind
                      /\ job'[i].audio = job[i].audio
                      /\ job'[i].state \in Unsettled => job[i].state \in Unsettled
<1>0. TypeOK /\ HeldRow
  BY DEF IInv
<1>00. \A i \in JobId : i \in F <=> /\ job[i].kind = Transcribe /\ job[i].audio = a
                                    /\ job[i].state \in Unsettled
  BY DEF TranscriptionInFlight
<1>01. \A i \in JobId : i \in F' <=> /\ job'[i].kind = Transcribe /\ job'[i].audio = a
                                     /\ job'[i].state \in Unsettled
  BY DEF TranscriptionInFlight
<1>02. F \subseteq JobId /\ F' \subseteq JobId
  BY DEF TranscriptionInFlight
<1> HIDE DEF F
<1>03. ASSUME \A i \in JobId : i \in F' => Same(i)
       PROVE  P
  BY <1>00, <1>01, <1>02, <1>03
<1>1. ASSUME NEW k \in Kinds, NEW b \in Audios, Enqueue(k, b)
      PROVE  P
  <2>1. k # Transcribe
    BY <1>1 DEF Enqueue
  <2>2. PICK n \in JobId : /\ job'[n].kind = k
                           /\ \A m \in JobId : m # n => job'[m] = job[m]
    BY <1>0, <1>1, NewRowFacts DEF Enqueue
  <2> QED
    BY <1>01, <1>03, <2>1, <2>2
<1>2. ASSUME NEW b \in Audios, EnqueueTranscription(b)
      PROVE  P
  <2>1. PICK n \in JobId : /\ job'[n].audio = b
                           /\ \A m \in JobId : m # n => job'[m] = job[m]
    BY <1>0, <1>2, NewRowFacts DEF EnqueueTranscription
  <2>2. CASE b = a
    <3>1. F = {}
      BY <1>2, <2>2 DEF EnqueueTranscription, F
    <3>2. F' \subseteq {n}
      BY <1>00, <1>01, <1>02, <2>1, <3>1
    <3> QED
      BY <3>1, <3>2
  <2>3. CASE b # a
    BY <1>01, <1>03, <2>1, <2>3
  <2> QED
    BY <2>2, <2>3
<1>3. ASSUME Schedule
      PROVE  P
  <2>1. PICK n \in JobId : /\ job'[n].kind = KIND_PURGE
                           /\ \A m \in JobId : m # n => job'[m] = job[m]
    BY <1>0, <1>3, NewRowFacts DEF Schedule
  <2> QED
    BY <1>01, <1>03, <2>1 DEF Transcribe, KIND_PURGE
<1>4. ASSUME NEW t \in Threads, Claim(t)
      PROVE  P
  <2>1. PICK j \in JobId : /\ Claimable(j)
                           /\ job'[j].kind = job[j].kind
                           /\ job'[j].audio = job[j].audio
                           /\ \A i \in JobId : i # j => job'[i] = job[i]
    BY <1>0, <1>4, ClaimFacts
  <2>2. job[j].state \in Unsettled
    BY <2>1 DEF Claimable, IsReady, Unsettled
  <2> QED
    BY <1>03, <2>1, <2>2
<1>5. ASSUME NEW t \in Threads, NEW s \in States, Settle(work[t].id, s), work[t].id \in JobId,
             s \notin Unsettled \/ job[work[t].id].state \in Unsettled \cup {CANCELLED}
      PROVE  P
  <2>1. /\ \A i \in JobId : /\ job'[i].kind = job[i].kind
                            /\ job'[i].audio = job[i].audio
        /\ \A i \in JobId : i # work[t].id => job'[i] = job[i]
        /\ job[work[t].id].state \in {CANCELLED, ABSENT} => job' = job
        /\ job[work[t].id].state \notin {CANCELLED, ABSENT} => job'[work[t].id].state = s
    BY <1>0, <1>5, SettleFacts
  <2>2. \A i \in JobId : job'[i].state \in Unsettled => job[i].state \in Unsettled
    BY <1>5, <2>1
  <2> QED
    BY <1>03, <2>1, <2>2
<1>6. ASSUME NEW t \in Threads, Finish(t) \/ NoHandler(t)
      PROVE  P
  <2>1. work[t].id \in JobId
    BY <1>0, <1>6, OutcomeFacts
  <2>2. AfterFailure(MaxAttempts) = FAILED
    BY QueueAssumption DEF AfterFailure
  <2>3. Settle(work[t].id, DONE) \/ Settle(work[t].id, FAILED)
    BY <1>6, <2>2 DEF Finish, NoHandler
  <2>4. DONE \in States \ Unsettled /\ FAILED \in States \ Unsettled
    BY StatesDistinct DEF States, Unsettled
  <2> QED
    BY <1>5, <2>1, <2>3, <2>4
<1>7. ASSUME NEW t \in Threads, Fail(t)
      PROVE  P
  <2>1. CASE t \in overtaken
    BY <1>7, <2>1
  <2>2. CASE t \notin overtaken
    <3>1. work[t] # Idle /\ work[t].id \in JobId
      BY <1>0, <1>7, OutcomeFacts
    <3>2. job[work[t].id].state \in {RUNNING, CANCELLED}
      BY <1>0, <2>2, <3>1 DEF HeldRow
    <3>3. work[t].attempts \in Nat
      BY <1>0, <3>1, IdleFacts
    <3>4. /\ Settle(work[t].id, AfterFailure(work[t].attempts))
          /\ AfterFailure(work[t].attempts) \in States
      BY <1>7, <3>3, OutcomesAreStates DEF Fail
    <3> QED
      BY <1>5, <3>1, <3>2, <3>4 DEF Unsettled
  <2> QED
    BY <2>1, <2>2
<1>8. ASSUME NEW t \in Threads, LoseOutcome(t)
      PROVE  P
  BY <1>0, <1>03, <1>8, LoseFacts
<1>9. ASSUME NEW i \in JobId, BackoffElapsed(i)
      PROVE  P
  BY <1>0, <1>03, <1>9, BackoffFacts
<1>10. ASSUME NEW i \in JobId, Cancel(i)
       PROVE  P
  <2>1. job'[i].state \notin Unsettled
    BY <1>0, <1>10, CancelFacts, StatesDistinct DEF Unsettled
  <2> QED
    BY <1>0, <1>03, <1>10, <2>1, CancelFacts
<1>11. ASSUME NEW b \in Audios, Purge(b)
       PROVE  P
  <2>1. PICK own \in SUBSET JobId :
           /\ \A i \in own : job'[i].state = ABSENT
           /\ \A i \in JobId \ own : job'[i] = job[i]
    BY <1>0, <1>11, PurgeFacts
  <2>2. \A i \in own : i \notin F'
    BY <1>01, <2>1, StatesDistinct DEF Unsettled
  <2> QED
    BY <1>03, <2>1, <2>2
<1>12. ASSUME Crash
       PROVE  P
  BY <1>03, <1>12 DEF Crash
<1>13. ASSUME Start
       PROVE  P
  BY <1>0, <1>03, <1>13, StartFacts, StatesDistinct DEF Unsettled
<1>14. ASSUME NEW b \in Audios, CancelTranscription(b)
       PROVE  P
  BY <1>10, <1>14 DEF CancelTranscription, TranscriptionInFlight
<1>15. ASSUME NEW j \in JobId, Retry(j)
       PROVE  P
  BY <1>15
<1> HIDE DEF P
<1>16. P
  BY <1>1, <1>2, <1>3, <1>4, <1>6, <1>7, <1>8, <1>9, <1>10, <1>11, <1>12, <1>13, <1>14, <1>15,
     Zenon DEF Next, People, Worker
<1> QED
  BY <1>16 DEF P, F

\* A recording gets a second transcription in flight only from somebody's
\* retry, or from a thread that no longer had its job: a restart, a failure and
\* the endpoint never make one.
THEOREM SecondOnlyByRetry == Spec => SecondInFlightOnlyByRetry
<1> DEFINE Second == \A a \in Audios :
              /\ Cardinality(TranscriptionInFlight(a)) <= 1
              /\ Cardinality(TranscriptionInFlight(a)') > 1
              => \/ \E j \in JobId : Retry(j)
                 \/ \E t \in overtaken : Fail(t)
<1>1. IInv /\ [Next]_vars => [Second]_vars
  <2> SUFFICES ASSUME IInv, Next, NEW a \in Audios,
                      Cardinality(TranscriptionInFlight(a)) <= 1,
                      Cardinality(TranscriptionInFlight(a)') > 1
               PROVE  \/ \E j \in JobId : Retry(j)
                      \/ \E t \in overtaken : Fail(t)
    OBVIOUS
  <2>1. IsFiniteSet(JobId)
    BY QueueAssumption, FS_Interval DEF JobId
  <2>2. IsFiniteSet(TranscriptionInFlight(a))
    BY <2>1, FS_Subset DEF TranscriptionInFlight
  <2>3. CASE TranscriptionInFlight(a)' \subseteq TranscriptionInFlight(a)
    <3>1. /\ IsFiniteSet(TranscriptionInFlight(a)')
          /\ Cardinality(TranscriptionInFlight(a)') <= Cardinality(TranscriptionInFlight(a))
      BY <2>2, <2>3, FS_Subset
    <3> QED
      BY <2>2, <3>1, FS_CardinalityType
  <2>4. ASSUME NEW n \in JobId, TranscriptionInFlight(a)' \subseteq {n}
        PROVE  FALSE
    <3>1. IsFiniteSet({n}) /\ Cardinality({n}) = 1
      BY FS_Singleton
    <3>2. /\ IsFiniteSet(TranscriptionInFlight(a)')
          /\ Cardinality(TranscriptionInFlight(a)') <= 1
      BY <2>4, <3>1, FS_Subset
    <3> QED
      BY <3>2, FS_CardinalityType
  <2> QED
    BY <2>3, <2>4, InFlightSteps
<1>2. Spec => [][Next]_vars
  BY PTL DEF Spec
<1> QED
  BY <1>1, <1>2, Invariant, PTL DEF SecondInFlightOnlyByRetry

-----------------------------------------------------------------------------
(* The queue with its handler *)

\* Every step of the composition is a step of the job table, or leaves the
\* job table alone and is the handler's or the recording's.
Elsewhere == /\ UNCHANGED at
             /\ UNCHANGED vars \/ (Next /\ UNCHANGED work)

LEMMA StepCases ==
  ASSUME TNext
  PROVE  \/ \E t \in Threads : TClaim(t)
         \/ \E t \in Threads : Handler(t)
         \/ \E t \in Threads : TFinish(t) \/ TFail(t) \/ TLoseOutcome(t)
         \/ Elsewhere
         \/ TCrash
<1>1. ASSUME NEW a \in Audios, Upload(a)
      PROVE  Elsewhere
  BY <1>1 DEF Upload, Next, People, EnqueueTranscription, Insert, Elsewhere
<1>2. ASSUME NEW a \in Audios, AskFor(a)
      PROVE  Elsewhere
  BY <1>2 DEF AskFor, Next, People, handler, EnqueueTranscription, Insert, Elsewhere
<1>3. ASSUME NEW a \in Audios, GiveUpOn(a)
      PROVE  Elsewhere
  BY <1>3 DEF GiveUpOn, Next, People, handler, CancelTranscription, Cancel, Elsewhere
<1>4. ASSUME NEW a \in Audios, TPurge(a)
      PROVE  Elsewhere
  <2>1. Purge(a) /\ UNCHANGED at
    BY <1>4 DEF TPurge
  <2>2. UNCHANGED work
    BY <2>1 DEF Purge
  <2> QED
    BY <2>1, <2>2 DEF Next, People, Elsewhere
<1>5. ASSUME NEW a \in Audios, RemoveFiles(a)
      PROVE  Elsewhere
  BY <1>5 DEF RemoveFiles, Elsewhere
<1>6. ASSUME NEW j \in JobId, TRetry(j) \/ TCancel(j) \/ TBackoffElapsed(j)
      PROVE  Elsewhere
  BY <1>6 DEF TRetry, TCancel, TBackoffElapsed, Retry, Cancel, BackoffElapsed, Next, People,
     handler, Elsewhere
<1>7. ASSUME NEW x \in transcripts, Activate(x)
      PROVE  Elsewhere
  BY <1>7 DEF Activate, Elsewhere
<1>8. ASSUME TStart
      PROVE  Elsewhere
  BY <1>8 DEF TStart, Start, Next, handler, Elsewhere
<1> QED
  BY <1>1, <1>2, <1>3, <1>4, <1>5, <1>6, <1>7, <1>8, Zenon DEF TNext

LEMMA HandlerLeavesTable ==
  ASSUME NEW t \in Threads, Handler(t)
  PROVE  UNCHANGED vars
BY DEF Handler, Locate, Ask, Cut, CutFails, Send, SendFails, Answer, Refused,
       GivesUp, Write

LEMMA StepIsStep == [TNext]_tvars => [Next]_vars
<1> SUFFICES ASSUME [TNext]_tvars PROVE [Next]_vars
  OBVIOUS
<1>1. ASSUME NEW t \in Threads, TClaim(t)
      PROVE  Next
  BY <1>1 DEF TClaim, Next, Worker
<1>2. ASSUME NEW t \in Threads, Handler(t)
      PROVE  UNCHANGED vars
  BY <1>2, HandlerLeavesTable
<1>3. ASSUME NEW t \in Threads, TFinish(t) \/ TFail(t) \/ TLoseOutcome(t)
      PROVE  Next
  BY <1>3 DEF TFinish, TFail, TLoseOutcome, Next, Worker
<1>4. ASSUME TCrash
      PROVE  Next
  BY <1>4 DEF TCrash, Next
<1>5. CASE UNCHANGED tvars
  BY <1>5 DEF tvars
<1> QED
  BY <1>1, <1>2, <1>3, <1>4, <1>5, StepCases DEF Elsewhere

\* With the handler spelled out, the job table behaves as JobQueue says.
LEMMA TranscriptionIsQueue == TSpec => Spec
<1>1. TInit => Init
  BY DEF TInit
<1> QED
  BY <1>1, StepIsStep, PTL DEF TSpec, Spec

\* So the transcriptions marked running never exceed the limit here either,
\* and a thread that still has its job agrees with its row.
THEOREM QueueInvariantHolds == TSpec => []IInv
BY TranscriptionIsQueue, Invariant, PTL

-----------------------------------------------------------------------------
(* A cancelled job stays cancelled for the thread that has it *)

\* A thread that goes on with its work and still has it afterwards had it
\* before.
LEMMA StillHeld ==
  ASSUME TypeOK, Next, NEW t \in Threads, work[t] # Idle, work'[t] = work[t],
         t \notin overtaken'
  PROVE  t \notin overtaken
<1>1. ASSUME NEW u \in Threads, Finish(u) \/ Fail(u) \/ NoHandler(u)
      PROVE  t \notin overtaken
  <2>1. work'[u] = Idle
    BY <1>1, OutcomeFacts, ReleaseFacts
  <2>2. u # t
    BY <2>1
  <2> QED
    BY <1>1, <2>2, OutcomeFacts, ReleaseFacts
<1>2. ASSUME NEW u \in Threads, LoseOutcome(u)
      PROVE  t \notin overtaken
  BY <1>2, LoseFacts
<1>3. ASSUME NEW u \in Threads, Claim(u)
      PROVE  t \notin overtaken
  BY <1>3, ClaimFacts
<1>4. ASSUME NEW k \in Kinds, NEW a \in Audios \cup {NoAudio}, Insert(k, a)
      PROVE  t \notin overtaken
  BY <1>4 DEF Insert
<1>5. ASSUME NEW a \in Audios, EnqueueTranscription(a) \/ Purge(a)
      PROVE  t \notin overtaken
  BY <1>5 DEF EnqueueTranscription, Insert, Purge
<1>6. ASSUME NEW j \in JobId, BackoffElapsed(j) \/ Cancel(j) \/ Retry(j)
      PROVE  t \notin overtaken
  BY <1>6, BackoffFacts, CancelFacts, RetryFacts
<1>7. ASSUME Crash
      PROVE  t \notin overtaken
  BY <1>7 DEF Crash
<1>8. ASSUME Start
      PROVE  t \notin overtaken
  BY <1>8 DEF Start
<1> QED
  BY <1>1, <1>2, <1>3, <1>4, <1>5, <1>6, <1>7, <1>8, NextCases, Zenon

LEMMA CancelledSticks ==
  ASSUME IInv, Next, NEW t \in Threads, work[t] # Idle, work'[t] = work[t],
         t \notin overtaken', Cancelled(t)
  PROVE  Cancelled(t)'
<1> DEFINE j == work[t].id
<1>1. j \in JobId
  BY IdleFacts DEF IInv
<1>2. job[j].state = CANCELLED
  BY DEF Cancelled
<1>3. job'[j].state \in {RUNNING, CANCELLED}
  <2>1. IInv'
    BY InvNext
  <2> QED
    BY <2>1 DEF IInv, HeldRow
<1>4. job'[j].state = CANCELLED
  BY <1>1, <1>2, <1>3, RowSteps, StatesDistinct DEF IInv
<1> QED
  BY <1>4 DEF Cancelled

-----------------------------------------------------------------------------
(* Where the threads are *)

AtType == at \in [Threads -> Places]

\* The two moves that change more than the step.
Sent(p, n) == [p EXCEPT !.step = "await", !.late = n]
Onward(p, n) == [p EXCEPT !.step = "ask", !.part = n]

LEMMA SentFacts ==
  ASSUME NEW p \in Places, NEW n \in Nat
  PROVE  /\ Sent(p, n) \in Places /\ Sent(p, n).step = "await" /\ Sent(p, n).late = n
         /\ Sent(p, n).row = p.row /\ Sent(p, n).about = p.about /\ Sent(p, n).part = p.part
<1> DEFINE moved == [p EXCEPT !.step = "await"]
<1>1. /\ moved \in Places /\ moved.step = "await" /\ moved.late = p.late
      /\ moved.row = p.row /\ moved.about = p.about /\ moved.part = p.part
  BY DEF Places, Steps
<1> HIDE DEF moved
<1>2. /\ [moved EXCEPT !.late = n] \in Places
      /\ [moved EXCEPT !.late = n].step = moved.step
      /\ [moved EXCEPT !.late = n].late = n
      /\ [moved EXCEPT !.late = n].row = moved.row
      /\ [moved EXCEPT !.late = n].about = moved.about
      /\ [moved EXCEPT !.late = n].part = moved.part
  BY <1>1 DEF Places
<1>3. Sent(p, n) = [moved EXCEPT !.late = n]
  BY DEF Sent, moved
<1> QED
  BY <1>1, <1>2, <1>3

LEMMA OnwardFacts ==
  ASSUME NEW p \in Places, NEW n \in Nat
  PROVE  /\ Onward(p, n) \in Places /\ Onward(p, n).step = "ask" /\ Onward(p, n).late = p.late
         /\ Onward(p, n).row = p.row /\ Onward(p, n).about = p.about /\ Onward(p, n).part = n
<1> DEFINE moved == [p EXCEPT !.step = "ask"]
<1>1. /\ moved \in Places /\ moved.step = "ask" /\ moved.late = p.late
      /\ moved.row = p.row /\ moved.about = p.about
  BY DEF Places, Steps
<1> HIDE DEF moved
<1>2. /\ [moved EXCEPT !.part = n] \in Places
      /\ [moved EXCEPT !.part = n].step = moved.step
      /\ [moved EXCEPT !.part = n].late = moved.late
      /\ [moved EXCEPT !.part = n].row = moved.row
      /\ [moved EXCEPT !.part = n].about = moved.about
      /\ [moved EXCEPT !.part = n].part = n
  BY <1>1 DEF Places
<1>3. Onward(p, n) = [moved EXCEPT !.part = n]
  BY DEF Onward, moved
<1> QED
  BY <1>1, <1>2, <1>3

LEMMA PlaceNumbers ==
  ASSUME NEW p \in Places
  PROVE  p.part + 1 \in Nat /\ p.late \in Nat /\ p.late + 1 \in Nat
BY DEF Places

LEMMA GoToFacts ==
  ASSUME AtType, NEW t \in Threads, NEW s \in Steps, GoTo(t, s)
  PROVE  /\ AtType'
         /\ at'[t].step = s
         /\ at'[t].late = at[t].late /\ at'[t].row = at[t].row
         /\ at'[t].about = at[t].about /\ at'[t].part = at[t].part
         /\ \A u \in Threads : u # t => at'[u] = at[u]
<1> DEFINE place == [at[t] EXCEPT !.step = s]
<1>1. at[t] \in Places
  BY DEF AtType
<1>2. /\ place \in Places /\ place.step = s /\ place.late = at[t].late
      /\ place.row = at[t].row /\ place.about = at[t].about /\ place.part = at[t].part
  BY <1>1 DEF Places
<1>3. at' = [at EXCEPT ![t] = place]
  BY DEF GoTo
<1> HIDE DEF place
<1> QED
  BY <1>2, <1>3 DEF AtType

\* What one step of the handler does to its place: only a question answered
\* with no leads to a part, and only sending counts one as late.
HandlerEffect(t) ==
    /\ AtType'
    /\ \A u \in Threads : u # t => at'[u] = at[u]
    /\ at[t].step # "none" /\ at'[t].step # "none"
    /\ \/ at'[t].late = at[t].late
       \/ /\ at[t].step = "send" /\ at'[t].step = "await"
          /\ Cancelled(t)
          /\ at'[t].late = at[t].late + 1
    /\ at'[t].step \in {"cut", "send"}
         => at[t].step = "cut" \/ (at[t].step = "ask" /\ ~Cancelled(t))

LEMMA HandlerFacts ==
  ASSUME AtType, NEW t \in Threads, Handler(t)
  PROVE  HandlerEffect(t)
<1> USE DEF Steps
<1>0. at[t] \in Places
  BY DEF AtType
<1>1. CASE Locate(t)
  <2>1. ASSUME NEW a \in Audios,
               at' = [at EXCEPT ![t].step = "ask", ![t].about = a, ![t].part = 1]
        PROVE  HandlerEffect(t)
    <3> DEFINE place == [at[t] EXCEPT !.step = "ask", !.about = a, !.part = 1]
    <3>1. place \in Places /\ place.step = "ask" /\ place.late = at[t].late
      BY <1>0 DEF Places
    <3>2. at' = [at EXCEPT ![t] = place]
      BY <2>1
    <3>3. at[t].step = "locate"
      BY <1>1 DEF Locate
    <3> HIDE DEF place
    <3> QED
      BY <3>1, <3>2, <3>3 DEF HandlerEffect, AtType
  <2>2. CASE GoTo(t, "raised") /\ at[t].step = "locate"
    BY <2>2, GoToFacts DEF HandlerEffect
  <2> QED
    BY <1>1, <2>1, <2>2 DEF Locate
<1>2. CASE Ask(t)
  <2>1. at[t].step = "ask"
    BY <1>2 DEF Ask
  <2>2. CASE Cancelled(t)
    <3>1. GoTo(t, "returned")
      BY <1>2, <2>2 DEF Ask
    <3> QED
      BY <2>1, <3>1, GoToFacts DEF HandlerEffect
  <2>3. CASE ~Cancelled(t)
    <3>1. GoTo(t, "cut") \/ GoTo(t, "send")
      BY <1>2, <2>3 DEF Ask
    <3> QED
      BY <2>1, <2>3, <3>1, GoToFacts DEF HandlerEffect
  <2> QED
    BY <2>2, <2>3
<1>3. CASE Cut(t)
  <2>1. at[t].step = "cut" /\ GoTo(t, "send")
    BY <1>3 DEF Cut
  <2> QED
    BY <2>1, GoToFacts DEF HandlerEffect
<1>4. CASE CutFails(t) \/ SendFails(t) \/ Refused(t) \/ GivesUp(t)
  <2>1. at[t].step # "none" /\ GoTo(t, "raised")
    BY <1>4 DEF CutFails, SendFails, Refused, GivesUp
  <2> QED
    BY <2>1, GoToFacts DEF HandlerEffect
<1>5. CASE Send(t)
  <2> DEFINE sent == at[t].late + IF Cancelled(t) THEN 1 ELSE 0
             place == Sent(at[t], sent)
  <2>1. at' = [at EXCEPT ![t] = place] /\ at[t].step = "send"
    BY <1>5 DEF Send, Sent
  <2>2. /\ sent \in Nat
        /\ sent = at[t].late \/ (Cancelled(t) /\ sent = at[t].late + 1)
    BY <1>0, PlaceNumbers
  <2> HIDE DEF sent
  <2>4. place \in Places /\ place.step = "await" /\ place.late = sent
    BY <1>0, <2>2, SentFacts
  <2> HIDE DEF place
  <2>5. at'[t] = place /\ \A u \in Threads : u # t => at'[u] = at[u]
    BY <2>1 DEF AtType
  <2>6. AtType'
    BY <2>1, <2>4 DEF AtType
  <2> QED
    BY <2>1, <2>2, <2>4, <2>5, <2>6 DEF HandlerEffect
<1>6. CASE Answer(t)
  <2>1. at[t].step = "await"
    BY <1>6 DEF Answer
  <2>2. CASE MoreParts(t)
    <3> DEFINE next == at[t].part + 1
               place == Onward(at[t], next)
    <3>1. at' = [at EXCEPT ![t] = place]
      BY <1>6, <2>2 DEF Answer, Onward
    <3>2. next \in Nat
      BY <1>0, PlaceNumbers
    <3> HIDE DEF next
    <3>4. place \in Places /\ place.step = "ask" /\ place.late = at[t].late
      BY <1>0, <3>2, OnwardFacts
    <3> HIDE DEF place
    <3> QED
      BY <2>1, <3>1, <3>4 DEF HandlerEffect, AtType
  <2>3. CASE ~MoreParts(t)
    <3>1. GoTo(t, "write")
      BY <1>6, <2>3 DEF Answer
    <3> QED
      BY <2>1, <3>1, GoToFacts DEF HandlerEffect
  <2> QED
    BY <2>2, <2>3
<1>7. CASE Write(t)
  <2>1. at[t].step = "write" /\ (GoTo(t, "returned") \/ GoTo(t, "raised"))
    BY <1>7 DEF Write
  <2> QED
    BY <2>1, GoToFacts DEF HandlerEffect
<1> QED
  BY <1>1, <1>2, <1>3, <1>4, <1>5, <1>6, <1>7 DEF Handler

\* Claiming and letting go put a thread at the start and at the end.
LEMMA HomeFacts == Home \in Places /\ Home.step = "none" /\ Home.late = 0
BY DEF Home, Places, Steps

\* Claiming puts a thread at the start of the handler.
LEMMA TClaimFacts ==
  ASSUME AtType, row \in [Audios -> Nat], NEW t \in Threads, TClaim(t)
  PROVE  /\ AtType'
         /\ at'[t].step = "locate" /\ at'[t].late = 0
         /\ at'[t].row = RowOf(job[work'[t].id].audio)
         /\ \A u \in Threads : u # t => at'[u] = at[u]
<1> DEFINE number == RowOf(job[work'[t].id].audio)
           place == [Home EXCEPT !.step = "locate", !.row = number]
<1>1. at' = [at EXCEPT ![t] = place]
  BY DEF TClaim
<1>2. number \in Nat
  BY DEF RowOf
<1>3. /\ place \in Places /\ place.step = "locate" /\ place.late = 0
      /\ place.row = number
  <2> HIDE DEF number
  <2> QED
    BY <1>2 DEF Home, Places, Steps
<1> HIDE DEF place
<1> QED
  BY <1>1, <1>3 DEF AtType

-----------------------------------------------------------------------------
(* At most one part after a cancellation *)

RowType == row \in [Audios -> Nat]

PlaceInv == AtType /\ RowType /\ AtWork /\ LateOnce

LEMMA RowTypeNext == RowType /\ [TNext]_tvars => RowType'
<1> SUFFICES ASSUME RowType, [TNext]_tvars PROVE RowType'
  OBVIOUS
<1>1. ASSUME NEW a \in Audios, Upload(a)
      PROVE  RowType'
  <2>1. RowNumbers \subseteq Nat
    BY DEF RowNumbers
  <2> QED
    BY <1>1, <2>1 DEF Upload, RowType
<1>2. ASSUME NEW a \in Audios, TPurge(a)
      PROVE  RowType'
  BY <1>2 DEF TPurge, RowType
<1>3. ASSUME NEW a \in Audios, AskFor(a) \/ GiveUpOn(a) \/ RemoveFiles(a)
      PROVE  RowType'
  BY <1>3 DEF AskFor, GiveUpOn, RemoveFiles, RowType, handler
<1>4. ASSUME NEW t \in Threads, Handler(t)
      PROVE  RowType'
  BY <1>4 DEF Handler, Locate, Ask, Cut, CutFails, Send, SendFails, Answer,
     Refused, GivesUp, Write, RowType
<1>5. ASSUME NEW t \in Threads, TClaim(t) \/ TFinish(t) \/ TFail(t) \/ TLoseOutcome(t)
      PROVE  RowType'
  BY <1>5 DEF TClaim, TFinish, TFail, TLoseOutcome, RowType
<1>6. ASSUME NEW j \in JobId, TRetry(j) \/ TCancel(j) \/ TBackoffElapsed(j)
      PROVE  RowType'
  BY <1>6 DEF TRetry, TCancel, TBackoffElapsed, RowType, handler
<1>7. ASSUME NEW x \in transcripts, Activate(x)
      PROVE  RowType'
  BY <1>7 DEF Activate, RowType
<1>8. CASE TCrash \/ TStart \/ UNCHANGED tvars
  BY <1>8 DEF TCrash, TStart, RowType, handler, tvars
<1> QED
  BY <1>1, <1>2, <1>3, <1>4, <1>5, <1>6, <1>7, <1>8 DEF TNext

\* A thread that keeps its work and its place keeps what LateOnce says of it.
LEMMA LateKept ==
  ASSUME IInv, AtWork, LateOnce, Next, NEW t \in Threads \ overtaken',
         at'[t] = at[t], at'[t].late # 0, work'[t] = work[t]
  PROVE  /\ at'[t].late = 1 /\ at'[t].step # "none"
         /\ Cancelled(t)' /\ at'[t].step \notin {"cut", "send"}
<1>1. work[t] # Idle \/ at[t].step = "none"
  BY DEF AtWork
<1>2. CASE work[t] # Idle
  <2>1. t \notin overtaken
    BY <1>2, StillHeld DEF IInv
  <2>2. /\ at[t].late = 1 /\ at[t].step # "none" /\ Cancelled(t)
        /\ at[t].step \notin {"cut", "send"}
    BY <2>1 DEF LateOnce
  <2>3. Cancelled(t)'
    BY <1>2, <2>2, CancelledSticks
  <2> QED
    BY <2>2, <2>3
<1>3. CASE work[t] = Idle
  <2>1. t \notin overtaken
    BY <1>3 DEF IInv, IdleNotOvertaken
  <2> QED
    BY <1>3, <2>1 DEF LateOnce, AtWork
<1> QED
  BY <1>2, <1>3

LEMMA PlaceInvNext ==
  ASSUME IInv, PlaceInv, [TNext]_tvars
  PROVE  AtType' /\ AtWork' /\ LateOnce'
<1> DEFINE P == AtType' /\ AtWork' /\ LateOnce'
<1>0. TypeOK /\ AtType /\ RowType /\ AtWork /\ LateOnce
  BY DEF IInv, PlaceInv
<1>1. ASSUME NEW t \in Threads, TClaim(t)
      PROVE  P
  <2>1. /\ AtType' /\ at'[t].step = "locate" /\ at'[t].late = 0
        /\ \A u \in Threads : u # t => at'[u] = at[u]
    BY <1>0, <1>1, TClaimFacts DEF RowType
  <2>2. Claim(t) /\ Next
    BY <1>1 DEF TClaim, Next, Worker
  <2>3. \A u \in Threads : u # t => work'[u] = work[u]
    BY <1>0, <2>2, ClaimFacts
  <2>4. work'[t] # Idle
    <3>1. PICK j \in JobId : work'[t] = [id |-> j, kind |-> job[j].kind,
                                         attempts |-> job[j].attempts + 1]
      BY <1>0, <2>2, ClaimFacts
    <3>2. work'[t].id = j
      BY <3>1
    <3> QED
      BY <1>0, <3>2, IdleFacts
  <2>5. AtWork'
    BY <1>0, <2>1, <2>3, <2>4 DEF AtWork
  <2>6. \A u \in Threads \ overtaken' : at'[u].late # 0 => u # t
    BY <2>1
  <2>7. LateOnce'
    BY <1>0, <2>1, <2>2, <2>3, <2>6, LateKept DEF LateOnce
  <2> QED
    BY <2>1, <2>5, <2>7
<1>2. ASSUME NEW t \in Threads, Handler(t)
      PROVE  P
  <2>1. UNCHANGED vars
    BY <1>2, HandlerLeavesTable
  <2>2. HandlerEffect(t)
    BY <1>0, <1>2, HandlerFacts
  <2>3. AtType' /\ AtWork'
    BY <1>0, <2>1, <2>2 DEF HandlerEffect, AtWork, vars
  <2>4. ASSUME NEW u \in Threads \ overtaken', at'[u].late # 0
        PROVE  /\ at'[u].late = 1 /\ at'[u].step # "none"
               /\ Cancelled(u)' /\ at'[u].step \notin {"cut", "send"}
    <3>0. u \in Threads \ overtaken /\ (Cancelled(u)' <=> Cancelled(u))
      BY <2>1, <2>4 DEF vars, Cancelled
    <3>1. CASE u # t
      BY <1>0, <2>2, <2>4, <3>0, <3>1 DEF HandlerEffect, LateOnce
    <3>2. CASE u = t /\ at'[t].late = at[t].late
      BY <1>0, <2>2, <2>4, <3>0, <3>2 DEF HandlerEffect, LateOnce
    <3>3. CASE /\ u = t /\ at[t].step = "send" /\ at'[t].step = "await"
               /\ Cancelled(t) /\ at'[t].late = at[t].late + 1
      <4>1. at[t].late = 0
        BY <1>0, <3>0, <3>3 DEF LateOnce
      <4> QED
        BY <3>0, <3>3, <4>1
    <3> QED
      BY <2>2, <3>1, <3>2, <3>3 DEF HandlerEffect
  <2> QED
    BY <2>3, <2>4 DEF LateOnce
<1>3. ASSUME NEW t \in Threads, TFinish(t) \/ TFail(t) \/ TLoseOutcome(t)
      PROVE  P
  <2>1. at' = [at EXCEPT ![t] = Home]
    BY <1>3 DEF TFinish, TFail, TLoseOutcome
  <2>2. AtType' /\ at'[t] = Home /\ \A u \in Threads : u # t => at'[u] = at[u]
    BY <1>0, <2>1, HomeFacts DEF AtType
  <2>3. Finish(t) \/ Fail(t) \/ LoseOutcome(t)
    BY <1>3 DEF TFinish, TFail, TLoseOutcome
  <2>4. Next
    BY <2>3 DEF Next, Worker
  <2>5. work'[t] = Idle /\ \A u \in Threads : u # t => work'[u] = work[u]
    BY <1>0, <2>3, OutcomeFacts, ReleaseFacts, LoseFacts
  <2>6. AtWork'
    BY <1>0, <2>2, <2>5, HomeFacts DEF AtWork
  <2>7. \A u \in Threads \ overtaken' : at'[u].late # 0 => u # t
    BY <2>2, HomeFacts
  <2>8. LateOnce'
    BY <1>0, <2>2, <2>4, <2>5, <2>7, LateKept DEF LateOnce
  <2> QED
    BY <2>2, <2>6, <2>8
<1>4. ASSUME at' = at, Next, work' = work
      PROVE  P
  BY <1>0, <1>4, LateKept DEF AtType, AtWork, LateOnce
<1>5. ASSUME UNCHANGED at, UNCHANGED vars
      PROVE  P
  BY <1>0, <1>5 DEF AtType, AtWork, LateOnce, Cancelled, vars
<1>6. ASSUME TCrash
      PROVE  P
  <2>1. at' = [t \in Threads |-> Home] /\ work' = [t \in Threads |-> Idle]
    BY <1>6 DEF TCrash, Crash
  <2> QED
    BY <2>1, HomeFacts DEF AtType, AtWork, LateOnce
<1>7. ASSUME Elsewhere
      PROVE  P
  BY <1>4, <1>5, <1>7 DEF Elsewhere
<1>8. ASSUME UNCHANGED tvars
      PROVE  P
  <2>1. UNCHANGED at /\ UNCHANGED vars
    BY <1>8 DEF tvars, handler
  <2> QED
    BY <1>5, <2>1
<1> QED
  BY <1>1, <1>2, <1>3, <1>6, <1>7, <1>8, StepCases

LEMMA PlaceInvInit == TInit => PlaceInv
<1> SUFFICES ASSUME TInit PROVE PlaceInv
  OBVIOUS
<1>1. \A t \in Threads : at[t] = Home /\ work[t] = Idle
  BY DEF TInit, Init
<1> QED
  BY <1>1, HomeFacts DEF TInit, PlaceInv, AtType, RowType, AtWork, LateOnce

\* A thread is in the handler exactly while it has work, and one that sent a
\* part too late asks before it sends another.
THEOREM PlaceInvariant == TSpec => [](PlaceInv /\ IInv)
<1>1. PlaceInv /\ IInv /\ [TNext]_tvars => PlaceInv'
  BY PlaceInvNext, RowTypeNext DEF PlaceInv
<1> QED
  BY <1>1, PlaceInvInit, QueueInvariantHolds, PTL DEF TSpec

\* At most one part is sent for a job that reads cancelled (API-21), by any
\* thread that still has its job, however many parts there are.
THEOREM OneLatePart == TSpec => []AtMostOneAfterCancel
<1>1. PlaceInv => AtMostOneAfterCancel
  <2> SUFFICES ASSUME PlaceInv, NEW t \in Threads \ overtaken
               PROVE  at[t].late <= 1
    BY DEF AtMostOneAfterCancel
  <2>1. CASE at[t].late = 0
    BY <2>1
  <2>2. CASE at[t].late # 0
    BY <2>2 DEF PlaceInv, LateOnce
  <2> QED
    BY <2>1, <2>2
<1> QED
  BY <1>1, PlaceInvariant, PTL

-----------------------------------------------------------------------------
(* What a thread at work is about *)

InHand == {"ask", "cut", "send", "await", "write"}

\* A thread that has looked its recording up carries one of its parts.
AtSound(t) == at[t].step \in InHand =>
                 /\ at[t].about \in Audios
                 /\ at[t].part \in 1..PartsOf(at[t].about)

LEMMA PartsOfFacts ==
  ASSUME NEW a \in Audios
  PROVE  PartsOf(a) \in Nat /\ 1 <= PartsOf(a) /\ PartsOf(a) <= MaxParts
BY TranscriptionAssumption DEF PartsOf

\* A handler's step keeps the row number it was given, and what it is about;
\* from one part it goes to the next, and there it asks.
LEMMA HandlerKeeps ==
  ASSUME AtType, NEW t \in Threads, Handler(t), AtSound(t)
  PROVE  /\ at'[t].row = at[t].row /\ AtSound(t)'
         /\ at'[t].step \in {"send", "await"}
              => at'[t].about = at[t].about /\ at'[t].part = at[t].part
<1> DEFINE P == /\ at'[t].row = at[t].row /\ AtSound(t)'
                /\ at'[t].step \in {"send", "await"}
                     => at'[t].about = at[t].about /\ at'[t].part = at[t].part
<1>0. at[t] \in Places
  BY DEF AtType
<1>1. ASSUME NEW s \in Steps, GoTo(t, s), at[t].step \in InHand \/ s \notin InHand
      PROVE  P
  <2>1. /\ at'[t].step = s /\ at'[t].row = at[t].row
        /\ at'[t].about = at[t].about /\ at'[t].part = at[t].part
    BY <1>1, GoToFacts
  <2> QED
    BY <1>1, <2>1 DEF AtSound, PartsOf
<1>2. CASE Locate(t)
  <2>1. ASSUME NEW a \in Audios,
               at' = [at EXCEPT ![t].step = "ask", ![t].about = a, ![t].part = 1]
        PROVE  P
    <3> DEFINE place == [at[t] EXCEPT !.step = "ask", !.about = a, !.part = 1]
    <3>1. /\ place.step = "ask" /\ place.row = at[t].row
          /\ place.about = a /\ place.part = 1
      BY <1>0 DEF Places
    <3>2. at'[t] = place
      BY <2>1 DEF AtType
    <3> HIDE DEF place
    <3> QED
      BY <3>1, <3>2, PartsOfFacts DEF AtSound
  <2> QED
    BY <1>1, <1>2, <2>1 DEF Locate, InHand, Steps
<1>3. CASE Ask(t)
  BY <1>1, <1>3 DEF Ask, InHand, Steps
<1>4. CASE Cut(t)
  BY <1>1, <1>4 DEF Cut, InHand, Steps
<1>5. CASE CutFails(t) \/ SendFails(t) \/ Refused(t) \/ GivesUp(t)
  BY <1>1, <1>5 DEF CutFails, SendFails, Refused, GivesUp, InHand, Steps
<1>6. CASE Send(t)
  <2> DEFINE sent == at[t].late + IF Cancelled(t) THEN 1 ELSE 0
             place == Sent(at[t], sent)
  <2>1. at' = [at EXCEPT ![t] = place] /\ at[t].step = "send"
    BY <1>6 DEF Send, Sent
  <2>2. sent \in Nat
    BY <1>0, PlaceNumbers
  <2> HIDE DEF sent
  <2>3. /\ place.step = "await" /\ place.row = at[t].row
        /\ place.about = at[t].about /\ place.part = at[t].part
    BY <1>0, <2>2, SentFacts
  <2> HIDE DEF place
  <2>4. at'[t] = place
    BY <2>1 DEF AtType
  <2> QED
    BY <2>1, <2>3, <2>4 DEF AtSound, InHand, PartsOf
<1>7. CASE Answer(t)
  <2>1. at[t].step = "await"
    BY <1>7 DEF Answer
  <2>2. CASE MoreParts(t)
    <3> DEFINE next == at[t].part + 1
               place == Onward(at[t], next)
    <3>1. at' = [at EXCEPT ![t] = place]
      BY <1>7, <2>2 DEF Answer, Onward
    <3>2. next \in Nat
      BY <1>0, PlaceNumbers
    <3>3. /\ place.step = "ask" /\ place.row = at[t].row
          /\ place.about = at[t].about /\ place.part = next
      <4> HIDE DEF next
      <4> QED
        BY <1>0, <3>2, OnwardFacts
    <3>4. next \in 1..PartsOf(at[t].about)
      BY <2>1, <2>2, PartsOfFacts DEF AtSound, InHand, MoreParts
    <3> HIDE DEF place, next
    <3>5. at'[t] = place
      BY <3>1 DEF AtType
    <3> QED
      BY <2>1, <3>3, <3>4, <3>5 DEF AtSound, InHand, PartsOf
  <2>3. CASE ~MoreParts(t)
    BY <1>1, <1>7, <2>1, <2>3 DEF Answer, InHand, Steps
  <2> QED
    BY <2>2, <2>3
<1>8. CASE Write(t)
  BY <1>1, <1>8 DEF Write, InHand, Steps
<1> QED
  BY <1>2, <1>3, <1>4, <1>5, <1>6, <1>7, <1>8 DEF Handler

Sounds == \A t \in Threads : AtSound(t)

LEMMA SoundsNext ==
  ASSUME IInv, PlaceInv, Sounds, [TNext]_tvars
  PROVE  Sounds'
<1>0. TypeOK /\ AtType /\ RowType
  BY DEF IInv, PlaceInv
<1> SUFFICES ASSUME NEW u \in Threads PROVE AtSound(u)'
  BY DEF Sounds
<1>1. ASSUME at'[u] = at[u] \/ at'[u].step \notin InHand
      PROVE  AtSound(u)'
  BY <1>1 DEF Sounds, AtSound, PartsOf
<1>2. ASSUME NEW t \in Threads, TClaim(t)
      PROVE  AtSound(u)'
  BY <1>0, <1>1, <1>2, TClaimFacts DEF RowType, InHand
<1>3. ASSUME NEW t \in Threads, Handler(t)
      PROVE  AtSound(u)'
  <2>1. \A w \in Threads : w # t => at'[w] = at[w]
    BY <1>0, <1>3, HandlerFacts DEF HandlerEffect
  <2>2. CASE u = t
    BY <1>0, <1>3, <2>2, HandlerKeeps DEF Sounds
  <2> QED
    BY <1>1, <2>1, <2>2
<1>4. ASSUME NEW t \in Threads, TFinish(t) \/ TFail(t) \/ TLoseOutcome(t)
      PROVE  AtSound(u)'
  BY <1>0, <1>1, <1>4, HomeFacts DEF TFinish, TFail, TLoseOutcome, AtType, InHand
<1>5. CASE Elsewhere
  BY <1>1, <1>5 DEF Elsewhere
<1>6. CASE TCrash
  BY <1>1, <1>6, HomeFacts DEF TCrash, InHand
<1>7. CASE UNCHANGED tvars
  BY <1>1, <1>7 DEF tvars, handler
<1> QED
  BY <1>2, <1>3, <1>4, <1>5, <1>6, <1>7, StepCases

\* A thread's place, what it is about, and the job table.
Standing == IInv /\ PlaceInv /\ Sounds

LEMMA StandingInvariant == TSpec => []Standing
<1>1. TInit => Sounds
  <2> SUFFICES ASSUME TInit, NEW t \in Threads PROVE AtSound(t)
    BY DEF Sounds
  <2>1. at[t].step = "none"
    BY HomeFacts DEF TInit
  <2> QED
    BY <2>1 DEF AtSound, InHand
<1>2. IInv /\ PlaceInv /\ Sounds /\ [TNext]_tvars => Sounds'
  BY SoundsNext
<1> QED
  BY <1>1, <1>2, PlaceInvariant, PTL DEF TSpec, Standing

-----------------------------------------------------------------------------
(* Every variable has the values the code can give it *)

LEMMA RowNumbersFacts == RowNumbers \subseteq Nat /\ 0 \in RowNumbers
<1>1. Cardinality(Audios) \in Nat
  BY TranscriptionAssumption, FS_CardinalityType
<1> QED
  BY <1>1 DEF RowNumbers

RowDiskTypes == /\ row \in [Audios -> RowNumbers]
                /\ disk \in [Audios -> {GONE, KEPT, DOOMED}]

LEMMA RowDiskNext ==
  ASSUME RowDiskTypes, [TNext]_tvars
  PROVE  RowDiskTypes'
<1>1. ASSUME NEW a \in Audios, Upload(a)
      PROVE  RowDiskTypes'
  BY <1>1 DEF Upload, RowDiskTypes
<1>2. ASSUME NEW a \in Audios, TPurge(a)
      PROVE  RowDiskTypes'
  BY <1>2, RowNumbersFacts DEF TPurge, RowDiskTypes
<1>3. ASSUME NEW a \in Audios, AskFor(a) \/ GiveUpOn(a) \/ RemoveFiles(a)
      PROVE  RowDiskTypes'
  BY <1>3 DEF AskFor, GiveUpOn, RemoveFiles, RowDiskTypes, handler
<1>4. ASSUME NEW t \in Threads, Handler(t)
      PROVE  RowDiskTypes'
  BY <1>4 DEF Handler, Locate, Ask, Cut, CutFails, Send, SendFails, Answer,
     Refused, GivesUp, Write, RowDiskTypes
<1>5. ASSUME NEW t \in Threads, TClaim(t) \/ TFinish(t) \/ TFail(t) \/ TLoseOutcome(t)
      PROVE  RowDiskTypes'
  BY <1>5 DEF TClaim, TFinish, TFail, TLoseOutcome, RowDiskTypes
<1>6. ASSUME NEW j \in JobId, TRetry(j) \/ TCancel(j) \/ TBackoffElapsed(j)
      PROVE  RowDiskTypes'
  BY <1>6 DEF TRetry, TCancel, TBackoffElapsed, RowDiskTypes, handler
<1>7. ASSUME NEW x \in transcripts, Activate(x)
      PROVE  RowDiskTypes'
  BY <1>7 DEF Activate, RowDiskTypes
<1>8. CASE TCrash \/ TStart \/ UNCHANGED tvars
  BY <1>8 DEF TCrash, TStart, RowDiskTypes, handler, tvars
<1> QED
  BY <1>1, <1>2, <1>3, <1>4, <1>5, <1>6, <1>7, <1>8 DEF TNext

\* The one transcript shown after activate(x), and what becomes of the others.
Shown(x) == [x EXCEPT !.active = TRUE]
Hidden(y) == [y EXCEPT !.active = FALSE]

LEMMA ShownFacts ==
  ASSUME NEW x \in Transcripts
  PROVE  /\ Shown(x) \in Transcripts /\ Shown(x).active
         /\ Shown(x).of = x.of /\ Shown(x).by = x.by
         /\ Hidden(x) \in Transcripts /\ ~Hidden(x).active
         /\ Hidden(x).of = x.of /\ Hidden(x).by = x.by
BY DEF Shown, Hidden, Transcripts

LEMMA ActivatedFacts ==
  ASSUME transcripts \subseteq Transcripts, NEW x \in Transcripts
  PROVE  /\ Activated(x) \subseteq Transcripts
         /\ Shown(x) \in Activated(x)
         /\ \A y \in Activated(x) :
              /\ y.of = x.of => (y.active <=> y = Shown(x))
              /\ y.of # x.of => y \in transcripts
         /\ \A y \in transcripts : y.of # x.of => y \in Activated(x)
         /\ \A y \in transcripts :
              \E z \in Activated(x) : z.of = y.of /\ z.by = y.by
<1> DEFINE kept(y) == IF y.of = x.of THEN Hidden(y) ELSE y
<1>1. Activated(x) = {kept(y) : y \in transcripts \ {x}} \cup {Shown(x)}
  BY DEF Activated, Shown, Hidden
<1>2. \A y \in transcripts : /\ kept(y) \in Transcripts
                             /\ kept(y).of = y.of /\ kept(y).by = y.by
                             /\ y.of = x.of => ~kept(y).active
                             /\ y.of # x.of => kept(y) = y
  BY ShownFacts
<1>3. /\ Shown(x) \in Transcripts /\ Shown(x).active
      /\ Shown(x).of = x.of /\ Shown(x).by = x.by
  BY ShownFacts
<1> HIDE DEF kept
<1>4. ASSUME NEW y \in Activated(x)
      PROVE  /\ y \in Transcripts
             /\ y.of = x.of => (y.active <=> y = Shown(x))
             /\ y.of # x.of => y \in transcripts
  <2>1. CASE y = Shown(x)
    BY <1>3, <2>1
  <2>2. CASE y # Shown(x)
    <3>1. PICK z \in transcripts : y = kept(z)
      BY <1>1, <1>4, <2>2
    <3> QED
      BY <1>2, <2>2, <3>1
  <2> QED
    BY <2>1, <2>2
<1>5. ASSUME NEW y \in transcripts, y.of # x.of
      PROVE  y \in Activated(x)
  BY <1>1, <1>2, <1>5
<1>6. ASSUME NEW y \in transcripts
      PROVE  \E z \in Activated(x) : z.of = y.of /\ z.by = y.by
  <2>1. CASE y = x
    BY <1>1, <1>3, <2>1
  <2>2. CASE y # x
    BY <1>1, <1>2, <2>2
  <2> QED
    BY <2>1, <2>2
<1> QED
  BY <1>1, <1>4, <1>5, <1>6

\* The transcript a thread writes, for whichever recording has its row number.
Fresh(t, a, n) == [n |-> n, of |-> a, from |-> at[t].about,
                   by |-> work[t].id, active |-> FALSE]

LEMMA FreshFacts ==
  ASSUME transcripts \subseteq Transcripts, Standing, NEW t \in Threads, Write(t),
         NEW a \in Audios, NEW n \in {1} \cup {x.n + 1 : x \in transcripts}
  PROVE  /\ n \in Nat /\ at[t].step = "write"
         /\ Fresh(t, a, n) \in Transcripts
         /\ Fresh(t, a, n).of = a /\ Fresh(t, a, n).by = work[t].id
<1>1. n \in Nat
  <2>1. \A x \in transcripts : x.n + 1 \in Nat
    BY DEF Transcripts
  <2> QED
    BY <2>1
<1>2. at[t].step = "write"
  BY DEF Write
<1>3. at[t].about \in Audios
  BY <1>2 DEF Standing, Sounds, AtSound, InHand
<1>4. work[t].id \in JobId
  BY <1>2, IdleFacts DEF Standing, PlaceInv, AtWork, IInv
<1> QED
  BY <1>1, <1>2, <1>3, <1>4 DEF Fresh, Transcripts

\* The two steps that show a transcript, and the one that takes some away.
LEMMA TranscriptSteps ==
  ASSUME transcripts \subseteq Transcripts, Standing, [TNext]_tvars
  PROVE  \/ UNCHANGED transcripts
         \/ \E x \in transcripts : Activate(x)
         \/ \E a \in Audios : TPurge(a)
         \/ \E t \in Threads, a \in Audios, n \in Nat :
              /\ Write(t) /\ at[t].step = "write" /\ row[a] = at[t].row
              /\ Fresh(t, a, n) \in Transcripts
              /\ Fresh(t, a, n).of = a /\ Fresh(t, a, n).by = work[t].id
              /\ transcripts' = Activated(Fresh(t, a, n))
<1>1. ASSUME NEW t \in Threads, Write(t), transcripts' # transcripts
      PROVE  \E a \in Audios, n \in Nat :
               /\ Write(t) /\ at[t].step = "write" /\ row[a] = at[t].row
               /\ Fresh(t, a, n) \in Transcripts
               /\ Fresh(t, a, n).of = a /\ Fresh(t, a, n).by = work[t].id
               /\ transcripts' = Activated(Fresh(t, a, n))
  <2>1. PICK a \in Audios, n \in {1} \cup {x.n + 1 : x \in transcripts} :
           /\ row[a] = at[t].row
           /\ transcripts' = Activated(Fresh(t, a, n))
    BY <1>1 DEF Write, Fresh
  <2> QED
    BY <1>1, <2>1, FreshFacts
<1>2. ASSUME NEW t \in Threads, Handler(t), ~Write(t)
      PROVE  UNCHANGED transcripts
  BY <1>2 DEF Handler, Locate, Ask, Cut, CutFails, Send, SendFails, Answer,
     Refused, GivesUp
<1>3. ASSUME NEW t \in Threads, TClaim(t) \/ TFinish(t) \/ TFail(t) \/ TLoseOutcome(t)
      PROVE  UNCHANGED transcripts
  BY <1>3 DEF TClaim, TFinish, TFail, TLoseOutcome
<1>4. ASSUME NEW a \in Audios, Upload(a) \/ AskFor(a) \/ GiveUpOn(a) \/ RemoveFiles(a)
      PROVE  UNCHANGED transcripts
  BY <1>4 DEF Upload, AskFor, GiveUpOn, RemoveFiles, handler
<1>5. ASSUME NEW j \in JobId, TRetry(j) \/ TCancel(j) \/ TBackoffElapsed(j)
      PROVE  UNCHANGED transcripts
  BY <1>5 DEF TRetry, TCancel, TBackoffElapsed, handler
<1>6. CASE TCrash \/ TStart \/ UNCHANGED tvars
  BY <1>6 DEF TCrash, TStart, handler, tvars
<1> QED
  BY <1>1, <1>2, <1>3, <1>4, <1>5, <1>6 DEF TNext

TranscriptType == transcripts \subseteq Transcripts

LEMMA TranscriptTypeNext ==
  ASSUME TranscriptType, Standing, [TNext]_tvars
  PROVE  TranscriptType'
<1>1. CASE UNCHANGED transcripts
  BY <1>1 DEF TranscriptType
<1>2. ASSUME NEW x \in transcripts, Activate(x)
      PROVE  TranscriptType'
  BY <1>2, ActivatedFacts DEF TranscriptType, Activate
<1>3. ASSUME NEW a \in Audios, TPurge(a)
      PROVE  TranscriptType'
  BY <1>3 DEF TranscriptType, TPurge
<1>4. ASSUME NEW t \in Threads, NEW a \in Audios, NEW n \in Nat,
             Fresh(t, a, n) \in Transcripts, transcripts' = Activated(Fresh(t, a, n))
      PROVE  TranscriptType'
  BY <1>4, ActivatedFacts DEF TranscriptType
<1> QED
  BY <1>1, <1>2, <1>3, <1>4, TranscriptSteps DEF TranscriptType

PartTypes == /\ parts \subseteq Audios \X (1..MaxParts)
             /\ cutoff \subseteq JobId \X Audios \X (1..MaxParts)

\* A thread at work on a part names one that there may be.
LEMMA PartInRange ==
  ASSUME Sounds, NEW t \in Threads, at[t].step \in InHand
  PROVE  /\ at[t].about \in Audios /\ at[t].part \in 1..MaxParts
         /\ PartFile(t) \in Audios \X (1..MaxParts)
<1>1. at[t].about \in Audios /\ at[t].part \in 1..PartsOf(at[t].about)
  BY DEF Sounds, AtSound
<1>2. at[t].part \in 1..MaxParts
  BY <1>1, PartsOfFacts, TranscriptionAssumption
<1> QED
  BY <1>1, <1>2 DEF PartFile

LEMMA PartTypesNext ==
  ASSUME PartTypes, Standing, [TNext]_tvars
  PROVE  PartTypes'
<1>0. Sounds
  BY DEF Standing
<1>1. ASSUME NEW t \in Threads, Cut(t) \/ CutFails(t)
      PROVE  PartTypes'
  <2>1. at[t].step \in InHand
    BY <1>1 DEF Cut, CutFails, InHand
  <2>2. PartFile(t) \in Audios \X (1..MaxParts)
    BY <1>0, <2>1, PartInRange
  <2> QED
    BY <1>1, <2>2 DEF Cut, CutFails, PartTypes
<1>2. ASSUME NEW t \in Threads, Handler(t), ~Cut(t), ~CutFails(t)
      PROVE  PartTypes'
  BY <1>2 DEF Handler, Locate, Ask, Send, SendFails, Answer, Refused,
     GivesUp, Write, Discard, PartTypes
<1>3. ASSUME NEW t \in Threads, TClaim(t) \/ TFinish(t) \/ TFail(t) \/ TLoseOutcome(t)
      PROVE  PartTypes'
  BY <1>3 DEF TClaim, TFinish, TFail, TLoseOutcome, PartTypes
<1>4. ASSUME NEW a \in Audios,
             Upload(a) \/ AskFor(a) \/ GiveUpOn(a) \/ RemoveFiles(a) \/ TPurge(a)
      PROVE  PartTypes'
  BY <1>4 DEF Upload, AskFor, GiveUpOn, RemoveFiles, TPurge, PartTypes, handler
<1>5. ASSUME NEW j \in JobId, TRetry(j) \/ TCancel(j) \/ TBackoffElapsed(j)
      PROVE  PartTypes'
  BY <1>5 DEF TRetry, TCancel, TBackoffElapsed, PartTypes, handler
<1>6. ASSUME NEW x \in transcripts, Activate(x)
      PROVE  PartTypes'
  BY <1>6 DEF Activate, PartTypes
<1>7. CASE TCrash
  <2>1. ASSUME NEW t \in Threads, at[t].step = "await"
        PROVE  <<work[t].id, at[t].about, at[t].part>>
                 \in JobId \X Audios \X (1..MaxParts)
    <3>1. at[t].about \in Audios /\ at[t].part \in 1..MaxParts
      BY <1>0, <2>1, PartInRange DEF InHand
    <3>2. work[t].id \in JobId
      BY <2>1, IdleFacts DEF Standing, PlaceInv, AtWork, IInv
    <3> QED
      BY <3>1, <3>2
  <2> QED
    BY <1>7, <2>1 DEF TCrash, PartTypes
<1>8. CASE TStart \/ UNCHANGED tvars
  BY <1>8 DEF TStart, PartTypes, handler, tvars
<1> QED
  BY <1>1, <1>2, <1>3, <1>4, <1>5, <1>6, <1>7, <1>8 DEF TNext

Typed == RowDiskTypes /\ TranscriptType /\ PartTypes

LEMMA TypedInvariant == TSpec => [](Standing /\ Typed)
<1>1. TInit => Typed
  BY RowNumbersFacts DEF TInit, Typed, RowDiskTypes, TranscriptType, PartTypes
<1>2. Standing /\ Typed /\ [TNext]_tvars => Typed'
  BY RowDiskNext, TranscriptTypeNext, PartTypesNext DEF Typed
<1> QED
  BY <1>1, <1>2, StandingInvariant, PTL DEF TSpec

\* Row numbers, files, threads, part files and transcripts are what the code
\* can make of them; a part that is cut or sent is one its recording has.
THEOREM TTypeCorrect == TSpec => []TTypeOK
<1>1. Standing /\ Typed => TTypeOK
  BY DEF Standing, Typed, TTypeOK, IInv, PlaceInv, AtType, RowDiskTypes,
     TranscriptType, PartTypes
<1> QED
  BY <1>1, TypedInvariant, PTL

-----------------------------------------------------------------------------
(* One transcript is shown *)

\* A recording with transcripts shows one, and that one only.
OneShown == \A a \in Audios : TranscriptsOf(a) # {} =>
                \E x \in TranscriptsOf(a) :
                    \A y \in TranscriptsOf(a) : y.active <=> y = x

LEMMA ActivatedShowsOne ==
  ASSUME OneShown, TranscriptType, NEW x \in Transcripts, transcripts' = Activated(x)
  PROVE  OneShown'
<1> SUFFICES ASSUME NEW a \in Audios, TranscriptsOf(a)' # {}
             PROVE  \E z \in TranscriptsOf(a)' :
                      \A y \in TranscriptsOf(a)' : y.active <=> y = z
  BY DEF OneShown
<1>0. /\ Shown(x) \in transcripts' /\ Shown(x).of = x.of
      /\ \A y \in transcripts' : /\ y.of = x.of => (y.active <=> y = Shown(x))
                                 /\ y.of # x.of => y \in transcripts
      /\ \A y \in transcripts : y.of # x.of => y \in transcripts'
  BY ActivatedFacts, ShownFacts DEF TranscriptType
<1>1. CASE a = x.of
  BY <1>0, <1>1 DEF TranscriptsOf
<1>2. CASE a # x.of
  <2>1. TranscriptsOf(a)' = TranscriptsOf(a)
    BY <1>0, <1>2 DEF TranscriptsOf
  <2> QED
    BY <2>1 DEF OneShown
<1> QED
  BY <1>1, <1>2

LEMMA OneShownNext ==
  ASSUME OneShown, Standing, Typed, [TNext]_tvars
  PROVE  OneShown'
<1>0. TranscriptType
  BY DEF Typed
<1>1. CASE UNCHANGED transcripts
  BY <1>1 DEF OneShown, TranscriptsOf
<1>2. ASSUME NEW x \in transcripts, Activate(x)
      PROVE  OneShown'
  BY <1>0, <1>2, ActivatedShowsOne DEF Activate, TranscriptType
<1>3. ASSUME NEW b \in Audios, TPurge(b)
      PROVE  OneShown'
  <2>1. transcripts' = transcripts \ TranscriptsOf(b)
    BY <1>3 DEF TPurge
  <2>2. ASSUME NEW a \in Audios
        PROVE  TranscriptsOf(a)' = {} \/ TranscriptsOf(a)' = TranscriptsOf(a)
    BY <2>1 DEF TranscriptsOf
  <2> QED
    BY <2>2 DEF OneShown
<1>4. ASSUME NEW t \in Threads, NEW a \in Audios, NEW n \in Nat,
             Fresh(t, a, n) \in Transcripts, transcripts' = Activated(Fresh(t, a, n))
      PROVE  OneShown'
  BY <1>0, <1>4, ActivatedShowsOne
<1> QED
  BY <1>0, <1>1, <1>2, <1>3, <1>4, TranscriptSteps DEF TranscriptType

\* A recording that has transcripts shows exactly one of them (JOB-7), whoever
\* writes, switches and purges, and whichever recording has the row number.
THEOREM AlwaysOneActive == TSpec => []OneActive
<1>1. TInit => OneShown
  BY DEF TInit, OneShown, TranscriptsOf
<1>2. OneShown /\ Standing /\ Typed /\ [TNext]_tvars => OneShown'
  BY OneShownNext
<1>3. OneShown => OneActive
  <2> SUFFICES ASSUME OneShown, NEW a \in Audios, TranscriptsOf(a) # {}
               PROVE  Cardinality({x \in TranscriptsOf(a) : x.active}) = 1
    BY DEF OneActive
  <2>1. PICK x \in TranscriptsOf(a) : \A y \in TranscriptsOf(a) : y.active <=> y = x
    BY DEF OneShown
  <2>2. {y \in TranscriptsOf(a) : y.active} = {x}
    BY <2>1
  <2> QED
    BY <2>2, FS_Singleton
<1> QED
  BY <1>1, <1>2, <1>3, TypedInvariant, PTL DEF TSpec

-----------------------------------------------------------------------------
(* A job that reads `done` left a transcript *)

\* Row numbers are told apart, and a job's recording has one: the job goes in
\* the transaction that takes the recording away.
RowsDistinct == \A a, b \in Audios : HasRow(a) /\ row[a] = row[b] => a = b

JobsHaveRows == \A j \in JobId : job[j].state # ABSENT =>
                    job[j].audio \in Audios /\ HasRow(job[j].audio)

\* A thread that still has its job carries its recording's row number.
Holding(t) == work[t] # Idle /\ t \notin overtaken

HeldNumber == \A t \in Threads : Holding(t) =>
                  at[t].row = row[job[work[t].id].audio]

\* And once it has returned, the job is cancelled or its transcript is there,
\* with the recording the job is about.
LeftOne(t) == \E x \in transcripts : /\ x.by = work[t].id
                                     /\ x.of = job[work[t].id].audio

Returned == \A t \in Threads : Holding(t) /\ at[t].step = "returned" =>
                Cancelled(t) \/ LeftOne(t)

Rooted == RowsDistinct /\ JobsHaveRows /\ HeldNumber /\ Returned

\* Only an upload and a request put a job in.
LEMMA TKeepsRows ==
  ASSUME TypeOK, [TNext]_tvars
  PROVE  \/ KeepsRows
         \/ \E a \in Audios : Upload(a) /\ Insert(Transcribe, a) /\ Transcribe \in Kinds
         \/ \E a \in Audios : AskFor(a) /\ Insert(Transcribe, a) /\ Transcribe \in Kinds
<1>1. ASSUME NEW t \in Threads, Worker(t)
      PROVE  KeepsRows
  BY <1>1, OthersKeepRows
<1>2. ASSUME NEW t \in Threads, TClaim(t) \/ TFinish(t) \/ TFail(t) \/ TLoseOutcome(t)
      PROVE  KeepsRows
  BY <1>1, <1>2 DEF TClaim, TFinish, TFail, TLoseOutcome, Worker
<1>3. ASSUME UNCHANGED vars
      PROVE  KeepsRows
  BY <1>3, OthersKeepRows
<1>4. ASSUME NEW a \in Audios, TPurge(a) \/ GiveUpOn(a)
      PROVE  KeepsRows
  BY <1>4, OthersKeepRows DEF TPurge, GiveUpOn
<1>5. ASSUME NEW j \in JobId, TRetry(j) \/ TCancel(j) \/ TBackoffElapsed(j)
      PROVE  KeepsRows
  BY <1>5, OthersKeepRows DEF TRetry, TCancel, TBackoffElapsed
<1>6. CASE TCrash \/ TStart
  BY <1>6, OthersKeepRows DEF TCrash, TStart
<1>7. ASSUME NEW t \in Threads, Handler(t)
      PROVE  KeepsRows
  BY <1>3, <1>7, HandlerLeavesTable
<1>8. ASSUME NEW a \in Audios, RemoveFiles(a)
      PROVE  KeepsRows
  BY <1>3, <1>8 DEF RemoveFiles
<1>9. ASSUME NEW x \in transcripts, Activate(x)
      PROVE  KeepsRows
  BY <1>3, <1>9 DEF Activate
<1>10. CASE UNCHANGED tvars
  BY <1>3, <1>10 DEF tvars
<1>11. ASSUME NEW a \in Audios, Upload(a) \/ AskFor(a)
       PROVE  \/ KeepsRows
              \/ Upload(a) /\ Insert(Transcribe, a) /\ Transcribe \in Kinds
              \/ AskFor(a) /\ Insert(Transcribe, a) /\ Transcribe \in Kinds
  BY <1>3, <1>11 DEF Upload, AskFor, EnqueueTranscription
<1> QED
  BY <1>2, <1>4, <1>5, <1>6, <1>7, <1>8, <1>9, <1>10, <1>11, Zenon DEF TNext

\* A job somebody still has is the same job, about the same recording.
LEMMA HeldKept ==
  ASSUME IInv, [TNext]_tvars, NEW t \in Threads, Holding(t)', work'[t] = work[t]
  PROVE  /\ Holding(t) /\ work[t].id \in JobId
         /\ job[work[t].id].state # ABSENT
         /\ job'[work[t].id].audio = job[work[t].id].audio
         /\ Cancelled(t) => Cancelled(t)'
<1>0. TypeOK /\ work[t] # Idle /\ [Next]_vars
  BY StepIsStep DEF IInv, Holding
<1>1. Holding(t)
  <2>1. CASE Next
    BY <1>0, <2>1, StillHeld DEF Holding
  <2>2. CASE UNCHANGED vars
    BY <1>0, <2>2 DEF vars, Holding
  <2> QED
    BY <1>0, <2>1, <2>2
<1>2. work[t].id \in JobId
  BY <1>0, IdleFacts
<1>3. job[work[t].id].state # ABSENT /\ job'[work[t].id].state # ABSENT
  <2>1. IInv'
    BY <1>0, InvNext
  <2>2. /\ job[work[t].id].state \in {RUNNING, CANCELLED}
        /\ job'[work[t].id].state \in {RUNNING, CANCELLED}
    BY <1>1, <2>1 DEF IInv, HeldRow, Holding
  <2> QED
    BY <2>2, StatesDistinct
<1>4. job'[work[t].id].audio = job[work[t].id].audio
  <2>1. ASSUME NEW a \in Audios, Insert(Transcribe, a), Transcribe \in Kinds
        PROVE  job'[work[t].id].audio = job[work[t].id].audio
    BY <1>0, <1>2, <1>3, <2>1, NewRowFacts
  <2>2. CASE KeepsRows
    BY <1>2, <1>3, <2>2 DEF KeepsRows
  <2> QED
    BY <1>0, <2>1, <2>2, TKeepsRows
<1>5. Cancelled(t) => Cancelled(t)'
  <2>1. CASE Next
    BY <1>0, <2>1, CancelledSticks DEF Holding
  <2>2. CASE UNCHANGED vars
    BY <2>2 DEF vars, Cancelled
  <2> QED
    BY <1>0, <2>1, <2>2
<1> QED
  BY <1>1, <1>2, <1>3, <1>4, <1>5

\* What becomes of the row numbers.
LEMMA NumberSteps ==
  ASSUME [TNext]_tvars
  PROVE  \/ UNCHANGED row
         \/ \E a \in Audios, n \in RowNumbers :
              /\ Upload(a) /\ ~HasRow(a) /\ IsNextRow(n)
              /\ row' = [row EXCEPT ![a] = n]
         \/ \E a \in Audios : TPurge(a)
<1>1. ASSUME NEW a \in Audios, Upload(a)
      PROVE  \E n \in RowNumbers : /\ Upload(a) /\ ~HasRow(a) /\ IsNextRow(n)
                                   /\ row' = [row EXCEPT ![a] = n]
  BY <1>1 DEF Upload
<1>2. ASSUME NEW a \in Audios, AskFor(a) \/ GiveUpOn(a) \/ RemoveFiles(a)
      PROVE  UNCHANGED row
  BY <1>2 DEF AskFor, GiveUpOn, RemoveFiles, handler
<1>3. ASSUME NEW t \in Threads, Handler(t)
      PROVE  UNCHANGED row
  BY <1>3 DEF Handler, Locate, Ask, Cut, CutFails, Send, SendFails, Answer,
     Refused, GivesUp, Write
<1>4. ASSUME NEW t \in Threads, TClaim(t) \/ TFinish(t) \/ TFail(t) \/ TLoseOutcome(t)
      PROVE  UNCHANGED row
  BY <1>4 DEF TClaim, TFinish, TFail, TLoseOutcome
<1>5. ASSUME NEW j \in JobId, TRetry(j) \/ TCancel(j) \/ TBackoffElapsed(j)
      PROVE  UNCHANGED row
  BY <1>5 DEF TRetry, TCancel, TBackoffElapsed, handler
<1>6. ASSUME NEW x \in transcripts, Activate(x)
      PROVE  UNCHANGED row
  BY <1>6 DEF Activate
<1>7. CASE TCrash \/ TStart \/ UNCHANGED tvars
  BY <1>7 DEF TCrash, TStart, handler, tvars
<1> QED
  BY <1>1, <1>2, <1>3, <1>4, <1>5, <1>6, <1>7, Zenon DEF TNext

\* What becomes of one thread.
LEMMA ThreadSteps ==
  ASSUME Standing, [TNext]_tvars, NEW t \in Threads
  PROVE  \/ TClaim(t)
         \/ Handler(t)
         \/ work'[t] = Idle
         \/ at'[t] = at[t] /\ work'[t] = work[t]
<1>0. TypeOK /\ AtType /\ RowType
  BY DEF Standing, IInv, PlaceInv
<1>1. ASSUME NEW u \in Threads, u # t, TClaim(u)
      PROVE  at'[t] = at[t] /\ work'[t] = work[t]
  <2>1. Claim(u)
    BY <1>1 DEF TClaim
  <2> QED
    BY <1>0, <1>1, <2>1, TClaimFacts, ClaimFacts DEF RowType
<1>2. ASSUME NEW u \in Threads, u # t, Handler(u)
      PROVE  at'[t] = at[t] /\ work'[t] = work[t]
  BY <1>0, <1>2, HandlerFacts, HandlerLeavesTable DEF HandlerEffect, vars
<1>3. ASSUME NEW u \in Threads, TFinish(u) \/ TFail(u) \/ TLoseOutcome(u)
      PROVE  work'[t] = Idle \/ (at'[t] = at[t] /\ work'[t] = work[t])
  <2>1. at' = [at EXCEPT ![u] = Home]
    BY <1>3 DEF TFinish, TFail, TLoseOutcome
  <2>2. Finish(u) \/ Fail(u) \/ LoseOutcome(u)
    BY <1>3 DEF TFinish, TFail, TLoseOutcome
  <2>3. work'[u] = Idle /\ (u # t => work'[t] = work[t])
    BY <1>0, <2>2, OutcomeFacts, ReleaseFacts, LoseFacts
  <2> QED
    BY <1>0, <2>1, <2>3 DEF AtType
<1>4. CASE Elsewhere
  BY <1>4 DEF Elsewhere, vars
<1>5. CASE TCrash
  BY <1>5 DEF TCrash, Crash
<1>6. CASE UNCHANGED tvars
  BY <1>6 DEF tvars, handler, vars
<1> QED
  BY <1>1, <1>2, <1>3, <1>4, <1>5, <1>6, StepCases

LEMMA RowsDistinctNext ==
  ASSUME RowsDistinct, Typed, [TNext]_tvars
  PROVE  RowsDistinct'
<1>0. row \in [Audios -> Nat]
  BY RowNumbersFacts DEF Typed, RowDiskTypes
<1>1. CASE UNCHANGED row
  BY <1>1 DEF RowsDistinct, HasRow
<1>2. ASSUME NEW a \in Audios, NEW n \in RowNumbers, IsNextRow(n),
             row' = [row EXCEPT ![a] = n]
      PROVE  RowsDistinct'
  <2>1. n \in Nat /\ \A b \in Audios : row[b] \in Nat /\ row[b] < n
    BY <1>0, <1>2, RowNumbersFacts DEF IsNextRow
  <2>2. row'[a] = n /\ \A b \in Audios : b # a => row'[b] = row[b]
    BY <1>0, <1>2
  <2> QED
    BY <2>1, <2>2 DEF RowsDistinct, HasRow
<1>3. ASSUME NEW a \in Audios, TPurge(a)
      PROVE  RowsDistinct'
  BY <1>0, <1>3 DEF TPurge, RowsDistinct, HasRow
<1> QED
  BY <1>1, <1>2, <1>3, NumberSteps

LEMMA JobsHaveRowsNext ==
  ASSUME TypeOK, JobsHaveRows, Typed, [TNext]_tvars
  PROVE  JobsHaveRows'
<1>0. row \in [Audios -> Nat]
  BY RowNumbersFacts DEF Typed, RowDiskTypes
<1>1. ASSUME NEW a \in Audios, Insert(Transcribe, a), Transcribe \in Kinds,
             HasRow(a)', \A b \in Audios : b # a => row'[b] = row[b]
      PROVE  JobsHaveRows'
  <2>1. PICK n \in JobId : /\ job'[n].audio = a
                           /\ \A i \in JobId : i # n => job'[i] = job[i]
    BY <1>1, NewRowFacts
  <2> QED
    BY <1>1, <2>1 DEF JobsHaveRows, HasRow
<1>2. ASSUME NEW a \in Audios, Upload(a), Insert(Transcribe, a), Transcribe \in Kinds
      PROVE  JobsHaveRows'
  <2>1. PICK n \in RowNumbers : IsNextRow(n) /\ row' = [row EXCEPT ![a] = n]
    BY <1>2 DEF Upload
  <2>2. n # 0
    BY <1>0, <2>1 DEF IsNextRow
  <2> QED
    BY <1>0, <1>1, <1>2, <2>1, <2>2 DEF HasRow
<1>3. ASSUME NEW a \in Audios, AskFor(a), Insert(Transcribe, a), Transcribe \in Kinds
      PROVE  JobsHaveRows'
  BY <1>1, <1>3 DEF AskFor, handler, HasRow
<1>4. CASE KeepsRows
  <2> SUFFICES ASSUME NEW j \in JobId, job'[j].state # ABSENT
               PROVE  job'[j].audio \in Audios /\ row'[job'[j].audio] # 0
    BY DEF JobsHaveRows, HasRow
  <2>1. /\ job[j].state # ABSENT /\ job'[j].audio = job[j].audio
        /\ job[j].audio \in Audios /\ HasRow(job[j].audio)
    BY <1>4 DEF KeepsRows, JobsHaveRows
  <2>2. CASE UNCHANGED row
    BY <2>1, <2>2 DEF HasRow
  <2>3. ASSUME NEW a \in Audios, NEW n \in RowNumbers, ~HasRow(a),
               row' = [row EXCEPT ![a] = n]
        PROVE  row'[job'[j].audio] # 0
    BY <1>0, <2>1, <2>3 DEF HasRow
  <2>4. ASSUME NEW a \in Audios, TPurge(a)
        PROVE  row'[job'[j].audio] # 0
    <3>1. job[j].audio # a
      BY <2>1, <2>4 DEF TPurge, Purge, Present, NoRow
    <3> QED
      BY <1>0, <2>1, <2>4, <3>1 DEF TPurge, HasRow
  <2> QED
    BY <2>1, <2>2, <2>3, <2>4, NumberSteps DEF HasRow
<1> QED
  BY <1>2, <1>3, <1>4, TKeepsRows

\* Whoever purges a recording takes its job out of the thread's hands.
LEMMA PurgeOvertakes ==
  ASSUME IInv, [TNext]_tvars, NEW t \in Threads, Holding(t)', work'[t] = work[t],
         NEW a \in Audios, TPurge(a)
  PROVE  job[work[t].id].audio # a
<1>1. work[t].id \in JobId /\ job[work[t].id].state # ABSENT
  BY HeldKept
<1>2. overtaken' = overtaken \cup
        {u \in Threads : work[u].id \in {j \in Present : job[j].audio = a}}
  BY DEF TPurge, Purge
<1> QED
  BY <1>1, <1>2 DEF Holding, Present

\* So its number stays while a thread still has the job.
LEMMA NumberKept ==
  ASSUME IInv, JobsHaveRows, Typed, [TNext]_tvars, NEW t \in Threads, Holding(t)',
         work'[t] = work[t]
  PROVE  row'[job[work[t].id].audio] = row[job[work[t].id].audio]
<1> DEFINE a == job[work[t].id].audio
<1>0. row \in [Audios -> Nat]
  BY RowNumbersFacts DEF Typed, RowDiskTypes
<1>1. a \in Audios /\ HasRow(a)
  BY HeldKept DEF JobsHaveRows
<1>2. ASSUME NEW b \in Audios, TPurge(b)
      PROVE  row'[a] = row[a]
  <2>1. a # b
    BY <1>2, PurgeOvertakes
  <2> QED
    BY <1>0, <1>1, <1>2, <2>1 DEF TPurge
<1>3. ASSUME NEW b \in Audios, NEW n \in RowNumbers, ~HasRow(b),
             row' = [row EXCEPT ![b] = n]
      PROVE  row'[a] = row[a]
  <2>1. a # b
    BY <1>1, <1>3
  <2> QED
    BY <1>0, <1>1, <1>3, <2>1
<1> QED
  BY <1>2, <1>3, NumberSteps

LEMMA HeldNumberNext ==
  ASSUME Standing, JobsHaveRows, JobsHaveRows', HeldNumber, Typed, [TNext]_tvars
  PROVE  HeldNumber'
<1> SUFFICES ASSUME NEW t \in Threads, Holding(t)'
             PROVE  at'[t].row = row'[job'[work'[t].id].audio]
  BY DEF HeldNumber
<1>0. TypeOK /\ AtType /\ RowType /\ IInv /\ Sounds
  BY DEF Standing, IInv, PlaceInv
<1>1. CASE TClaim(t)
  <2>1. at'[t].row = RowOf(job[work'[t].id].audio) /\ row' = row
    BY <1>0, <1>1, TClaimFacts DEF RowType, TClaim
  <2>2. Claim(t)
    BY <1>1 DEF TClaim
  <2>3. PICK j \in JobId : /\ Claimable(j) /\ job'[j].audio = job[j].audio
                           /\ work'[t] = [id |-> j, kind |-> job[j].kind,
                                          attempts |-> job[j].attempts + 1]
    BY <1>0, <2>2, ClaimFacts
  <2>4. work'[t].id = j /\ job[j].state # ABSENT
    BY <2>3, StatesDistinct DEF Claimable, IsReady
  <2>5. job[j].audio \in Audios
    BY <2>4 DEF JobsHaveRows
  <2> QED
    BY <2>1, <2>3, <2>4, <2>5 DEF RowOf
<1>2. ASSUME at'[t].row = at[t].row, work'[t] = work[t]
      PROVE  at'[t].row = row'[job'[work'[t].id].audio]
  <2>1. Holding(t) /\ job'[work[t].id].audio = job[work[t].id].audio
    BY <1>0, <1>2, HeldKept
  <2>2. row'[job[work[t].id].audio] = row[job[work[t].id].audio]
    BY <1>0, <1>2, NumberKept
  <2> QED
    BY <1>2, <2>1, <2>2 DEF HeldNumber
<1>3. CASE Handler(t)
  BY <1>0, <1>2, <1>3, HandlerKeeps, HandlerLeavesTable DEF Sounds, vars
<1>4. CASE work'[t] = Idle
  BY <1>4 DEF Holding
<1> QED
  BY <1>1, <1>2, <1>3, <1>4, ThreadSteps

\* A handler returns because its job reads cancelled, or with a transcript
\* written for whichever recording has its number.
LEMMA ReturnCauses ==
  ASSUME Standing, TranscriptType, NEW t \in Threads, Handler(t),
         at'[t].step = "returned", ~Cancelled(t)
  PROVE  \E a \in Audios : /\ row[a] = at[t].row
                           /\ \E x \in transcripts' : x.of = a /\ x.by = work[t].id
<1>0. AtType /\ Sounds
  BY DEF Standing, PlaceInv
<1>1. ASSUME NEW s \in Steps, GoTo(t, s), s # "returned"
      PROVE  FALSE
  BY <1>0, <1>1, GoToFacts
<1>2. CASE Locate(t)
  <2>1. PICK a \in Audios :
           at' = [at EXCEPT ![t].step = "ask", ![t].about = a, ![t].part = 1]
    BY <1>1, <1>2 DEF Locate, Steps
  <2>2. at[t] \in Places
    BY <1>0 DEF AtType
  <2> DEFINE place == [at[t] EXCEPT !.step = "ask", !.about = a, !.part = 1]
  <2>3. at' = [at EXCEPT ![t] = place] /\ place.step = "ask"
    BY <2>1, <2>2 DEF Places
  <2> HIDE DEF place
  <2> QED
    BY <1>0, <2>3 DEF AtType
<1>3. CASE Ask(t)
  BY <1>1, <1>3 DEF Ask, Steps
<1>4. CASE Cut(t) \/ CutFails(t) \/ SendFails(t) \/ Refused(t) \/ GivesUp(t)
  BY <1>1, <1>4 DEF Cut, CutFails, SendFails, Refused, GivesUp, Steps
<1>5. CASE Send(t)
  <2> DEFINE sent == at[t].late + IF Cancelled(t) THEN 1 ELSE 0
  <2>1. at' = [at EXCEPT ![t] = Sent(at[t], sent)]
    BY <1>5 DEF Send, Sent
  <2>2. at[t] \in Places
    BY <1>0 DEF AtType
  <2>3. sent \in Nat
    BY <2>2, PlaceNumbers
  <2> HIDE DEF sent
  <2>4. Sent(at[t], sent).step = "await"
    BY <2>2, <2>3, SentFacts
  <2> QED
    BY <1>0, <2>1, <2>4 DEF AtType
<1>6. CASE Answer(t)
  <2>1. CASE MoreParts(t)
    <3> DEFINE next == at[t].part + 1
    <3>1. at' = [at EXCEPT ![t] = Onward(at[t], next)]
      BY <1>6, <2>1 DEF Answer, Onward
    <3>2. at[t] \in Places
      BY <1>0 DEF AtType
    <3>3. next \in Nat
      BY <3>2, PlaceNumbers
    <3> HIDE DEF next
    <3>4. Onward(at[t], next).step = "ask"
      BY <3>2, <3>3, OnwardFacts
    <3> QED
      BY <1>0, <3>1, <3>4 DEF AtType
  <2>2. CASE ~MoreParts(t)
    BY <1>1, <1>6, <2>2 DEF Answer, Steps
  <2> QED
    BY <2>1, <2>2
<1>7. CASE Write(t)
  <2>1. PICK a \in Audios, n \in {1} \cup {x.n + 1 : x \in transcripts} :
           /\ row[a] = at[t].row
           /\ transcripts' = Activated(Fresh(t, a, n))
    BY <1>1, <1>7 DEF Write, Fresh, Steps
  <2>2. /\ Fresh(t, a, n) \in Transcripts
        /\ Fresh(t, a, n).of = a /\ Fresh(t, a, n).by = work[t].id
    BY <1>7, FreshFacts DEF TranscriptType
  <2>3. Shown(Fresh(t, a, n)) \in transcripts'
    BY <2>1, <2>2, ActivatedFacts DEF TranscriptType
  <2> QED
    BY <2>1, <2>2, <2>3, ShownFacts
<1> QED
  BY <1>2, <1>3, <1>4, <1>5, <1>6, <1>7 DEF Handler

LEMMA ReturnedNext ==
  ASSUME Standing, Rooted, Typed, [TNext]_tvars
  PROVE  Returned'
<1> SUFFICES ASSUME NEW t \in Threads, Holding(t)', at'[t].step = "returned"
             PROVE  Cancelled(t)' \/ LeftOne(t)'
  BY DEF Returned
<1>0. TypeOK /\ AtType /\ RowType /\ IInv /\ TranscriptType
  BY DEF Standing, IInv, PlaceInv, Typed
<1>1. CASE TClaim(t)
  BY <1>0, <1>1, TClaimFacts DEF RowType
<1>2. CASE Handler(t)
  <2>1. UNCHANGED vars
    BY <1>2, HandlerLeavesTable
  <2>2. Holding(t) /\ (Cancelled(t)' <=> Cancelled(t))
    BY <2>1 DEF vars, Holding, Cancelled
  <2>3. ASSUME ~Cancelled(t)
        PROVE  LeftOne(t)'
    <3>1. PICK a \in Audios, x \in transcripts' :
             row[a] = at[t].row /\ x.of = a /\ x.by = work[t].id
      BY <1>0, <1>2, <2>3, ReturnCauses
    <3> DEFINE b == job[work[t].id].audio
    <3>2. b \in Audios /\ HasRow(b)
      <4>1. work[t].id \in JobId /\ job[work[t].id].state # ABSENT
        BY <1>0, <2>2, <2>1, HeldKept DEF vars
      <4> QED
        BY <4>1 DEF Rooted, JobsHaveRows
    <3>3. at[t].row = row[b]
      BY <2>2 DEF Rooted, HeldNumber
    <3>4. a = b
      BY <3>1, <3>2, <3>3 DEF Rooted, RowsDistinct
    <3> QED
      BY <2>1, <3>1, <3>4 DEF LeftOne, vars
  <2> QED
    BY <2>2, <2>3
<1>3. ASSUME at'[t] = at[t], work'[t] = work[t]
      PROVE  Cancelled(t)' \/ LeftOne(t)'
  <2>1. /\ Holding(t) /\ job'[work[t].id].audio = job[work[t].id].audio
        /\ Cancelled(t) => Cancelled(t)'
    BY <1>0, <1>3, HeldKept
  <2>2. ASSUME LeftOne(t)
        PROVE  LeftOne(t)'
    <3> DEFINE b == job[work[t].id].audio
    <3>1. PICK x \in transcripts : x.by = work[t].id /\ x.of = b
      BY <2>2 DEF LeftOne
    <3>2. \E y \in transcripts' : y.by = x.by /\ y.of = x.of
      <4>1. CASE UNCHANGED transcripts
        BY <4>1
      <4>2. ASSUME NEW z \in transcripts, Activate(z)
            PROVE  \E y \in transcripts' : y.by = x.by /\ y.of = x.of
        BY <1>0, <4>2, ActivatedFacts DEF Activate, TranscriptType
      <4>3. ASSUME NEW a \in Audios, TPurge(a)
            PROVE  x \in transcripts'
        <5>1. b # a
          BY <1>0, <1>3, <4>3, PurgeOvertakes
        <5> QED
          BY <3>1, <4>3, <5>1 DEF TPurge, TranscriptsOf
      <4>4. ASSUME NEW u \in Threads, NEW a \in Audios, NEW n \in Nat,
                   Fresh(u, a, n) \in Transcripts,
                   transcripts' = Activated(Fresh(u, a, n))
            PROVE  \E y \in transcripts' : y.by = x.by /\ y.of = x.of
        BY <1>0, <4>4, ActivatedFacts DEF TranscriptType
      <4> QED
        BY <1>0, <4>1, <4>2, <4>3, <4>4, TranscriptSteps DEF TranscriptType
    <3> QED
      BY <1>3, <2>1, <3>1, <3>2 DEF LeftOne
  <2> QED
    BY <1>3, <2>1, <2>2 DEF Rooted, Returned
<1>4. CASE work'[t] = Idle
  BY <1>4 DEF Holding
<1> QED
  BY <1>1, <1>2, <1>3, <1>4, ThreadSteps

LEMMA RootedInvariant == TSpec => [](Standing /\ Typed /\ Rooted)
<1>1. TInit => Rooted
  <2> SUFFICES ASSUME TInit PROVE Rooted
    OBVIOUS
  <2>1. \A t \in Threads : work[t] = Idle
    BY DEF TInit, Init
  <2>2. \A j \in JobId : job[j].state = ABSENT
    BY DEF TInit, Init, NoRow
  <2>3. \A a \in Audios : ~HasRow(a)
    BY DEF TInit, HasRow
  <2> QED
    BY <2>1, <2>2, <2>3 DEF Rooted, RowsDistinct, JobsHaveRows, HeldNumber,
       Returned, Holding
<1>2. Standing /\ Typed /\ Rooted /\ [TNext]_tvars => Rooted'
  <2> SUFFICES ASSUME Standing, Typed, Rooted, [TNext]_tvars PROVE Rooted'
    OBVIOUS
  <2>1. TypeOK
    BY DEF Standing, IInv
  <2>2. RowsDistinct'
    BY RowsDistinctNext DEF Rooted
  <2>3. JobsHaveRows'
    BY <2>1, JobsHaveRowsNext DEF Rooted
  <2>4. HeldNumber'
    BY <2>3, HeldNumberNext DEF Rooted
  <2>5. Returned'
    BY ReturnedNext
  <2> QED
    BY <2>2, <2>3, <2>4, <2>5 DEF Rooted
<1> QED
  BY <1>1, <1>2, TypedInvariant, PTL DEF TSpec

\* A row comes to read `done` by its thread saying so after the handler
\* returned.
LEMMA DoneSteps ==
  ASSUME Standing, [TNext]_tvars, NEW j \in JobId,
         job[j].state # DONE, job'[j].state = DONE
  PROVE  \E t \in Holders(j) : /\ at[t].step = "returned" /\ work[t] # Idle
                               /\ job[j].state # CANCELLED
<1>0. TypeOK /\ [Next]_vars
  BY StepIsStep DEF Standing, IInv
<1>1. Next
  BY <1>0 DEF vars
<1>2. PICK t \in Holders(j) : /\ Finish(t) \/ Fail(t) \/ NoHandler(t)
                              /\ job[j].state \notin {CANCELLED, ABSENT}
  BY <1>0, <1>1, RowSteps, StatesDistinct
<1>3. t \in Threads /\ work[t].id = j
  BY DEF Holders
<1>4. work[t] # Idle /\ work'[t] = Idle
  BY <1>0, <1>2, <1>3, OutcomeFacts, ReleaseFacts
<1>5. ASSUME NEW u \in Threads, Fail(u)
      PROVE  FALSE
  <2>1. work[u].id \in JobId /\ AfterFailure(work[u].attempts) \in {PENDING, FAILED}
        /\ AfterFailure(work[u].attempts) \in States
    BY <1>0, <1>5, IdleFacts, OutcomesAreStates DEF Fail, Running
  <2>2. Settle(work[u].id, AfterFailure(work[u].attempts))
    BY <1>5 DEF Fail
  <2> QED
    BY <1>0, <2>1, <2>2, SettleFacts, StatesDistinct
<1>6. ASSUME UNCHANGED job
      PROVE  FALSE
  BY <1>6
<1>7. ASSUME UNCHANGED work
      PROVE  FALSE
  BY <1>4, <1>7
<1>8. PICK u \in Threads : TFinish(u)
  <2>1. ASSUME NEW u \in Threads, TClaim(u)
        PROVE  FALSE
    <3>1. Claim(u)
      BY <2>1 DEF TClaim
    <3>2. work[u] = Idle /\ \A v \in Threads : v # u => work'[v] = work[v]
      BY <1>0, <3>1, ClaimFacts
    <3> QED
      BY <1>3, <1>4, <3>2
  <2>2. ASSUME NEW u \in Threads, Handler(u)
        PROVE  FALSE
    BY <1>6, <2>2, HandlerLeavesTable DEF vars
  <2>3. ASSUME NEW u \in Threads, TFail(u) \/ TLoseOutcome(u)
        PROVE  FALSE
    BY <1>5, <1>6, <2>3 DEF TFail, TLoseOutcome, LoseOutcome
  <2>4. ASSUME Elsewhere
        PROVE  FALSE
    BY <1>6, <1>7, <2>4 DEF Elsewhere, vars
  <2>5. ASSUME TCrash \/ UNCHANGED tvars
        PROVE  FALSE
    BY <1>6, <2>5 DEF TCrash, Crash, tvars, vars
  <2> QED
    BY <2>1, <2>2, <2>3, <2>4, <2>5, StepCases
<1>9. work[u] # Idle /\ at[u].step = "returned" /\ Finish(u)
  BY <1>8 DEF TFinish, Finish, Running
<1>10. work[u].id = j
  <2>1. u = t
    BY <1>0, <1>3, <1>4, <1>9, OutcomeFacts, ReleaseFacts
  <2> QED
    BY <1>3, <2>1
<1> QED
  BY <1>2, <1>9, <1>10 DEF Holders

\* A job that comes to read `done` left a transcript of its own, unless the
\* thread that says so had lost the job.
LEMMA DoneLeft ==
  ASSUME Standing, Rooted, [TNext]_tvars, NEW j \in JobId,
         job[j].state # DONE, job'[j].state = DONE
  PROVE  (\E x \in transcripts : x.by = j) \/ overtaken \cap Holders(j) # {}
<1>1. PICK t \in Holders(j) : /\ at[t].step = "returned" /\ work[t] # Idle
                              /\ job[j].state # CANCELLED
  BY DoneSteps
<1>2. t \in Threads /\ work[t].id = j
  BY DEF Holders
<1>3. CASE t \in overtaken
  BY <1>1, <1>3
<1>4. CASE t \notin overtaken
  <2>1. Holding(t) /\ ~Cancelled(t)
    BY <1>1, <1>2, <1>4 DEF Holding, Cancelled
  <2>2. LeftOne(t)
    BY <1>1, <1>2, <2>1 DEF Rooted, Returned
  <2> QED
    BY <1>2, <2>2 DEF LeftOne
<1> QED
  BY <1>3, <1>4

\* The badge reads `done` exactly when a transcript is shown.
LEMMA BadgeDone ==
  ASSUME NEW a \in Audios
  PROVE  Badge(a) = "done" <=> \E x \in transcripts : x.of = a /\ x.active
BY DEF Badge, TranscriptsOf

LEMMA DoneBadgeKept ==
  ASSUME Standing, Typed, [TNext]_tvars, NEW a \in Audios,
         Badge(a) = "done", HasRow(a)'
  PROVE  Badge(a)' = "done"
<1> SUFFICES \E y \in transcripts' : y.of = a /\ y.active
  BY DEF Badge, TranscriptsOf
<1>0. TranscriptType
  BY DEF Typed
<1>1. PICK x \in transcripts : x.of = a /\ x.active
  BY BadgeDone
<1>2. ASSUME NEW z \in Transcripts, transcripts' = Activated(z)
      PROVE  \E y \in transcripts' : y.of = a /\ y.active
  <2>1. CASE z.of = a
    BY <1>0, <1>2, <2>1, ActivatedFacts, ShownFacts DEF TranscriptType
  <2>2. CASE z.of # a
    BY <1>0, <1>1, <1>2, <2>2, ActivatedFacts DEF TranscriptType
  <2> QED
    BY <2>1, <2>2
<1>3. ASSUME NEW b \in Audios, TPurge(b)
      PROVE  x \in transcripts'
  <2>1. a # b
    BY <1>3 DEF TPurge, HasRow, Standing, PlaceInv, RowType
  <2> QED
    BY <1>1, <1>3, <2>1 DEF TPurge, TranscriptsOf
<1>4. ASSUME NEW z \in transcripts, Activate(z)
      PROVE  \E y \in transcripts' : y.of = a /\ y.active
  BY <1>0, <1>2, <1>4 DEF Activate, TranscriptType
<1> QED
  BY <1>0, <1>1, <1>2, <1>3, <1>4, TranscriptSteps DEF TranscriptType

\* Both halves of what `done` means: a recording that reads so goes on reading
\* so until it leaves, whatever is asked for, switched, refused or purged
\* after it; and a job that comes to read so left a transcript of its own.
THEOREM DoneMeansDone == TSpec => DoneStands
<1>1. ASSUME Standing, Typed, [TNext]_tvars
      PROVE  \A a \in Audios : Badge(a) = "done" /\ HasRow(a)' => Badge(a)' = "done"
  BY <1>1, DoneBadgeKept
<1>2. ASSUME Standing, Rooted, [TNext]_tvars
      PROVE  \A j \in JobId :
               /\ job[j].state # DONE /\ job'[j].state = DONE
               => \/ \E x \in transcripts : x.by = j
                  \/ overtaken \cap Holders(j) # {}
  BY <1>2, DoneLeft
<1>3. TSpec => DoneBadgeStays
  BY <1>1, TypedInvariant, PTL DEF TSpec, DoneBadgeStays
<1>4. TSpec => DoneLeavesTranscript
  BY <1>2, RootedInvariant, PTL DEF TSpec, DoneLeavesTranscript
<1> QED
  BY <1>3, <1>4, PTL DEF DoneStands

-----------------------------------------------------------------------------
(* Part files nobody is going to remove *)

Minds(t, p) == at[t].step \in {"send", "await"} /\ PartFile(t) = p

\* A part appears when a thread has cut it, and then that thread minds it.
LEMMA PartsAdded ==
  ASSUME Standing, [TNext]_tvars, ~\E t \in Threads : CutFails(t),
         NEW p \in parts', p \notin parts
  PROVE  \E t \in Threads : Minds(t, p)'
<1>1. PICK t \in Threads : Cut(t)
  <2>1. ASSUME NEW t \in Threads, Handler(t), ~Cut(t)
        PROVE  FALSE
    BY <2>1 DEF Handler, Locate, Ask, Send, SendFails, Answer, Refused,
       GivesUp, Write, Discard
  <2>2. ASSUME NEW t \in Threads, TClaim(t) \/ TFinish(t) \/ TFail(t) \/ TLoseOutcome(t)
        PROVE  FALSE
    BY <2>2 DEF TClaim, TFinish, TFail, TLoseOutcome
  <2>3. ASSUME NEW a \in Audios,
               Upload(a) \/ AskFor(a) \/ GiveUpOn(a) \/ RemoveFiles(a) \/ TPurge(a)
        PROVE  FALSE
    BY <2>3 DEF Upload, AskFor, GiveUpOn, RemoveFiles, TPurge, handler
  <2>4. ASSUME NEW j \in JobId, TRetry(j) \/ TCancel(j) \/ TBackoffElapsed(j)
        PROVE  FALSE
    BY <2>4 DEF TRetry, TCancel, TBackoffElapsed, handler
  <2>5. ASSUME NEW x \in transcripts, Activate(x)
        PROVE  FALSE
    BY <2>5 DEF Activate
  <2>6. ASSUME TCrash \/ TStart \/ UNCHANGED tvars
        PROVE  FALSE
    BY <2>6 DEF TCrash, TStart, handler, tvars
  <2> QED
    BY <2>1, <2>2, <2>3, <2>4, <2>5, <2>6, Zenon DEF TNext
<1>2. p = PartFile(t) /\ GoTo(t, "send")
  BY <1>1 DEF Cut
<1>3. /\ at'[t].step = "send"
      /\ at'[t].about = at[t].about /\ at'[t].part = at[t].part
  BY <1>2, GoToFacts DEF Steps, Standing, PlaceInv
<1> QED
  BY <1>2, <1>3 DEF Minds, PartFile

\* A thread goes on minding its part until it removes it.
LEMMA MindsOn ==
  ASSUME Standing, [TNext]_tvars, ~Crash, NEW t \in Threads, NEW p, Minds(t, p)
  PROVE  Minds(t, p)' \/ p \notin parts'
<1>0. TypeOK /\ AtType /\ RowType /\ Sounds /\ AtWork
  BY DEF Standing, IInv, PlaceInv
<1>1. ASSUME at'[t] = at[t]
      PROVE  Minds(t, p)'
  BY <1>1 DEF Minds, PartFile
<1>2. CASE TClaim(t)
  BY <1>0, <1>2 DEF TClaim, Claim, AtWork, Minds
<1>3. CASE Handler(t)
  <2>1. CASE Send(t)
    <3>1. \/ at'[t].about = at[t].about /\ at'[t].part = at[t].part
          \/ at'[t].step \notin {"send", "await"}
      BY <1>0, <1>3, HandlerKeeps DEF Sounds
    <3> DEFINE sent == at[t].late + IF Cancelled(t) THEN 1 ELSE 0
    <3>2. at' = [at EXCEPT ![t] = Sent(at[t], sent)]
      BY <2>1 DEF Send, Sent
    <3>3. at[t] \in Places
      BY <1>0 DEF AtType
    <3>4. sent \in Nat
      BY <3>3, PlaceNumbers
    <3> HIDE DEF sent
    <3>5. Sent(at[t], sent).step = "await"
      BY <3>3, <3>4, SentFacts
    <3>6. at'[t].step = "await"
      BY <1>0, <3>2, <3>5 DEF AtType
    <3> QED
      BY <3>1, <3>6 DEF Minds, PartFile
  <2>2. CASE SendFails(t) \/ Answer(t) \/ Refused(t)
    BY <2>2 DEF SendFails, Answer, Refused, Discard, Minds
  <2> QED
    BY <1>3, <2>1, <2>2 DEF Handler, Locate, Ask, Cut, CutFails, GivesUp, Write, Minds
<1>4. ASSUME NEW u \in Threads, TFinish(u) \/ TFail(u) \/ TLoseOutcome(u)
      PROVE  at'[t] = at[t]
  BY <1>0, <1>4 DEF TFinish, TFail, TLoseOutcome, AtType, Minds
<1>5. ASSUME NEW u \in Threads, u # t, TClaim(u)
      PROVE  at'[t] = at[t]
  BY <1>0, <1>5, TClaimFacts DEF RowType
<1>6. ASSUME NEW u \in Threads, u # t, Handler(u)
      PROVE  at'[t] = at[t]
  BY <1>0, <1>6, HandlerFacts DEF HandlerEffect
<1>7. CASE Elsewhere
  BY <1>1, <1>7 DEF Elsewhere
<1>8. CASE UNCHANGED tvars
  BY <1>1, <1>8 DEF tvars, handler
<1>9. ~TCrash
  BY DEF TCrash
<1> QED
  BY <1>1, <1>2, <1>3, <1>4, <1>5, <1>6, <1>7, <1>8, <1>9, StepCases

\* Part files nobody is going to remove appear only when the process dies or a
\* cut fails half way, whichever threads answer, fail and are purged meanwhile.
THEOREM StraysOnlyForACause == TSpec => StraysHaveACause
<1>1. ASSUME Standing, [TNext]_tvars
      PROVE  Strays' \subseteq Strays \/ Crash \/ \E t \in Threads : CutFails(t)
  <2> SUFFICES ASSUME ~Crash, ~\E t \in Threads : CutFails(t), NEW p \in Strays'
               PROVE  p \in Strays
    OBVIOUS
  <2>1. p \in parts' /\ \A t \in Threads : ~Minds(t, p)'
    BY DEF Strays, Minds
  <2>2. p \in parts
    BY <1>1, <2>1, PartsAdded
  <2>3. \A t \in Threads : ~Minds(t, p)
    BY <1>1, <2>1, MindsOn
  <2> QED
    BY <2>2, <2>3 DEF Strays, Minds
<1> QED
  BY <1>1, StandingInvariant, PTL DEF TSpec, StraysHaveACause

-----------------------------------------------------------------------------
(* Cutting a long recording and stitching it together (Chunking) *)

\* What an answer is made of.
Pieces == [part : Nat, says : Utterance, speaker : Voices, from : Int, to : Int]

\* What the engine can answer to the k-th request.
Answered(k) ==
    \E torn \in SUBSET Torn(k), name \in Namings :
        heard[k] = {Piece(u, k, name) : u \in Whole(k) \cup torn}

\* The cuts go forwards, a ceiling at most at a time, and stop short of the
\* end of the recording; the plan is made before anything is sent, and what
\* is kept is what every part was answered with.
CutsGoForwards ==
    /\ cuts \in Seq(Nat)
    /\ \A i \in 1..Len(cuts) :
          /\ 0 < cuts[i] /\ cuts[i] < recording.length
          /\ cuts[i] <= (IF i = 1 THEN 0 ELSE cuts[i - 1]) + Ceiling
          /\ \A j \in 1..(i - 1) : cuts[j] < cuts[i]
    /\ stage # "plan" => Remaining <= Ceiling

AnswersInOrder ==
    /\ heard \in Seq(SUBSET Pieces)
    /\ Len(heard) <= Parts
    /\ stage = "plan" => heard = <<>>
    /\ \A k \in 1..Len(heard) : Answered(k)

KeptOfThem ==
    IF stage = "done"
    THEN /\ Len(heard) = Parts
         /\ transcript = UNION {{Relabelled(s) : s \in Kept(k)} : k \in 1..Parts}
    ELSE transcript = {}

ChunkIInv ==
    /\ recording \in Originals
    /\ stage \in {"plan", "submit", "done"}
    /\ CutsGoForwards
    /\ AnswersInOrder
    /\ KeptOfThem

\* The least of some natural numbers.
LEMMA LeastOf ==
    ASSUME NEW S \in SUBSET Nat, S # {}
    PROVE  \E k \in S : \A j \in S : k <= j
<1>1. PICK x \in S : \A y \in S : ~(<<y, x>> \in OpToRel(<, Nat))
    BY NatLessThanWellFounded, WFMin, Zenon
<1>2. ASSUME NEW y \in S
      PROVE  x <= y
    <2>1. x \in Nat /\ y \in Nat
        OBVIOUS
    <2>2. ~(y < x)
        <3> SUFFICES ASSUME y < x PROVE FALSE
            OBVIOUS
        <3>1. <<y, x>> \in OpToRel(<, Nat)
            BY <2>1, Zenon DEF OpToRel
        <3> QED
            BY <1>1, <3>1
    <2> QED
        BY <2>1, <2>2
<1> QED
    BY <1>2

\* The last of some instants that lie before another.
LEMMA LastOf ==
    ASSUME NEW b \in Nat, NEW S \in SUBSET (0..b), S # {}
    PROVE  \E k \in S : \A j \in S : j <= k
<1> DEFINE T == {b - s : s \in S}
<1>1. T \in SUBSET Nat /\ T # {}
    <2>1. \A s \in S : b - s \in Nat
        OBVIOUS
    <2>2. PICK s \in S : TRUE
        OBVIOUS
    <2>3. b - s \in T
        BY <2>2
    <2> QED
        BY <2>1, <2>3
<1>2. PICK t \in T : \A s \in T : t <= s
    BY <1>1, LeastOf
<1>3. PICK k \in S : t = b - k
    OBVIOUS
<1>4. ASSUME NEW j \in S
      PROVE  j <= k
    <2>1. b - j \in T
        OBVIOUS
    <2>2. b - k <= b - j
        BY <1>2, <1>3, <2>1
    <2> QED
        BY <2>2
<1> QED
    BY <1>4

\* A recording's instants are natural numbers, and so are the cuts.
LEMMA OfTheRecording ==
    ASSUME ChunkIInv
    PROVE  /\ recording.length \in Nat
           /\ recording.pauses \in SUBSET Silence
           /\ recording.talk \in SUBSET Utterance
           /\ \A u \in recording.talk :
                 /\ u.from \in Nat /\ u.to \in Nat /\ u.voice \in Voices
                 /\ u.from <= u.to /\ u.to <= recording.length
           /\ Len(cuts) \in Nat /\ Parts \in Nat \ {0}
           /\ Position \in Nat
           /\ Remaining \in Int
           /\ Ceiling \in Nat \ {0} /\ Overlap \in Nat /\ MinPart \in Nat \ {0}
<1>1. recording \in Originals /\ cuts \in Seq(Nat)
    BY DEF ChunkIInv, CutsGoForwards
<1>2. Len(cuts) \in Nat /\ Parts \in Nat \ {0}
    BY <1>1 DEF Parts
<1>3. Position \in Nat
    BY <1>1 DEF Position
<1> QED
    BY <1>1, <1>2, <1>3, ChunkingAssumption DEF ChunkingAssumption, Utterance, Remaining

\* A cut is placed ahead of the one before, at most a ceiling on.
LEMMA CutIsAhead ==
    ASSUME ChunkIInv
    PROVE  /\ CutNear \in Nat
           /\ Position < CutNear /\ CutNear <= Position + Ceiling
<1>0. /\ Position \in Nat
      /\ Ceiling \in Nat \ {0} /\ MinPart \in Nat \ {0}
      /\ recording.pauses \in SUBSET Silence
    BY OfTheRecording
<1>1. Position + Ceiling \in Nat /\ Position < Position + Ceiling
    BY <1>0
<1>2. CASE Usable = {}
    BY <1>1, <1>2 DEF CutNear
<1>3. CASE Usable # {}
    <2>1. Usable \in SUBSET (0..(Position + Ceiling))
        BY <1>0 DEF Usable, Silence, Middle
    <2>2. \E m \in Usable : \A n \in Usable : n <= m
        BY <1>1, <1>3, <2>1, LastOf
    <2>3. CutNear \in Usable
        BY <1>3, <2>2, Zenon DEF CutNear
    <2>4. CutNear \in 0..(Position + Ceiling) /\ Position + MinPart <= CutNear
        BY <2>1, <2>3 DEF Usable
    <2> QED
        BY <1>0, <2>4
<1> QED
    BY <1>2, <1>3

\* Where the parts begin and end: they follow each other, overlap, and reach
\* from the start of the recording to its end.
LEMMA PartsFollow ==
    ASSUME ChunkIInv, NEW k \in 1..Parts
    PROVE  /\ StartOf(k) \in Nat /\ EndOf(k) \in Nat
           /\ StartOf(k) <= EndOf(k) /\ EndOf(k) <= recording.length
           /\ k = 1 => StartOf(k) = 0
           /\ k = Parts => EndOf(k) = recording.length
           /\ k < Parts =>
                 /\ 0 < EndOf(k)
                 /\ StartOf(k + 1) = IF EndOf(k) <= Overlap THEN 0 ELSE EndOf(k) - Overlap
           /\ \A j \in 1..Parts : j < k =>
                 /\ EndOf(j) < EndOf(k)
                 /\ StartOf(j) < StartOf(k) \/ (StartOf(j) = 0 /\ StartOf(k) = 0)
<1>0. /\ recording.length \in Nat /\ Overlap \in Nat
      /\ Len(cuts) \in Nat /\ Parts = Len(cuts) + 1
    BY OfTheRecording DEF Parts
<1>1. \A i \in 1..Len(cuts) :
          /\ cuts[i] \in Nat /\ 0 < cuts[i] /\ cuts[i] < recording.length
          /\ \A j \in 1..(i - 1) : cuts[j] < cuts[i]
    BY DEF ChunkIInv, CutsGoForwards
<1>2. \A i \in 1..Parts :
          /\ EndOf(i) = IF i < Parts THEN cuts[i] ELSE recording.length
          /\ StartOf(i) = IF i = 1 \/ cuts[i - 1] <= Overlap
                          THEN 0 ELSE cuts[i - 1] - Overlap
    BY DEF StartOf, EndOf
<1>3. \A i \in 1..Parts : i # 1 => i - 1 \in 1..Len(cuts)
    BY <1>0
<1>4. \A i \in 1..Parts : i < Parts => i \in 1..Len(cuts)
    BY <1>0
<1>5. /\ StartOf(k) \in Nat /\ EndOf(k) \in Nat
      /\ StartOf(k) <= EndOf(k) /\ EndOf(k) <= recording.length
    <2>1. CASE k = 1
        <3>1. k < Parts => k \in 1..Len(cuts)
            BY <1>4
        <3> QED
            BY <1>0, <1>1, <1>2, <2>1, <3>1
    <2>2. CASE k # 1 /\ k < Parts
        <3>1. k \in 1..Len(cuts) /\ k - 1 \in 1..Len(cuts) /\ k - 1 \in 1..(k - 1)
            BY <1>0, <2>2
        <3>2. cuts[k] \in Nat /\ cuts[k - 1] \in Nat /\ cuts[k - 1] < cuts[k]
            BY <1>1, <3>1
        <3>3. cuts[k] < recording.length
            BY <1>1, <3>1
        <3>4. k \in 1..Parts /\ k < Parts /\ k # 1
            BY <2>2
        <3>5. EndOf(k) = cuts[k]
            BY <1>2, <3>4
        <3> QED
            BY <1>0, <1>2, <3>2, <3>3, <3>4, <3>5
    <2>3. CASE k # 1 /\ ~(k < Parts)
        BY <1>0, <1>1, <1>2, <1>3, <2>3
    <2> QED
        BY <2>1, <2>2, <2>3
<1>6. ASSUME k < Parts
      PROVE  /\ 0 < EndOf(k)
             /\ StartOf(k + 1) = IF EndOf(k) <= Overlap THEN 0 ELSE EndOf(k) - Overlap
    <2>1. k + 1 \in 1..Parts /\ (k + 1) - 1 = k /\ k + 1 # 1 /\ k \in 1..Len(cuts)
        BY <1>0, <1>6
    <2> QED
        BY <1>1, <1>2, <1>6, <2>1
<1>7. ASSUME NEW j \in 1..Parts, j < k
      PROVE  /\ EndOf(j) < EndOf(k)
             /\ StartOf(j) < StartOf(k) \/ (StartOf(j) = 0 /\ StartOf(k) = 0)
    <2>1. j \in 1..Len(cuts) /\ j < Parts /\ k # 1 /\ k - 1 \in 1..Len(cuts)
        BY <1>0, <1>7
    <2>2. EndOf(j) < EndOf(k)
        <3>1. CASE k < Parts
            <4>1. k \in 1..Len(cuts) /\ j \in 1..(k - 1)
                BY <1>0, <1>7, <3>1
            <4> QED
                BY <1>1, <1>2, <2>1, <3>1, <4>1
        <3>2. CASE ~(k < Parts)
            BY <1>1, <1>2, <2>1, <3>2
        <3> QED
            BY <3>1, <3>2
    <2>3. CASE j = 1
        BY <1>0, <1>1, <1>2, <2>1, <2>3
    <2>4. CASE j # 1
        <3>1. j - 1 \in 1..Len(cuts) /\ j - 1 \in 1..((k - 1) - 1)
            BY <1>0, <1>7, <2>1, <2>4
        <3>2. cuts[j - 1] < cuts[k - 1] /\ cuts[j - 1] \in Nat /\ cuts[k - 1] \in Nat
            BY <1>1, <2>1, <3>1
        <3> QED
            BY <1>0, <1>2, <2>1, <2>2, <2>4, <3>2
    <2> QED
        BY <2>2, <2>3, <2>4
<1> QED
    BY <1>0, <1>2, <1>5, <1>6, <1>7

\* The seam is in the middle of what two parts share, rounded down.
LEMMA SeamBetween ==
    ASSUME ChunkIInv, NEW k \in 1..Parts, k < Parts
    PROVE  /\ Seam(k) \in Nat
           /\ StartOf(k + 1) \in Nat /\ StartOf(k + 1) <= EndOf(k)
           /\ 2 * Seam(k) <= StartOf(k + 1) + EndOf(k)
           /\ StartOf(k + 1) + EndOf(k) <= 2 * Seam(k) + 1
           /\ StartOf(k + 1) <= Seam(k) /\ Seam(k) <= EndOf(k)
<1>1. /\ EndOf(k) \in Nat
      /\ StartOf(k + 1) = IF EndOf(k) <= Overlap THEN 0 ELSE EndOf(k) - Overlap
      /\ Overlap \in Nat
    BY PartsFollow, OfTheRecording
<1>2. StartOf(k + 1) \in Nat /\ StartOf(k + 1) <= EndOf(k)
    BY <1>1
<1>3. StartOf(k + 1) + EndOf(k) \in Nat
    BY <1>1, <1>2
<1>4. \A n \in Nat : n \div 2 \in Nat /\ 2 * (n \div 2) <= n /\ n <= 2 * (n \div 2) + 1
    OBVIOUS
<1>5. /\ Seam(k) \in Nat
      /\ 2 * Seam(k) <= StartOf(k + 1) + EndOf(k)
      /\ StartOf(k + 1) + EndOf(k) <= 2 * Seam(k) + 1
    BY <1>3, <1>4, Zenon DEF Seam
<1> QED
    BY <1>1, <1>2, <1>5

\* The seams follow each other too.
LEMMA SeamsFollow ==
    ASSUME ChunkIInv, NEW j \in 1..Parts, NEW k \in 1..Parts, j <= k, k < Parts
    PROVE  Seam(j) <= Seam(k)
<1>1. CASE j = k
    BY <1>1, SeamBetween
<1>2. CASE j < k
    <2>1. j < Parts /\ j + 1 \in 1..Parts /\ k + 1 \in 1..Parts /\ j + 1 < k + 1
        BY <1>2, OfTheRecording
    <2>2. EndOf(j) \in Nat /\ EndOf(k) \in Nat /\ EndOf(j) < EndOf(k)
        BY <1>2, PartsFollow
    <2>3. StartOf(j + 1) \in Nat /\ StartOf(k + 1) \in Nat /\ StartOf(j + 1) <= StartOf(k + 1)
        BY <2>1, PartsFollow
    <2>4. /\ Seam(j) \in Nat /\ 2 * Seam(j) <= StartOf(j + 1) + EndOf(j)
          /\ Seam(k) \in Nat /\ StartOf(k + 1) + EndOf(k) <= 2 * Seam(k) + 1
        BY <2>1, SeamBetween
    <2> QED
        BY <2>2, <2>3, <2>4
<1> QED
    BY <1>1, <1>2

\* Every instant is on one part's side of its seams, and on one only.
LEMMA OnePartSpans ==
    ASSUME ChunkIInv, NEW t \in Nat
    PROVE  \E k \in 1..Parts : {j \in 1..Parts : Spans(j, t)} = {k}
<1>0. Parts \in Nat \ {0}
    BY OfTheRecording
<1> DEFINE S == {k \in 1..Parts : k = Parts \/ t < Seam(k)}
<1>1. S \in SUBSET Nat /\ Parts \in S
    BY <1>0
<1>2. PICK k \in S : \A j \in S : k <= j
    <2> HIDE DEF S
    <2> QED
        BY <1>1, LeastOf
<1>3. k \in 1..Parts /\ (k < Parts => t < Seam(k))
    BY <1>0, <1>2
<1>4. ASSUME k # 1
      PROVE  t >= Seam(k - 1)
    <2>1. k - 1 \in 1..Parts /\ k - 1 < Parts /\ k - 1 < k
        BY <1>0, <1>3, <1>4
    <2>2. k - 1 \notin S
        BY <1>2, <2>1
    <2>3. ~(t < Seam(k - 1))
        BY <2>1, <2>2
    <2> QED
        BY <2>1, <2>3, SeamBetween
<1>5. Spans(k, t)
    BY <1>3, <1>4 DEF Spans
<1>6. ASSUME NEW j \in 1..Parts, Spans(j, t)
      PROVE  j = k
    <2>1. CASE j < k
        <3>1. j < Parts
            BY <1>0, <1>3, <2>1
        <3>2. t < Seam(j)
            BY <1>6, <3>1 DEF Spans
        <3>3. j \in S
            BY <3>2
        <3>4. k <= j
            BY <1>2, <3>3
        <3> HIDE DEF S
        <3> QED
            BY <1>3, <2>1, <3>4
    <2>2. CASE k < j
        <3>1. j - 1 \in 1..Parts /\ j - 1 < Parts /\ k <= j - 1 /\ k < Parts /\ j # 1
            BY <1>0, <1>3, <2>2
        <3>2. Seam(k) <= Seam(j - 1) /\ Seam(k) \in Nat /\ Seam(j - 1) \in Nat
            BY <1>3, <3>1, SeamsFollow, SeamBetween
        <3>3. t >= Seam(j - 1) /\ t < Seam(k)
            BY <1>3, <1>6, <3>1 DEF Spans
        <3> QED
            BY <3>2, <3>3
    <2> QED
        BY <1>0, <1>3, <2>1, <2>2
<1> QED
    BY <1>3, <1>5, <1>6

\* ... and what a part keeps of an instant, it was sent.
LEMMA SpannedIsSent ==
    ASSUME ChunkIInv, NEW t \in Nat, t < recording.length, NEW k \in 1..Parts, Spans(k, t)
    PROVE  StartOf(k) <= t /\ t < EndOf(k)
<1>0. Parts \in Nat \ {0}
    BY OfTheRecording
<1>1. StartOf(k) <= t
    <2>1. CASE k = 1
        BY <2>1, PartsFollow
    <2>2. CASE k # 1
        <3>1. k - 1 \in 1..Parts /\ k - 1 < Parts /\ (k - 1) + 1 = k
            BY <1>0, <2>2
        <3>2. StartOf(k) <= Seam(k - 1) /\ StartOf(k) \in Nat /\ Seam(k - 1) \in Nat
            BY <3>1, SeamBetween
        <3> QED
            BY <2>2, <3>2 DEF Spans
    <2> QED
        BY <2>1, <2>2
<1>2. t < EndOf(k)
    <2>1. CASE k = Parts
        BY <2>1, PartsFollow
    <2>2. CASE k < Parts
        BY <2>2, SeamBetween, PartsFollow DEF Spans
    <2> QED
        BY <1>0, <2>1, <2>2
<1> QED
    BY <1>1, <1>2

\* No part is longer than the ceiling and what it repeats of the one before.
LEMMA PartsAreBounded ==
    ASSUME ChunkIInv, stage # "plan", NEW k \in 1..Parts
    PROVE  EndOf(k) - StartOf(k) <= Ceiling + Overlap
<1>0. /\ recording.length \in Nat /\ Overlap \in Nat /\ Ceiling \in Nat
      /\ Len(cuts) \in Nat /\ Parts = Len(cuts) + 1
    BY OfTheRecording DEF Parts
<1>1. /\ cuts \in Seq(Nat)
      /\ \A i \in 1..Len(cuts) : cuts[i] \in Nat
      /\ \A i \in 1..Len(cuts) :
            cuts[i] <= (IF i = 1 THEN 0 ELSE cuts[i - 1]) + Ceiling
    <2>1. cuts \in Seq(Nat)
        BY DEF ChunkIInv, CutsGoForwards
    <2>2. \A i \in 1..Len(cuts) :
            cuts[i] <= (IF i = 1 THEN 0 ELSE cuts[i - 1]) + Ceiling
        BY DEF ChunkIInv, CutsGoForwards
    <2> QED
        BY <2>1, <2>2
<1>2. recording.length <= Position + Ceiling
    <2>1. Remaining <= Ceiling
        BY DEF ChunkIInv, CutsGoForwards
    <2>2. Position \in Nat
        BY OfTheRecording
    <2> QED
        BY <1>0, <2>1, <2>2 DEF Remaining
<1> DEFINE before == IF k = 1 THEN 0 ELSE cuts[k - 1]
<1>3. before \in Nat
    <2>1. k # 1 => k - 1 \in 1..Len(cuts)
        BY <1>0
    <2> QED
        BY <1>1, <2>1
<1>4. StartOf(k) \in Nat /\ before <= StartOf(k) + Overlap
    BY <1>0, <1>3 DEF StartOf
<1>5. EndOf(k) \in Nat /\ EndOf(k) <= before + Ceiling
    <2>1. CASE k < Parts
        <3>1. k \in 1..Len(cuts)
            BY <1>0, <2>1
        <3> QED
            BY <1>1, <2>1, <3>1 DEF EndOf
    <2>2. CASE ~(k < Parts)
        <3>1. k - 1 = Len(cuts)
            BY <1>0, <2>2
        <3>2. before = Position
            BY <1>0, <1>1, <3>1 DEF Position
        <3> QED
            BY <1>0, <1>2, <2>2, <3>2 DEF EndOf
    <2> QED
        BY <2>1, <2>2
<1> HIDE DEF before
<1> QED
    BY <1>0, <1>3, <1>4, <1>5

LEMMA PlanIsCovering ==
    ASSUME ChunkIInv
    PROVE  PlanCovers
<1> SUFFICES ASSUME stage # "plan"
             PROVE  /\ \A t \in 0..(recording.length - 1) :
                          \E k \in 1..Parts :
                             /\ StartOf(k) <= t /\ t < EndOf(k)
                             /\ {j \in 1..Parts : Spans(j, t)} = {k}
                    /\ \A k \in 1..Parts : EndOf(k) - StartOf(k) <= Ceiling + Overlap
    BY DEF PlanCovers
<1>1. ASSUME NEW t \in 0..(recording.length - 1)
      PROVE  \E k \in 1..Parts :
                /\ StartOf(k) <= t /\ t < EndOf(k)
                /\ {j \in 1..Parts : Spans(j, t)} = {k}
    <2>1. t \in Nat /\ t < recording.length
        BY OfTheRecording
    <2>2. PICK k \in 1..Parts : {j \in 1..Parts : Spans(j, t)} = {k}
        BY <2>1, OnePartSpans
    <2>3. Spans(k, t)
        BY <2>2
    <2> QED
        BY <2>1, <2>2, <2>3, SpannedIsSent
<1> QED
    BY <1>1, PartsAreBounded

\* An utterance within a part, in the recording's own time.
FirstHeard(u, k) == IF u.from < StartOf(k) THEN StartOf(k) ELSE u.from
LastHeard(u, k) == IF u.to > EndOf(k) THEN EndOf(k) ELSE u.to
MiddleHeard(u, k) == (FirstHeard(u, k) + LastHeard(u, k)) \div 2

\* The segment of the transcript that it becomes.
Line(u, k, name) ==
    [part |-> k, says |-> u, speaker |-> IF Single THEN name[u.voice] ELSE Unnamed,
     from |-> FirstHeard(u, k), to |-> LastHeard(u, k)]

LEMMA HeardInTheRecording ==
    ASSUME ChunkIInv, NEW u \in recording.talk, NEW k \in 1..Parts
    PROVE  /\ FirstHeard(u, k) \in Nat /\ LastHeard(u, k) \in Nat
           /\ MiddleHeard(u, k) \in Nat
           /\ 2 * MiddleHeard(u, k) <= FirstHeard(u, k) + LastHeard(u, k)
           /\ FirstHeard(u, k) + LastHeard(u, k) <= 2 * MiddleHeard(u, k) + 1
<1>1. FirstHeard(u, k) \in Nat /\ LastHeard(u, k) \in Nat
    BY PartsFollow, OfTheRecording DEF FirstHeard, LastHeard
<1>2. \A n \in Nat : n \div 2 \in Nat /\ 2 * (n \div 2) <= n /\ n <= 2 * (n \div 2) + 1
    OBVIOUS
<1>3. FirstHeard(u, k) + LastHeard(u, k) \in Nat
    BY <1>1
<1> QED
    BY <1>1, <1>2, <1>3, Zenon DEF MiddleHeard

LEMMA MiddleOf ==
    ASSUME ChunkIInv, NEW u \in recording.talk
    PROVE  /\ Middle(u) \in Nat
           /\ 2 * Middle(u) <= u.from + u.to
           /\ u.from + u.to <= 2 * Middle(u) + 1
<1>1. u.from \in Nat /\ u.to \in Nat /\ u.from + u.to \in Nat
    BY OfTheRecording
<1>2. \A n \in Nat : n \div 2 \in Nat /\ 2 * (n \div 2) <= n /\ n <= 2 * (n \div 2) + 1
    OBVIOUS
<1> QED
    BY <1>1, <1>2, Zenon DEF Middle

\* A piece is timed from the start of its part; adding that start back gives
\* the time it was heard at.
LEMMA PiecesAreTyped ==
    ASSUME ChunkIInv, NEW u \in recording.talk, NEW k \in 1..Parts, NEW name \in Namings
    PROVE  /\ Piece(u, k, name) \in Pieces
           /\ Shifted(Piece(u, k, name)) =
                 [part |-> k, says |-> u, speaker |-> name[u.voice],
                  from |-> FirstHeard(u, k), to |-> LastHeard(u, k)]
           /\ Middle(Shifted(Piece(u, k, name))) = MiddleHeard(u, k)
           /\ Relabelled(Shifted(Piece(u, k, name))) = Line(u, k, name)
<1>1. /\ FirstHeard(u, k) \in Nat /\ LastHeard(u, k) \in Nat
      /\ StartOf(k) \in Nat /\ k \in Nat
    BY HeardInTheRecording, PartsFollow
<1>2. u \in Utterance /\ name[u.voice] \in Voices
    BY OfTheRecording DEF Namings
<1>3. Piece(u, k, name) =
          [part |-> k, says |-> u, speaker |-> name[u.voice],
           from |-> FirstHeard(u, k) - StartOf(k), to |-> LastHeard(u, k) - StartOf(k)]
    BY DEF Piece, FirstHeard, LastHeard
<1>4. Piece(u, k, name) \in Pieces
    BY <1>1, <1>2, <1>3 DEF Pieces
<1>5. /\ (FirstHeard(u, k) - StartOf(k)) + StartOf(k) = FirstHeard(u, k)
      /\ (LastHeard(u, k) - StartOf(k)) + StartOf(k) = LastHeard(u, k)
    BY <1>1
<1> DEFINE p == Piece(u, k, name)
           q == [part |-> k, says |-> u, speaker |-> name[u.voice],
                 from |-> FirstHeard(u, k), to |-> LastHeard(u, k)]
<1>6. Shifted(p) = q
    <2>1. p.part = k /\ p.from = FirstHeard(u, k) - StartOf(k)
          /\ p.to = LastHeard(u, k) - StartOf(k)
        BY <1>3
    <2>2. Shifted(p) = [p EXCEPT !.from = FirstHeard(u, k), !.to = LastHeard(u, k)]
        BY <1>5, <2>1 DEF Shifted
    <2>3. p \in Pieces /\ FirstHeard(u, k) \in Int /\ LastHeard(u, k) \in Int
          /\ p.says = u /\ p.speaker = name[u.voice]
        BY <1>1, <1>3, <1>4
    <2>4. q \in Pieces
        BY <1>1, <1>2 DEF Pieces
    <2> HIDE DEF p, q
    <2>5. /\ Shifted(p) \in Pieces
          /\ Shifted(p).part = k /\ Shifted(p).says = u /\ Shifted(p).speaker = name[u.voice]
          /\ Shifted(p).from = FirstHeard(u, k) /\ Shifted(p).to = LastHeard(u, k)
        BY <2>1, <2>2, <2>3 DEF Pieces
    <2>6. /\ q.part = k /\ q.says = u /\ q.speaker = name[u.voice]
          /\ q.from = FirstHeard(u, k) /\ q.to = LastHeard(u, k)
        BY DEF q
    <2> QED
        BY <2>4, <2>5, <2>6 DEF Pieces
<1>7. Middle(q) = MiddleHeard(u, k)
    BY DEF Middle, MiddleHeard
<1>8. Relabelled(q) = Line(u, k, name)
    BY DEF Relabelled, Line
<1> QED
    BY <1>4, <1>6, <1>7, <1>8

\* While the recording and the cuts stand, so do the parts and their seams.
LEMMA PartsStand ==
    ASSUME UNCHANGED <<recording, cuts>>
    PROVE  /\ Parts' = Parts /\ Position' = Position /\ Remaining' = Remaining
           /\ Single' = Single
           /\ \A k : StartOf(k)' = StartOf(k)
           /\ \A k : EndOf(k)' = EndOf(k)
           /\ \A k : Whole(k)' = Whole(k)
           /\ \A k : Torn(k)' = Torn(k)
           /\ \A u, k, name : Piece(u, k, name)' = Piece(u, k, name)
           /\ \A k, t : Spans(k, t)' = Spans(k, t)
           /\ \A s : Shifted(s)' = Shifted(s)
           /\ \A s : Relabelled(s)' = Relabelled(s)
<1>1. Parts' = Parts /\ Position' = Position /\ Remaining' = Remaining
    BY DEF Parts, Position, Remaining
<1>2. Single' = Single
    BY <1>1 DEF Single
<1>3. \A k : StartOf(k)' = StartOf(k)
    BY DEF StartOf
<1>4. \A k : EndOf(k)' = EndOf(k)
    BY <1>1 DEF EndOf
<1>5. \A k : Whole(k)' = Whole(k)
    BY <1>3, <1>4 DEF Whole
<1>6. \A k : Torn(k)' = Torn(k)
    BY <1>3, <1>4, <1>5 DEF Torn
<1>7. \A u, k, name : Piece(u, k, name)' = Piece(u, k, name)
    BY <1>3, <1>4 DEF Piece
<1>8. \A k : Seam(k)' = Seam(k)
    BY <1>3, <1>4 DEF Seam
<1>9. \A k, t : Spans(k, t)' = Spans(k, t)
    BY <1>1, <1>8 DEF Spans
<1>10. \A s : Shifted(s)' = Shifted(s)
    BY <1>3 DEF Shifted
<1>11. \A s : Relabelled(s)' = Relabelled(s)
    BY <1>2 DEF Relabelled
<1> QED
    BY <1>1, <1>2, <1>3, <1>4, <1>5, <1>6, <1>7, <1>9, <1>10, <1>11

LEMMA AnswerStands ==
    ASSUME UNCHANGED <<recording, cuts>>, NEW k, NEW torn \in SUBSET Torn(k), NEW name \in Namings,
           heard'[k] = {Piece(u, k, name) : u \in Whole(k) \cup torn}
    PROVE  Answered(k)'
<1>1. /\ Torn(k)' = Torn(k) /\ Whole(k)' = Whole(k)
      /\ \A u : Piece(u, k, name)' = Piece(u, k, name)
    BY PartsStand
<1>2. {Piece(u, k, name)' : u \in Whole(k) \cup torn} = {Piece(u, k, name) : u \in Whole(k) \cup torn}
    BY <1>1
<1>3. heard'[k] = {Piece(u, k, name)' : u \in Whole(k)' \cup torn}
    BY <1>1, <1>2
<1>4. torn \in SUBSET Torn(k)'
    BY <1>1
<1> QED
    BY <1>3, <1>4, Zenon DEF Answered

LEMMA AnswersStand ==
    ASSUME UNCHANGED <<recording, cuts>>, NEW k, Answered(k), heard'[k] = heard[k]
    PROVE  Answered(k)'
<1>1. PICK torn \in SUBSET Torn(k), name \in Namings :
          heard[k] = {Piece(u, k, name) : u \in Whole(k) \cup torn}
    BY Zenon DEF Answered
<1> QED
    BY <1>1, AnswerStands

LEMMA ChunkInvariantInit ==
    ASSUME ChunkInit
    PROVE  ChunkIInv
<1>1. cuts = <<>> /\ heard = <<>> /\ stage = "plan" /\ transcript = {} /\ recording \in Originals
    BY DEF ChunkInit
<1>2. Len(cuts) = 0 /\ Len(heard) = 0 /\ Parts = 1
    BY <1>1 DEF Parts
<1>3. CutsGoForwards
    BY <1>1, <1>2 DEF CutsGoForwards
<1>4. AnswersInOrder
    BY <1>1, <1>2 DEF AnswersInOrder
<1> QED
    BY <1>1, <1>3, <1>4 DEF ChunkIInv, KeptOfThem

LEMMA PlaceCutKeeps ==
    ASSUME ChunkIInv, PlaceCut
    PROVE  ChunkIInv'
<1>1. /\ stage = "plan" /\ stage' = stage /\ Remaining > Ceiling
      /\ cuts' = Append(cuts, CutNear)
      /\ UNCHANGED <<recording, heard, transcript>>
    BY DEF PlaceCut
<1>2. cuts \in Seq(Nat) /\ heard = <<>> /\ transcript = {} /\ recording \in Originals
    BY <1>1 DEF ChunkIInv, CutsGoForwards, AnswersInOrder, KeptOfThem
<1>3. /\ CutNear \in Nat /\ Position < CutNear /\ CutNear <= Position + Ceiling
      /\ Position \in Nat /\ Ceiling \in Nat /\ recording.length \in Nat
      /\ Len(cuts) \in Nat
    BY CutIsAhead, OfTheRecording
<1>4. CutNear < recording.length
    BY <1>1, <1>3 DEF Remaining
<1>5. /\ cuts' \in Seq(Nat) /\ Len(cuts') = Len(cuts) + 1
      /\ cuts'[Len(cuts) + 1] = CutNear
      /\ \A i \in 1..Len(cuts) : cuts'[i] = cuts[i]
    BY <1>1, <1>2, <1>3
<1>6. \A i \in 1..Len(cuts) :
          /\ 0 < cuts[i] /\ cuts[i] < recording.length
          /\ cuts[i] <= (IF i = 1 THEN 0 ELSE cuts[i - 1]) + Ceiling
          /\ \A j \in 1..(i - 1) : cuts[j] < cuts[i]
    BY DEF ChunkIInv, CutsGoForwards
<1>7. ASSUME NEW i \in 1..Len(cuts')
      PROVE  /\ 0 < cuts'[i] /\ cuts'[i] < recording.length
             /\ cuts'[i] <= (IF i = 1 THEN 0 ELSE cuts'[i - 1]) + Ceiling
             /\ \A j \in 1..(i - 1) : cuts'[j] < cuts'[i]
    <2>1. CASE i \in 1..Len(cuts)
        <3>1. \A j \in 1..(i - 1) : cuts'[j] = cuts[j]
            BY <1>3, <1>5, <2>1
        <3>2. i # 1 => cuts'[i - 1] = cuts[i - 1]
            BY <2>1, <3>1
        <3> QED
            BY <1>5, <1>6, <2>1, <3>1, <3>2
    <2>2. CASE i \notin 1..Len(cuts)
        <3>1. i = Len(cuts) + 1 /\ cuts'[i] = CutNear
            BY <1>3, <1>5, <2>2
        <3>2. (IF i = 1 THEN 0 ELSE cuts'[i - 1]) = Position
            <4>1. CASE i = 1
                <5>1. cuts = <<>>
                    BY <1>2, <3>1, <4>1
                <5> QED
                    BY <4>1, <5>1 DEF Position
            <4>2. CASE i # 1
                <5>1. cuts # <<>> /\ i - 1 = Len(cuts) /\ i - 1 \in 1..Len(cuts)
                    BY <1>2, <1>3, <3>1, <4>2
                <5> QED
                    BY <1>5, <4>2, <5>1 DEF Position
            <4> QED
                BY <4>1, <4>2
        <3>3. ASSUME NEW j \in 1..(i - 1)
              PROVE  cuts'[j] < CutNear
            <4>1. j \in 1..Len(cuts) /\ cuts # <<>> /\ Len(cuts) \in 1..Len(cuts)
                BY <1>2, <1>3, <3>1
            <4>2. Position = cuts[Len(cuts)] /\ cuts[j] \in Nat
                BY <1>2, <4>1 DEF Position
            <4>3. cuts[j] <= Position
                <5>1. CASE j = Len(cuts)
                    BY <1>3, <4>2, <5>1
                <5>2. CASE j # Len(cuts)
                    <6>1. j \in 1..(Len(cuts) - 1)
                        BY <1>3, <4>1, <5>2
                    <6>2. cuts[j] < cuts[Len(cuts)]
                        BY <1>6, <4>1, <6>1
                    <6>3. cuts[Len(cuts)] \in Nat
                        BY <1>2, <4>1
                    <6> QED
                        BY <4>2, <6>2, <6>3
                <5> QED
                    BY <5>1, <5>2
            <4> QED
                BY <1>3, <1>5, <4>1, <4>2, <4>3
        <3> QED
            BY <1>3, <1>4, <3>1, <3>2, <3>3
    <2> QED
        BY <2>1, <2>2
<1>8. CutsGoForwards'
    BY <1>1, <1>5, <1>7 DEF CutsGoForwards
<1>9. AnswersInOrder'
    <2>1. Len(heard') = 0 /\ Parts' \in Nat /\ heard' = <<>>
        BY <1>1, <1>2, <1>3, <1>5 DEF Parts
    <2> QED
        BY <2>1 DEF AnswersInOrder
<1> QED
    BY <1>1, <1>2, <1>8, <1>9 DEF ChunkIInv, KeptOfThem

LEMMA PlanDoneKeeps ==
    ASSUME ChunkIInv, PlanDone
    PROVE  ChunkIInv'
<1>1. /\ stage = "plan" /\ stage' = "submit" /\ Remaining <= Ceiling
      /\ UNCHANGED <<recording, cuts, heard, transcript>>
    BY DEF PlanDone
<1>2. heard = <<>> /\ transcript = {} /\ recording \in Originals
    BY <1>1 DEF ChunkIInv, AnswersInOrder, KeptOfThem
<1>3. Remaining' = Remaining /\ Parts' = Parts
    BY <1>1, PartsStand
<1>4. CutsGoForwards'
    BY <1>1, <1>3 DEF ChunkIInv, CutsGoForwards
<1>5. AnswersInOrder'
    BY <1>1, <1>2, <1>3 DEF ChunkIInv, AnswersInOrder
<1> QED
    BY <1>1, <1>2, <1>4, <1>5 DEF ChunkIInv, KeptOfThem

LEMMA SubmitPartKeeps ==
    ASSUME ChunkIInv, SubmitPart
    PROVE  ChunkIInv'
<1> DEFINE k == Len(heard) + 1
<1>1. /\ stage = "submit" /\ stage' = stage /\ k <= Parts
      /\ UNCHANGED <<recording, cuts, transcript>>
    BY DEF SubmitPart
<1>2. PICK torn \in SUBSET Torn(k), name \in Namings :
          heard' = Append(heard, {Piece(u, k, name) : u \in Whole(k) \cup torn})
    BY DEF SubmitPart
<1>3. heard \in Seq(SUBSET Pieces) /\ Len(heard) \in Nat /\ transcript = {}
      /\ Parts \in Nat /\ recording \in Originals
    BY <1>1, OfTheRecording DEF ChunkIInv, AnswersInOrder, KeptOfThem
<1>4. k \in 1..Parts /\ Whole(k) \cup torn \subseteq recording.talk
    BY <1>1, <1>3 DEF Whole, Torn
<1>5. {Piece(u, k, name) : u \in Whole(k) \cup torn} \in SUBSET Pieces
    <2>1. \A u \in Whole(k) \cup torn : Piece(u, k, name) \in Pieces
        BY <1>4, PiecesAreTyped
    <2> QED
        BY <2>1
<1>6. /\ heard' \in Seq(SUBSET Pieces) /\ Len(heard') = k
      /\ heard'[k] = {Piece(u, k, name) : u \in Whole(k) \cup torn}
      /\ \A j \in 1..Len(heard) : heard'[j] = heard[j]
    <2> DEFINE answer == {Piece(u, k, name) : u \in Whole(k) \cup torn}
    <2>1. answer \in SUBSET Pieces /\ heard' = Append(heard, answer)
        BY <1>2, <1>5
    <2> HIDE DEF answer
    <2>2. /\ heard' \in Seq(SUBSET Pieces) /\ Len(heard') = Len(heard) + 1
          /\ heard'[Len(heard) + 1] = answer
          /\ \A j \in 1..Len(heard) : heard'[j] = heard[j]
        BY <1>3, <2>1
    <2> QED
        BY <2>2 DEF answer
<1> HIDE DEF k
<1>7. \A j \in 1..Len(heard') : Answered(j)'
    <2> SUFFICES ASSUME NEW j \in 1..Len(heard') PROVE Answered(j)'
        OBVIOUS
    <2>2. CASE j = k
        <3>1. heard'[j] = {Piece(u, j, name) : u \in Whole(j) \cup torn} /\ torn \in SUBSET Torn(j)
            BY <1>6, <2>2
        <3> QED
            BY <1>1, <3>1, AnswerStands
    <2>3. CASE j # k
        <3>1. j \in 1..Len(heard)
            BY <1>3, <1>6, <2>3 DEF k
        <3>2. Answered(j) /\ heard'[j] = heard[j]
            BY <1>6, <3>1 DEF ChunkIInv, AnswersInOrder
        <3> QED
            BY <1>1, <3>2, AnswersStand
    <2> QED
        BY <2>2, <2>3
<1>8. AnswersInOrder'
    <2>1. Parts' = Parts
        BY <1>1, PartsStand
    <2> QED
        BY <1>1, <1>6, <1>7, <2>1 DEF AnswersInOrder
<1>9. CutsGoForwards'
    <2>1. Remaining' = Remaining
        BY <1>1, PartsStand
    <2> QED
        BY <1>1, <2>1 DEF ChunkIInv, CutsGoForwards
<1> QED
    BY <1>1, <1>3, <1>8, <1>9 DEF ChunkIInv, KeptOfThem

LEMMA StitchKeeps ==
    ASSUME ChunkIInv, Stitch
    PROVE  ChunkIInv'
<1>1. /\ stage = "submit" /\ stage' = "done" /\ Len(heard) = Parts
      /\ transcript' = UNION {{Relabelled(s) : s \in Kept(k)} : k \in 1..Parts}
      /\ UNCHANGED <<recording, cuts, heard>>
    BY DEF Stitch
<1>2. /\ Parts' = Parts /\ Remaining' = Remaining
      /\ \A s : Relabelled(s)' = Relabelled(s)
      /\ \A k : Torn(k)' = Torn(k) /\ Whole(k)' = Whole(k)
      /\ \A u, k, name : Piece(u, k, name)' = Piece(u, k, name)
    BY <1>1, PartsStand
<1>3. \A k : Kept(k)' = Kept(k)
    BY <1>1, PartsStand DEF Kept, Middle
<1>4. KeptOfThem'
    BY <1>1, <1>2, <1>3 DEF KeptOfThem
<1>5. CutsGoForwards'
    BY <1>1, <1>2 DEF ChunkIInv, CutsGoForwards
<1>6. \A k \in 1..Len(heard) : Answered(k)'
    BY <1>1, AnswersStand DEF ChunkIInv, AnswersInOrder
<1>7. AnswersInOrder'
    BY <1>1, <1>2, <1>6 DEF ChunkIInv, AnswersInOrder
<1> QED
    BY <1>1, <1>4, <1>5, <1>7 DEF ChunkIInv

LEMMA ChunkUnchanged ==
    ASSUME ChunkIInv, UNCHANGED cvars
    PROVE  ChunkIInv'
<1>1. UNCHANGED <<recording, stage, cuts, heard, transcript>>
    BY DEF cvars
<1>2. /\ Parts' = Parts /\ Remaining' = Remaining
      /\ \A s : Relabelled(s)' = Relabelled(s)
      /\ \A k : Torn(k)' = Torn(k) /\ Whole(k)' = Whole(k)
      /\ \A u, k, name : Piece(u, k, name)' = Piece(u, k, name)
    BY <1>1, PartsStand
<1>3. \A k : Kept(k)' = Kept(k)
    BY <1>1, PartsStand DEF Kept, Middle
<1>4. KeptOfThem'
    BY <1>1, <1>2, <1>3 DEF ChunkIInv, KeptOfThem
<1>5. CutsGoForwards'
    BY <1>1, <1>2 DEF ChunkIInv, CutsGoForwards
<1>6. \A k \in 1..Len(heard) : Answered(k)'
    BY <1>1, AnswersStand DEF ChunkIInv, AnswersInOrder
<1>7. AnswersInOrder'
    BY <1>1, <1>2, <1>6 DEF ChunkIInv, AnswersInOrder
<1> QED
    BY <1>1, <1>4, <1>5, <1>7 DEF ChunkIInv

LEMMA ChunkInvariant == ChunkSpec => []ChunkIInv
<1>1. ChunkInit => ChunkIInv
    BY ChunkInvariantInit
<1>2. ChunkIInv /\ [ChunkNext]_cvars => ChunkIInv'
    BY PlaceCutKeeps, PlanDoneKeeps, SubmitPartKeeps, StitchKeeps, ChunkUnchanged DEF ChunkNext
<1> QED
    BY <1>1, <1>2, PTL DEF ChunkSpec

\* The transcript, part by part: what the engine heard of each utterance and
\* the part's span keeps.
LEMMA LinesOfPart ==
    ASSUME ChunkIInv, stage = "done", NEW k \in 1..Parts
    PROVE  \E torn \in SUBSET Torn(k), name \in Namings :
              /\ heard[k] = {Piece(u, k, name) : u \in Whole(k) \cup torn}
              /\ {s \in transcript : s.part = k} =
                    {Line(u, k, name) : u \in {w \in Whole(k) \cup torn :
                                                  Spans(k, MiddleHeard(w, k))}}
<1>1. /\ \A j \in 1..Parts : Answered(j)
      /\ transcript = UNION {{Relabelled(s) : s \in Kept(j)} : j \in 1..Parts}
    BY DEF ChunkIInv, AnswersInOrder, KeptOfThem
<1>2. ASSUME NEW j \in 1..Parts, NEW torn \in SUBSET Torn(j), NEW name \in Namings,
             heard[j] = {Piece(u, j, name) : u \in Whole(j) \cup torn}
      PROVE  {Relabelled(s) : s \in Kept(j)} =
                {Line(u, j, name) : u \in {w \in Whole(j) \cup torn :
                                              Spans(j, MiddleHeard(w, j))}}
    <2>1. \A u \in Whole(j) \cup torn :
              /\ Middle(Shifted(Piece(u, j, name))) = MiddleHeard(u, j)
              /\ Relabelled(Shifted(Piece(u, j, name))) = Line(u, j, name)
        <3>1. \A u \in Whole(j) \cup torn : u \in recording.talk
            BY DEF Whole, Torn
        <3> QED
            BY <3>1, PiecesAreTyped
    <2>2. Kept(j) = {s \in {Shifted(p) : p \in {Piece(u, j, name) : u \in Whole(j) \cup torn}} :
                        Spans(j, Middle(s))}
        BY <1>2 DEF Kept
    <2>3. ASSUME NEW u \in Whole(j) \cup torn, Spans(j, MiddleHeard(u, j))
          PROVE  Line(u, j, name) \in {Relabelled(s) : s \in Kept(j)}
        <3>1. Shifted(Piece(u, j, name)) \in Kept(j)
            BY <2>1, <2>2, <2>3
        <3> QED
            BY <2>1, <3>1
    <2>4. ASSUME NEW s \in Kept(j)
          PROVE  \E u \in Whole(j) \cup torn :
                    Spans(j, MiddleHeard(u, j)) /\ Relabelled(s) = Line(u, j, name)
        <3>1. PICK u \in Whole(j) \cup torn : s = Shifted(Piece(u, j, name))
            BY <2>2
        <3>2. Spans(j, Middle(s))
            BY <2>2
        <3> QED
            BY <2>1, <3>1, <3>2
    <2> QED
        BY <2>3, <2>4
<1>3. ASSUME NEW j \in 1..Parts
      PROVE  \A s \in {Relabelled(r) : r \in Kept(j)} : s.part = j
    <2>1. PICK torn \in SUBSET Torn(j), name \in Namings :
              heard[j] = {Piece(u, j, name) : u \in Whole(j) \cup torn}
        BY <1>1, Zenon DEF Answered
    <2>2. {Relabelled(s) : s \in Kept(j)} =
              {Line(u, j, name) : u \in {w \in Whole(j) \cup torn :
                                            Spans(j, MiddleHeard(w, j))}}
        BY <1>2, <2>1
    <2>3. \A u : Line(u, j, name).part = j
        BY DEF Line
    <2> QED
        BY <2>2, <2>3
<1>4. {s \in transcript : s.part = k} = {Relabelled(s) : s \in Kept(k)}
    BY <1>1, <1>3
<1>5. PICK torn \in SUBSET Torn(k), name \in Namings :
          heard[k] = {Piece(u, k, name) : u \in Whole(k) \cup torn}
    BY <1>1, Zenon DEF Answered
<1>6. {s \in transcript : s.part = k} =
          {Line(u, k, name) : u \in {w \in Whole(k) \cup torn :
                                        Spans(k, MiddleHeard(w, k))}}
    BY <1>2, <1>4, <1>5
<1> QED
    BY <1>5, <1>6

\* A segment of the transcript is some part's.
LEMMA LinesAreOfParts ==
    ASSUME ChunkIInv, stage = "done", NEW s \in transcript
    PROVE  \E k \in 1..Parts : s.part = k
<1>1. /\ \A j \in 1..Parts : Answered(j)
      /\ transcript = UNION {{Relabelled(r) : r \in Kept(j)} : j \in 1..Parts}
    BY DEF ChunkIInv, AnswersInOrder, KeptOfThem
<1>2. PICK j \in 1..Parts : \E r \in Kept(j) : s = Relabelled(r)
    BY <1>1
<1>3. PICK torn \in SUBSET Torn(j), name \in Namings :
          heard[j] = {Piece(u, j, name) : u \in Whole(j) \cup torn}
    BY <1>1, Zenon DEF Answered
<1>4. PICK u \in Whole(j) \cup torn : s = Relabelled(Shifted(Piece(u, j, name)))
    BY <1>2, <1>3 DEF Kept
<1>5. s = Line(u, j, name)
    <2>1. u \in recording.talk
        BY DEF Whole, Torn
    <2> QED
        BY <1>4, <2>1, PiecesAreTyped
<1> QED
    BY <1>5 DEF Line

\* What a segment says, and when.
LEMMA LineIs ==
    ASSUME ChunkIInv, stage = "done", NEW s \in transcript
    PROVE  \E k \in 1..Parts, u \in recording.talk :
              /\ s.part = k /\ s.says = u
              /\ u \in Whole(k) \cup Torn(k)
              /\ s.from = FirstHeard(u, k) /\ s.to = LastHeard(u, k)
              /\ Spans(k, MiddleHeard(u, k))
<1>1. PICK k \in 1..Parts : s.part = k
    BY LinesAreOfParts
<1>2. PICK torn \in SUBSET Torn(k), name \in Namings :
          {r \in transcript : r.part = k} =
              {Line(u, k, name) : u \in {w \in Whole(k) \cup torn :
                                            Spans(k, MiddleHeard(w, k))}}
    BY LinesOfPart
<1>3. PICK u \in Whole(k) \cup torn : s = Line(u, k, name) /\ Spans(k, MiddleHeard(u, k))
    BY <1>1, <1>2
<1>4. u \in recording.talk /\ u \in Whole(k) \cup Torn(k)
    BY DEF Whole, Torn
<1>5. s.says = u /\ s.from = FirstHeard(u, k) /\ s.to = LastHeard(u, k)
    BY <1>3 DEF Line
<1> QED
    BY <1>1, <1>3, <1>4, <1>5

\* A part has one segment of an utterance at most.
LEMMA OneLineAPart ==
    ASSUME ChunkIInv, stage = "done", NEW s \in transcript, NEW t \in transcript,
           s.says = t.says, s.part = t.part
    PROVE  s = t
<1>1. PICK k \in 1..Parts : s.part = k
    BY LinesAreOfParts
<1>2. PICK torn \in SUBSET Torn(k), name \in Namings :
          {r \in transcript : r.part = k} =
              {Line(u, k, name) : u \in {w \in Whole(k) \cup torn :
                                            Spans(k, MiddleHeard(w, k))}}
    BY LinesOfPart
<1>3. PICK u : s = Line(u, k, name)
    BY <1>1, <1>2
<1>4. PICK w : t = Line(w, k, name)
    BY <1>1, <1>2
<1>5. s.says = u /\ t.says = w
    BY <1>3, <1>4 DEF Line
<1> QED
    BY <1>3, <1>4, <1>5

\* What a part heard of an utterance, and spans the middle of, is a segment.
LEMMA LineIsThere ==
    ASSUME ChunkIInv, stage = "done", NEW k \in 1..Parts, NEW p \in heard[k],
           Spans(k, MiddleHeard(p.says, k))
    PROVE  \E s \in transcript :
              /\ s.part = k /\ s.says = p.says
              /\ s.from = FirstHeard(p.says, k) /\ s.to = LastHeard(p.says, k)
<1>1. PICK torn \in SUBSET Torn(k), name \in Namings :
          /\ heard[k] = {Piece(u, k, name) : u \in Whole(k) \cup torn}
          /\ {r \in transcript : r.part = k} =
                 {Line(u, k, name) : u \in {w \in Whole(k) \cup torn :
                                               Spans(k, MiddleHeard(w, k))}}
    BY LinesOfPart
<1>2. PICK u \in Whole(k) \cup torn : p = Piece(u, k, name)
    BY <1>1
<1>3. p.says = u
    BY <1>2 DEF Piece
<1>4. Line(u, k, name) \in transcript
    BY <1>1, <1>3
<1>5. /\ Line(u, k, name).part = k /\ Line(u, k, name).says = u
      /\ Line(u, k, name).from = FirstHeard(u, k) /\ Line(u, k, name).to = LastHeard(u, k)
    BY DEF Line
<1> QED
    BY <1>3, <1>4, <1>5

\* Names are compared only within the one request there was.
LEMMA OneVoice ==
    ASSUME ChunkIInv
    PROVE  OneVoicePerName
<1> SUFFICES ASSUME NEW s \in transcript, NEW t \in transcript,
                    s.speaker # Unnamed, s.speaker = t.speaker
             PROVE  s.says.voice = t.says.voice
    BY DEF OneVoicePerName
<1>1. stage = "done"
    BY DEF ChunkIInv, KeptOfThem
<1>2. PICK k \in 1..Parts : s.part = k
    BY <1>1, LinesAreOfParts
<1>3. PICK torn \in SUBSET Torn(k), name \in Namings :
          {r \in transcript : r.part = k} =
              {Line(u, k, name) : u \in {w \in Whole(k) \cup torn :
                                            Spans(k, MiddleHeard(w, k))}}
    BY <1>1, LinesOfPart
<1>4. PICK u \in Whole(k) \cup torn : s = Line(u, k, name)
    BY <1>2, <1>3
<1>5. Single /\ s.speaker = name[u.voice] /\ s.says = u
    BY <1>4 DEF Line
<1>6. t.part = k
    <2>1. \E j \in 1..Parts : t.part = j
        BY <1>1, LinesAreOfParts
    <2> QED
        BY <1>5, <2>1 DEF Single
<1>7. PICK w \in Whole(k) \cup torn : t = Line(w, k, name)
    BY <1>3, <1>6
<1>8. t.speaker = name[w.voice] /\ t.says = w
    BY <1>5, <1>7 DEF Line
<1>9. u.voice \in Voices /\ w.voice \in Voices
    <2>1. u \in recording.talk /\ w \in recording.talk
        BY DEF Whole, Torn
    <2> QED
        BY <2>1, OfTheRecording
<1> QED
    BY <1>5, <1>8, <1>9 DEF Namings

\* What is said in less time than two parts overlap lies whole within the
\* part that spans its middle, and stops short of the end of what that part
\* shares with the next by enough for a rounded middle.
LEMMA ShortIsWhole ==
    ASSUME ChunkIInv, NEW u \in recording.talk, NEW k \in 1..Parts, Spans(k, Middle(u)),
           Single \/ u.to - u.from < Overlap
    PROVE  /\ u \in Whole(k)
           /\ k < Parts => /\ u.to < EndOf(k)
                           /\ u.from < StartOf(k + 1) => StartOf(k + 1) + u.to < 2 * Seam(k)
<1>0. /\ u.from \in Nat /\ u.to \in Nat /\ u.from <= u.to /\ u.to <= recording.length
      /\ recording.length \in Nat /\ Overlap \in Nat /\ Parts \in Nat \ {0}
    BY OfTheRecording
<1>1. /\ Middle(u) \in Nat /\ 2 * Middle(u) <= u.from + u.to
      /\ u.from + u.to <= 2 * Middle(u) + 1
    BY MiddleOf
<1>2. /\ StartOf(k) \in Nat /\ EndOf(k) \in Nat
      /\ k = 1 => StartOf(k) = 0
      /\ k = Parts => EndOf(k) = recording.length
    BY PartsFollow
<1>3. StartOf(k) <= u.from
    <2>1. CASE k = 1
        BY <1>0, <1>2, <2>1
    <2>2. CASE k # 1
        <3>1. k - 1 \in 1..Parts /\ k - 1 < Parts /\ (k - 1) + 1 = k
            BY <1>0, <2>2
        <3>2. /\ EndOf(k - 1) \in Nat
              /\ StartOf(k) = IF EndOf(k - 1) <= Overlap THEN 0 ELSE EndOf(k - 1) - Overlap
            BY <3>1, PartsFollow
        <3>3. Seam(k - 1) \in Nat /\ StartOf(k) + EndOf(k - 1) <= 2 * Seam(k - 1) + 1
            BY <3>1, SeamBetween
        <3>4. Middle(u) >= Seam(k - 1)
            BY <2>2 DEF Spans
        <3>5. u.to - u.from < Overlap
            BY <1>0, <2>2 DEF Single
        <3> QED
            BY <1>0, <1>1, <3>2, <3>3, <3>4, <3>5
    <2> QED
        BY <2>1, <2>2
<1>4. CASE k = Parts
    BY <1>0, <1>2, <1>3, <1>4 DEF Whole
<1>5. CASE k < Parts
    <2>1. /\ Seam(k) \in Nat /\ 2 * Seam(k) <= StartOf(k + 1) + EndOf(k)
          /\ StartOf(k + 1) + EndOf(k) <= 2 * Seam(k) + 1
        BY <1>5, SeamBetween
    <2>2. StartOf(k + 1) = IF EndOf(k) <= Overlap THEN 0 ELSE EndOf(k) - Overlap
        BY <1>5, PartsFollow
    <2>3. Middle(u) < Seam(k) /\ u.to - u.from < Overlap
        BY <1>0, <1>5 DEF Spans, Single
    <2>4. CASE EndOf(k) <= Overlap
        <3>1. u.to < EndOf(k)
            BY <1>0, <1>1, <1>2, <2>1, <2>2, <2>3, <2>4
        <3> QED
            BY <1>0, <1>2, <1>3, <1>5, <2>2, <2>4, <3>1 DEF Whole
    <2>5. CASE ~(EndOf(k) <= Overlap)
        <3>1. StartOf(k + 1) = EndOf(k) - Overlap
            BY <2>2, <2>5
        <3>2. u.to < EndOf(k)
            BY <1>0, <1>1, <1>2, <2>1, <2>3, <3>1
        <3>3. StartOf(k + 1) + u.to < 2 * Seam(k)
            BY <1>0, <1>1, <1>2, <2>1, <2>3, <3>1
        <3> QED
            BY <1>0, <1>2, <1>3, <1>5, <3>2, <3>3 DEF Whole
    <2> QED
        BY <2>4, <2>5
<1> QED
    BY <1>0, <1>4, <1>5

\* ... and no other part's span has the middle of what it heard of it.
LEMMA ShortIsKeptOnce ==
    ASSUME ChunkIInv, NEW u \in recording.talk, NEW k \in 1..Parts, Spans(k, Middle(u)),
           Single \/ u.to - u.from < Overlap,
           NEW j \in 1..Parts, u \in Whole(j) \cup Torn(j), Spans(j, MiddleHeard(u, j))
    PROVE  j = k
<1>0. /\ u.from \in Nat /\ u.to \in Nat /\ u.from <= u.to /\ Parts \in Nat \ {0}
      /\ j \in Nat /\ k \in Nat
    BY OfTheRecording
<1>1. /\ Middle(u) \in Nat /\ 2 * Middle(u) <= u.from + u.to
      /\ u.from + u.to <= 2 * Middle(u) + 1
    BY MiddleOf
<1>2. /\ u \in Whole(k)
      /\ k < Parts => /\ u.to < EndOf(k)
                      /\ u.from < StartOf(k + 1) => StartOf(k + 1) + u.to < 2 * Seam(k)
    BY ShortIsWhole
<1>3. StartOf(k) <= u.from /\ u.to <= EndOf(k) /\ StartOf(k) \in Nat /\ EndOf(k) \in Nat
    BY <1>2, PartsFollow DEF Whole
<1>4. /\ MiddleHeard(u, j) \in Nat /\ FirstHeard(u, j) \in Nat /\ LastHeard(u, j) \in Nat
      /\ 2 * MiddleHeard(u, j) <= FirstHeard(u, j) + LastHeard(u, j)
      /\ FirstHeard(u, j) + LastHeard(u, j) <= 2 * MiddleHeard(u, j) + 1
    BY HeardInTheRecording
<1>5. StartOf(j) \in Nat /\ EndOf(j) \in Nat
    BY PartsFollow
<1>6. FirstHeard(u, j) = (IF u.from < StartOf(j) THEN StartOf(j) ELSE u.from)
      /\ LastHeard(u, j) = (IF u.to > EndOf(j) THEN EndOf(j) ELSE u.to)
    BY DEF FirstHeard, LastHeard
<1>7. CASE k < j
    <2>1. /\ k < Parts /\ j - 1 \in 1..Parts /\ j - 1 < Parts /\ k <= j - 1
          /\ (j - 1) + 1 = j /\ j # 1 /\ k + 1 \in 1..Parts
        BY <1>0, <1>7
    <2>2. Middle(u) < Seam(k) /\ MiddleHeard(u, j) >= Seam(j - 1)
        BY <2>1 DEF Spans
    <2>3. /\ Seam(k) <= Seam(j - 1) /\ Seam(k) \in Nat /\ Seam(j - 1) \in Nat
          /\ StartOf(j) + EndOf(j - 1) <= 2 * Seam(j - 1) + 1
        BY <2>1, SeamsFollow, SeamBetween
    <2>4. LastHeard(u, j) <= u.to
        BY <1>0, <1>5, <1>6
    <2>5. CASE ~(u.from < StartOf(j))
        <3>1. FirstHeard(u, j) = u.from
            BY <1>6, <2>5
        <3> QED
            BY <1>0, <1>1, <1>4, <2>2, <2>3, <2>4, <3>1
    <2>6. CASE u.from < StartOf(j)
        <3>1. FirstHeard(u, j) = StartOf(j)
            BY <1>6, <2>6
        <3>2. CASE j - 1 = k
            <4>1. StartOf(j) + u.to < 2 * Seam(j - 1)
                BY <1>2, <2>1, <2>6, <3>2
            <4> QED
                BY <1>0, <1>4, <1>5, <2>2, <2>3, <2>4, <3>1, <4>1
        <3>3. CASE j - 1 # k
            <4>1. EndOf(k) < EndOf(j - 1) /\ EndOf(j - 1) \in Nat
                BY <1>0, <2>1, <3>3, PartsFollow
            <4>2. u.to < EndOf(k)
                BY <1>2, <2>1
            <4>3. StartOf(j) + u.to < 2 * Seam(j - 1)
                BY <1>0, <1>3, <1>5, <2>3, <4>1, <4>2
            <4> QED
                BY <1>0, <1>4, <1>5, <2>2, <2>3, <2>4, <3>1, <4>3
        <3> QED
            BY <3>2, <3>3
    <2> QED
        BY <2>5, <2>6
<1>8. CASE j < k
    <2>1. /\ j < Parts /\ k - 1 \in 1..Parts /\ k - 1 < Parts /\ j <= k - 1 /\ k # 1
          /\ (k - 1) + 1 = k /\ j + 1 \in 1..Parts
        BY <1>0, <1>8
    <2>2. Middle(u) >= Seam(k - 1) /\ MiddleHeard(u, j) < Seam(j)
        BY <2>1 DEF Spans
    <2>3. /\ Seam(j) <= Seam(k - 1) /\ Seam(j) \in Nat /\ Seam(k - 1) \in Nat
          /\ 2 * Seam(j) <= StartOf(j + 1) + EndOf(j)
        BY <2>1, SeamsFollow, SeamBetween
    <2>4. FirstHeard(u, j) >= u.from
        BY <1>0, <1>5, <1>6
    <2>5. CASE ~(u.to > EndOf(j))
        <3>1. LastHeard(u, j) = u.to
            BY <1>6, <2>5
        <3> QED
            BY <1>0, <1>1, <1>4, <2>2, <2>3, <2>4, <3>1
    <2>6. CASE u.to > EndOf(j)
        <3>1. LastHeard(u, j) = EndOf(j)
            BY <1>6, <2>6
        <3>2. StartOf(j + 1) <= StartOf(k) /\ StartOf(j + 1) \in Nat
            <4>1. CASE j + 1 = k
                BY <1>3, <4>1
            <4>2. CASE j + 1 # k
                <5>1. j + 1 < k
                    BY <1>0, <1>8, <4>2
                <5> QED
                    BY <2>1, <5>1, PartsFollow
            <4> QED
                BY <4>1, <4>2
        <3> QED
            BY <1>0, <1>3, <1>4, <1>5, <2>2, <2>3, <2>4, <3>1, <3>2
    <2> QED
        BY <2>5, <2>6
<1> QED
    BY <1>0, <1>7, <1>8

LEMMA OnceIsOnce ==
    ASSUME ChunkIInv
    PROVE  WordsComeBackOnce
<1> SUFFICES ASSUME stage = "done", NEW u \in recording.talk,
                    Single \/ u.to - u.from < Overlap
             PROVE  \E s \in transcript : LinesOf(u) = {s} /\ s.from = u.from /\ s.to = u.to
    BY DEF WordsComeBackOnce
<1>1. PICK k \in 1..Parts : Spans(k, Middle(u))
    <2>1. Middle(u) \in Nat
        BY MiddleOf
    <2>2. PICK k \in 1..Parts : {j \in 1..Parts : Spans(j, Middle(u))} = {k}
        BY <2>1, OnePartSpans
    <2> QED
        BY <2>2
<1>2. u \in Whole(k)
    BY <1>1, ShortIsWhole
<1>3. FirstHeard(u, k) = u.from /\ LastHeard(u, k) = u.to /\ MiddleHeard(u, k) = Middle(u)
    <2>1. /\ u.from \in Nat /\ u.to \in Nat /\ StartOf(k) \in Nat /\ EndOf(k) \in Nat
          /\ StartOf(k) <= u.from /\ u.to <= EndOf(k)
        BY <1>2, OfTheRecording, PartsFollow DEF Whole
    <2>2. FirstHeard(u, k) = u.from /\ LastHeard(u, k) = u.to
        BY <2>1 DEF FirstHeard, LastHeard
    <2> QED
        BY <2>2 DEF MiddleHeard, Middle
<1>4. PICK s \in transcript : s.says = u /\ s.from = u.from /\ s.to = u.to /\ s.part = k
    <2>1. PICK torn \in SUBSET Torn(k), name \in Namings :
              heard[k] = {Piece(w, k, name) : w \in Whole(k) \cup torn}
        BY LinesOfPart
    <2>2. Piece(u, k, name) \in heard[k] /\ Piece(u, k, name).says = u
        BY <1>2, <2>1 DEF Piece
    <2> QED
        BY <1>1, <1>3, <2>2, LineIsThere
<1>5. ASSUME NEW t \in transcript, t.says = u
      PROVE  t = s
    <2>1. PICK j \in 1..Parts, w \in recording.talk :
              /\ t.part = j /\ t.says = w
              /\ w \in Whole(j) \cup Torn(j)
              /\ Spans(j, MiddleHeard(w, j))
        BY LineIs
    <2>2. w = u
        BY <1>5, <2>1
    <2>3. j = k
        BY <1>1, <2>1, <2>2, ShortIsKeptOnce
    <2> QED
        BY <1>4, <1>5, <2>1, <2>3, OneLineAPart
<1> QED
    BY <1>4, <1>5 DEF LinesOf

\* Of any utterance, however long, some part has heard some and spans the
\* middle of what it heard: the first that does not leave it to the next.
LEMMA SomePartKeeps ==
    ASSUME ChunkIInv, NEW u \in recording.talk
    PROVE  \E k \in 1..Parts : /\ u \in Whole(k) \cup Torn(k)
                               /\ Spans(k, MiddleHeard(u, k))
<1>0. /\ u.from \in Nat /\ u.to \in Nat /\ u.from <= u.to /\ u.to <= recording.length
      /\ recording.length \in Nat /\ Parts \in Nat \ {0}
    BY OfTheRecording
<1> DEFINE S == {k \in 1..Parts : k = Parts \/ MiddleHeard(u, k) < Seam(k)}
<1>1. S \in SUBSET Nat /\ Parts \in S
    BY <1>0
<1>2. PICK k \in S : \A j \in S : k <= j
    <2> HIDE DEF S
    <2> QED
        BY <1>1, LeastOf
<1>3. k \in 1..Parts /\ (k < Parts => MiddleHeard(u, k) < Seam(k))
    BY <1>0, <1>2
<1>4. ASSUME k # 1
      PROVE  /\ k - 1 \in 1..Parts /\ k - 1 < Parts /\ (k - 1) + 1 = k
             /\ MiddleHeard(u, k - 1) >= Seam(k - 1)
    <2>1. k - 1 \in 1..Parts /\ k - 1 < Parts /\ (k - 1) + 1 = k /\ k - 1 < k
        BY <1>0, <1>3, <1>4
    <2>2. k - 1 \notin S
        BY <1>2, <1>3, <2>1
    <2>3. ~(MiddleHeard(u, k - 1) < Seam(k - 1))
        BY <2>1, <2>2
    <2>4. MiddleHeard(u, k - 1) \in Nat /\ Seam(k - 1) \in Nat
        BY <2>1, HeardInTheRecording, SeamBetween
    <2> QED
        BY <2>1, <2>3, <2>4
<1> HIDE DEF S
<1>5. \A j \in 1..Parts :
          /\ StartOf(j) \in Nat /\ EndOf(j) \in Nat /\ StartOf(j) <= EndOf(j)
          /\ FirstHeard(u, j) = (IF u.from < StartOf(j) THEN StartOf(j) ELSE u.from)
          /\ LastHeard(u, j) = (IF u.to > EndOf(j) THEN EndOf(j) ELSE u.to)
          /\ MiddleHeard(u, j) \in Nat
          /\ 2 * MiddleHeard(u, j) <= FirstHeard(u, j) + LastHeard(u, j)
          /\ FirstHeard(u, j) + LastHeard(u, j) <= 2 * MiddleHeard(u, j) + 1
    BY PartsFollow, HeardInTheRecording DEF FirstHeard, LastHeard
<1>6. ASSUME k # 1
      PROVE  /\ EndOf(k - 1) < EndOf(k)
             /\ StartOf(k - 1) < StartOf(k) \/ (StartOf(k - 1) = 0 /\ StartOf(k) = 0)
             /\ StartOf(k) <= Seam(k - 1) /\ Seam(k - 1) \in Nat
    <2>1. k - 1 \in 1..Parts /\ k - 1 < Parts /\ (k - 1) + 1 = k /\ k - 1 < k
        BY <1>0, <1>3, <1>4, <1>6
    <2> QED
        BY <1>3, <2>1, PartsFollow, SeamBetween
<1>7. Spans(k, MiddleHeard(u, k))
    <2>1. ASSUME k # 1
          PROVE  MiddleHeard(u, k) >= Seam(k - 1)
        <3>1. FirstHeard(u, k - 1) <= FirstHeard(u, k) /\ LastHeard(u, k - 1) <= LastHeard(u, k)
            BY <1>0, <1>3, <1>4, <1>5, <1>6, <2>1
        <3> QED
            BY <1>0, <1>3, <1>4, <1>5, <1>6, <2>1, <3>1
    <2>2. MiddleHeard(u, k) \in Nat
        BY <1>3, <1>5
    <2> QED
        BY <1>3, <2>1, <2>2 DEF Spans
<1>8. ASSUME ~(u.from < EndOf(k)), ~(StartOf(k) <= u.from /\ u.to <= EndOf(k))
      PROVE  FALSE
    <2>1. CASE k = Parts
        <3>1. EndOf(k) = recording.length
            BY <1>3, <2>1, PartsFollow
        <3> QED
            BY <1>0, <1>3, <1>5, <1>8, <3>1
    <2>2. CASE k < Parts
        <3>1. MiddleHeard(u, k) < Seam(k) /\ Seam(k) <= EndOf(k) /\ Seam(k) \in Nat
            BY <1>3, <2>2, SeamBetween
        <3>2. FirstHeard(u, k) >= EndOf(k) /\ LastHeard(u, k) >= EndOf(k)
            BY <1>0, <1>3, <1>5, <1>8
        <3> QED
            BY <1>0, <1>3, <1>5, <3>1, <3>2
    <2> QED
        BY <1>0, <1>3, <2>1, <2>2
<1>9. ASSUME ~(StartOf(k) < u.to), ~(StartOf(k) <= u.from /\ u.to <= EndOf(k))
      PROVE  FALSE
    <2>1. StartOf(k) \in Nat /\ StartOf(k) <= EndOf(k) /\ EndOf(k) \in Nat
        BY <1>3, <1>5
    <2>2. u.to <= StartOf(k) /\ u.from < StartOf(k)
        BY <1>0, <1>9, <2>1
    <2>3. k # 1
        BY <1>0, <1>3, <2>2, PartsFollow
    <2>4. StartOf(k - 1) < StartOf(k)
        BY <1>0, <1>6, <2>1, <2>2, <2>3
    <2>5. FirstHeard(u, k - 1) < StartOf(k) /\ LastHeard(u, k - 1) <= StartOf(k)
          /\ FirstHeard(u, k - 1) \in Nat /\ LastHeard(u, k - 1) \in Nat
        BY <1>0, <1>4, <1>5, <2>1, <2>2, <2>3, <2>4
    <2>6. MiddleHeard(u, k - 1) < StartOf(k)
        BY <1>4, <1>5, <2>1, <2>3, <2>5
    <2> QED
        BY <1>4, <1>5, <1>6, <2>1, <2>3, <2>6
<1>10. u \in Whole(k) \cup Torn(k)
    BY <1>8, <1>9 DEF Whole, Torn
<1> QED
    BY <1>3, <1>7, <1>10

LEMMA NoneIsLost ==
    ASSUME ChunkIInv
    PROVE  NothingIsLost
<1> SUFFICES ASSUME stage = "done", NEW u \in recording.talk,
                    \A k \in 1..Parts :
                        u \in Whole(k) \cup Torn(k) => \E p \in heard[k] : p.says = u
             PROVE  LinesOf(u) # {}
    BY DEF NothingIsLost
<1>1. PICK k \in 1..Parts : u \in Whole(k) \cup Torn(k) /\ Spans(k, MiddleHeard(u, k))
    BY SomePartKeeps
<1>2. PICK p \in heard[k] : p.says = u
    BY <1>1
<1>3. \E s \in transcript : s.says = u
    BY <1>1, <1>2, LineIsThere
<1> QED
    BY <1>3 DEF LinesOf

\* Every instant of a recording is on one part's side of its seams, and that
\* part was sent it; no part outlasts the ceiling and the overlap.
THEOREM PlansCover == ChunkSpec => []PlanCovers
<1>1. ChunkIInv => PlanCovers
    BY PlanIsCovering
<1> QED
    BY <1>1, ChunkInvariant, PTL

\* What is said in less time than two parts overlap comes back once, whole, and
\* where it was said, whatever the engine makes of the pieces of it.
THEOREM WordsAreKept == ChunkSpec => []WordsComeBackOnce
<1>1. ChunkIInv => WordsComeBackOnce
    BY OnceIsOnce
<1> QED
    BY <1>1, ChunkInvariant, PTL

\* Of anything that was said, however long, some part keeps what it heard, if
\* the engine gave what it heard: nothing falls down the gap.
THEOREM NothingFallsDownTheGap == ChunkSpec => []NothingIsLost
<1>1. ChunkIInv => NothingIsLost
    BY NoneIsLost
<1> QED
    BY <1>1, ChunkInvariant, PTL

\* A name in a transcript is one voice's.
THEOREM NamesAreVoices == ChunkSpec => []OneVoicePerName
<1>1. ChunkIInv => OneVoicePerName
    BY OneVoice
<1> QED
    BY <1>1, ChunkInvariant, PTL

\* What a plan and the transcript made from it hold together: the parts cover
\* the recording, nothing falls down the gap, and a name is one voice's.
THEOREM ChunksHoldTogether == ChunkSpec => []ChunkInv
<1>1. PlanCovers /\ NothingIsLost /\ OneVoicePerName => ChunkInv
    BY DEF ChunkInv
<1> QED
    BY <1>1, PlansCover, NothingFallsDownTheGap, NamesAreVoices, PTL
=============================================================================
