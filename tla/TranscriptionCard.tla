-------------------------- MODULE TranscriptionCard --------------------------
(***************************************************************************)
(* What a recording's page says of its transcription, out of three answers *)
(* read at three moments.                                                  *)
(*                                                                         *)
(* src/frontend/src/features/recording: the card or the transcript is      *)
(* drawn from the recording's own answer (RecordingView.tsx `Middle`),     *)
(* TranscriptionState.tsx asks for the status beside it and                *)
(* TranscriptVersions.tsx for the versions; transcription.ts reconciles    *)
(* the recording with the status, from either side.  Every query is sent,  *)
(* read and answered at moments of its own; one that is invalidated is     *)
(* sent again, and what was on its way is dropped.  A recording that cannot be read    *)
(* replaces the page and is left out; so are the destination, and the list *)
(* of versions, which is read beside the transcript and taken as current.  *)
(***************************************************************************)
EXTENDS Naturals, FiniteSets

CONSTANTS
    Unknown,      \* not asked for yet, or nothing on its way
    Sent,         \* on its way and not read yet
    Failed,       \* a transcript that could not be read
    MaxMade,      \* bound: transcripts made
    MaxAsked,     \* bound: transcriptions asked for, here and elsewhere
    MaxMishaps    \* bound: reads and answers that fail, and streams lost

VARIABLES
    jobs,      \* the instance: the states its transcription jobs are in
    made,      \* the instance: the transcripts made, 1 the oldest
    active,    \* the instance: the one shown, 0 none
    cache,     \* what each query last answered
    out,       \* what each query on its way has read
    asked,     \* the three buttons: "no", "sent", "done", "refused" or "settling"
    wanted,    \* the version the third asks for
    live,      \* whether the instance is telling this page what changed
    news,      \* an announcement on its way
    early,     \* history: the transcript was read before it was made, and the recording after
    starts, mishaps   \* counts against the bounds

instance == <<jobs, made, active>>
counts   == <<starts, mishaps>>
vars     == <<instance, cache, out, asked, wanted, live, news, early, counts>>

Queries == {"recording", "status", "transcript"}
Buttons == {"transcribe", "cancel", "activate"}
Quiet   == [q \in Queries |-> Unknown]

\* _state_of: an active transcript wins, then a job on its way, then one that failed.
State == IF active # 0 THEN "done"
         ELSE IF "running" \in jobs THEN "running"
         ELSE IF "failed" \in jobs THEN "failed" ELSE "none"

\* A transcript that is not there is an answer, 0, and not a failure.
Answer(q) == CASE q \in {"recording", "status"} -> State
               [] q = "transcript" -> active

\* The card, and with it the status, is on screen while there is no transcript.
Asks(c) == c.recording \notin {Unknown, "done"}
Mounted(c) == {q \in Queries : q = "status" => Asks(c)}

\* All of them hang under the recording's key, so what it invalidates is all that is mounted.
Reread(c) == [q \in Queries |-> IF q \in Mounted(c) THEN Sent ELSE Unknown]

\* A variant: the transition is nobody's to watch.
NeverFlips(c) == FALSE

\* useTranscriptionSettled: the recording's answer is another than the last.
Flips(c) == cache.recording \notin {Unknown, c.recording}

\* useTranscriptionStatus: the two are not the same, and one of them has just changed.
Disagrees(c) == Asks(c) /\ c.status \notin {Unknown, c.recording} /\ c # cache

Read(q) ==
    /\ out[q] = Sent /\ out' = [out EXCEPT ![q] = Answer(q)]
    /\ UNCHANGED <<instance, cache, asked, wanted, live, news, early, counts>>

Arrive(q) ==
    /\ out[q] \notin {Unknown, Sent}
    /\ LET c == [cache EXCEPT ![q] = out[q]] IN
         /\ cache' = c
         /\ out' = IF Flips(c) \/ Disagrees(c) THEN Reread(c)
                   ELSE [out EXCEPT ![q] = Unknown,
                                    !.status = IF q = "status" \/ ~Asks(c) THEN Unknown
                                               ELSE IF Asks(cache) THEN @ ELSE Sent]
    /\ UNCHANGED <<instance, asked, wanted, live, news, early, counts>>

\* What was drawn stays, except that a transcript that cannot be read is said to have failed.
ReadFails(q) ==
    /\ mishaps < MaxMishaps /\ mishaps' = mishaps + 1
    /\ q # "recording" /\ out[q] # Unknown
    /\ out' = [out EXCEPT ![q] = Unknown]
    /\ cache' = IF q = "transcript" THEN [cache EXCEPT ![q] = Failed] ELSE cache
    /\ UNCHANGED <<instance, asked, wanted, live, news, early, starts>>

\* The intervals, which stop while there is a stream.
Poll(q) ==
    /\ ~live /\ q \in {"recording", "status"} \cap Mounted(cache)
    /\ cache[q] = "running" /\ out[q] = Unknown
    /\ out' = [out EXCEPT ![q] = Sent]
    /\ UNCHANGED <<instance, cache, asked, wanted, live, news, early, counts>>

\* The window is looked at again, `Retry` is pressed under a transcript that failed.
Focus ==
    /\ out = Quiet /\ cache.recording # Unknown
    /\ out' \in {Reread(cache), [Quiet EXCEPT !.transcript = Sent]}
    /\ UNCHANGED <<instance, cache, asked, wanted, live, news, early, counts>>

(***************************************************************************)
(* The stream                                                              *)
(***************************************************************************)
Hear ==
    /\ live /\ news /\ news' = FALSE /\ out' = Reread(cache)
    /\ UNCHANGED <<instance, cache, asked, wanted, live, early, counts>>

Lose ==
    /\ live /\ mishaps < MaxMishaps /\ mishaps' = mishaps + 1
    /\ live' = FALSE /\ news' = FALSE
    /\ UNCHANGED <<instance, cache, out, asked, wanted, early, starts>>

\* Another connection than the first makes everything stale.
Connect ==
    /\ ~live /\ live' = TRUE /\ out' = Reread(cache)
    /\ UNCHANGED <<instance, cache, asked, wanted, news, early, counts>>

(***************************************************************************)
(* The buttons                                                             *)
(***************************************************************************)
\* `Transcribe` and `Retry` on the card, `Again` under the versions, `Cancel`, and `Show`.
Offered(b) ==
    CASE b = "transcribe" -> \/ cache.recording \in {"none", "failed"}
                             \/ cache.recording # Unknown /\ made > 0
      [] b = "cancel"     -> cache.recording = "running"
      [] b = "activate"   -> cache.recording # Unknown /\ made > 1

Press(b) ==
    /\ Offered(b) /\ asked[b] = "no"
    /\ b = "transcribe" => starts < MaxAsked
    /\ asked' = [asked EXCEPT ![b] = "sent"]
    /\ starts' = IF b = "transcribe" THEN starts + 1 ELSE starts
    /\ IF b = "activate" THEN wanted' \in (1..made) \ {cache.transcript}
       ELSE UNCHANGED wanted
    /\ UNCHANGED <<instance, cache, out, live, news, early, mishaps>>

Takes(b) == CASE b = "transcribe" -> "running" \notin jobs
              [] b = "cancel"     -> "running" \in jobs
              [] b = "activate"   -> TRUE

CarryOut(b) ==
    /\ asked[b] = "sent"
    /\ asked' = [asked EXCEPT ![b] = IF Takes(b) THEN "done" ELSE "refused"]
    /\ jobs' = IF ~Takes(b) THEN jobs
               ELSE CASE b = "transcribe" -> jobs \cup {"running"}
                      [] b = "cancel"     -> jobs \ {"running"}
                      [] b = "activate"   -> jobs
    /\ active' = IF b = "activate" THEN wanted ELSE active
    /\ UNCHANGED <<made, cache, out, wanted, live, news, early, counts>>

\* Every answer is read over, a 409 included; and the button waits for what is read.
Answered(b) ==
    /\ asked[b] \in {"done", "refused"}
    /\ asked' = [asked EXCEPT ![b] = "settling"]
    /\ out' = Reread(cache)
    /\ UNCHANGED <<instance, cache, wanted, live, news, early, counts>>

\* An answer that never comes is read over as well, except for the version's.
Unanswered(b) ==
    /\ asked[b] \in {"sent", "done"} /\ mishaps < MaxMishaps /\ mishaps' = mishaps + 1
    /\ asked' = [asked EXCEPT ![b] = "settling"]
    /\ out' = IF b = "activate" THEN out ELSE Reread(cache)
    /\ UNCHANGED <<instance, cache, wanted, live, news, early, starts>>

Settled(b) ==
    /\ asked[b] = "settling" /\ out = Quiet
    /\ asked' = [asked EXCEPT ![b] = "no"]
    /\ UNCHANGED <<instance, cache, out, wanted, live, news, early, counts>>

(***************************************************************************)
(* The instance                                                            *)
(***************************************************************************)
\* Somebody else asks for one.  What was asked for is not announced.
Starts ==
    /\ starts < MaxAsked /\ starts' = starts + 1
    /\ "running" \notin jobs /\ jobs' = jobs \cup {"running"}
    /\ UNCHANGED <<made, active, cache, out, asked, wanted, live, news, early, mishaps>>

\* Somebody else's cancellation is announced to nobody (worker.py:134).
Cancels ==
    /\ mishaps < MaxMishaps /\ mishaps' = mishaps + 1
    /\ "running" \in jobs /\ jobs' = jobs \ {"running"}
    /\ UNCHANGED <<made, active, cache, out, asked, wanted, live, news, early, starts>>

\* On the way in: the transcript has been read, and the recording has not.
TooSoon == /\ 0 \in {cache.transcript, out.transcript}
           /\ cache.recording = Unknown /\ out.recording = Sent

\* A job ends, with a transcript or without, and is announced.
Ends ==
    /\ "running" \in jobs
    /\ \/ jobs' = (jobs \ {"running"}) \cup {"failed"} /\ UNCHANGED <<made, active>>
       \/ /\ made < MaxMade /\ made' = made + 1 /\ active' = made + 1
          /\ jobs' = jobs \ {"running"}
    /\ news' = live
    /\ early' = (early \/ (made' # made /\ TooSoon))
    /\ UNCHANGED <<cache, out, asked, wanted, live, counts>>

Init ==
    /\ jobs \in {{}, {"running"}, {"failed"}} /\ made = 0 /\ active = 0
    /\ cache = Quiet
    /\ out = [q \in Queries |-> IF q = "status" THEN Unknown ELSE Sent]
    /\ asked = [b \in Buttons |-> "no"] /\ wanted = 0
    /\ live \in BOOLEAN /\ news = FALSE /\ early = FALSE
    /\ starts = 0 /\ mishaps = 0

Next ==
    \/ \E q \in Queries : Read(q) \/ Arrive(q) \/ ReadFails(q) \/ Poll(q)
    \/ Focus \/ Hear \/ Lose \/ Connect
    \/ \E b \in Buttons : Press(b) \/ CarryOut(b) \/ Answered(b) \/ Unanswered(b) \/ Settled(b)
    \/ Starts \/ Cancels \/ Ends

Spec == Init /\ [][Next]_vars

(***************************************************************************)
(* Properties                                                              *)
(***************************************************************************)
PollDue == ~live /\ \E q \in {"recording", "status"} \cap Mounted(cache) : cache[q] = "running"
AtRest  == out = Quiet /\ ~news /\ ~PollDue /\ \A b \in Buttons : asked[b] = "no"

TypeOK ==
    /\ jobs \subseteq {"running", "failed"} /\ active \in 0..made /\ made \in 0..MaxMade
    /\ asked \in [Buttons -> {"no", "sent", "done", "refused", "settling"}]
    /\ {live, news, early} \subseteq BOOLEAN

\* Once nothing is running, a page at rest tells one story, and with a stream the instance's: its
\* card and the status beside it name the same state, and a recording drawn as done has its
\* transcript -- unless, on the way in, the transcript was read before the job wrote it and the
\* recording after.
OneStory ==
    AtRest /\ mishaps = 0 /\ "running" \notin jobs =>
        /\ live => cache.recording = State
        /\ Asks(cache) => cache.status \in {Unknown, cache.recording}
        /\ cache.recording = "done" /\ cache.transcript = 0 => early

CardInv == TypeOK /\ OneStory

\* transcription.ts:72: "arriving at a recording whose card was stale means the first answer is
\* already `done`, with no transition to catch".  There is no status to compare a recording that
\* arrives done with, so a transcript missed on the way in stays missing.
DoneHasItsTranscript ==
    AtRest /\ mishaps = 0 /\ cache.recording = "done" => cache.transcript # 0
=============================================================================
