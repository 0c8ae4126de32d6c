-------------------------------- MODULE Player --------------------------------
(***************************************************************************)
(* The player (src/frontend/src/player/): one playback store, one audio    *)
(* element outside the components that is kept in step with it, and the    *)
(* surfaces that drive the two.                                             *)
(*                                                                         *)
(* Every change of the store runs the subscriber at once, so an operation  *)
(* of the store and what `apply` makes of it are one action.  What the     *)
(* element does, and each event it fires, is an action of its own: an      *)
(* event is a task, and tasks of the person come between.  load() throws   *)
(* the events of the old source away and refuses the play() that waited    *)
(* for it; that refusal is a microtask, so nothing comes before it.        *)
(*                                                                         *)
(* Abstractions.  A position is the start, a moment on the way or the end. *)
(* The rate, the duration and the title are left out: no guard reads them. *)
(* The element is the browser's and is modelled as the code uses it.       *)
(***************************************************************************)
EXTENDS Integers, Sequences, FiniteSets

CONSTANTS
    Recordings,
    Nothing,        \* no recording
    End,            \* the last position; the first is 0
    MaxTasks,       \* bound on the events a person gets ahead of
    MaxMints,       \* bound on the requests for a token in flight
    MaxErrors       \* bound on the sources that fail

VARIABLES
    store,      \* what the surfaces read
    media,      \* the element, and what audio.ts knows of it
    mints,      \* how many requests for a token of each recording are in flight
    connected,  \* whether the frame is mounted
    errors,     \* how many sources have failed
    past        \* history: what the properties make exceptions of

vars == <<store, media, mints, connected, errors, past>>

-----------------------------------------------------------------------------
Positions == 0..End
NoSeek == End + 1
Statuses == {"idle", "buffering", "playing", "paused", "failed"}
Events == {"tick", "playing", "waiting", "ended", "error"}

\* recording, status, positionMs and seekingToMs.
EMPTY == [recording |-> Nothing, status |-> "idle", position |-> 0, seeking |-> NoSeek]

\* `src` and `phase` are the element's source and how far it is with it;
\* `asked` says a play() waits for its answer, `refused` that one was refused
\* and has not been reported; `events` is what it has fired and nobody has
\* handled.  attachedTo and usingToken are audio.ts's own.
Unloaded == [src |-> Nothing, phase |-> "empty", paused |-> TRUE, at |-> 0,
             asked |-> FALSE, refused |-> FALSE, events |-> <<>>,
             attachedTo |-> Nothing, usingToken |-> FALSE]

Ended(m) == m.phase = "ready" /\ m.at = End
Sounding(m) == m.phase = "ready" /\ ~m.paused

-----------------------------------------------------------------------------
(* The element, as audio.ts uses it *)

Fire(m, e) == [m EXCEPT !.events = Append(@, e)]

\* A new source, or none: what was fired for the old one is thrown away, and
\* the play() that waited for it is refused.
Load(m, r) ==
    [m EXCEPT !.src = r, !.phase = IF r = Nothing THEN "empty" ELSE "loading",
              !.paused = TRUE, !.at = 0, !.events = <<>>,
              !.asked = FALSE, !.refused = @ \/ m.asked]

Pause(m) ==
    [Fire(m, "tick") EXCEPT !.paused = TRUE, !.asked = FALSE, !.refused = @ \/ m.asked]

\* A source that failed will not play; one at its end goes back to its start.
Started(m) ==
    CASE m.phase = "broken" -> [m EXCEPT !.refused = TRUE]
      [] m.phase = "ready"  -> [Fire(m, "playing") EXCEPT
                                  !.paused = FALSE, !.at = IF Ended(m) THEN 0 ELSE @]
      [] OTHER              -> [Fire(m, "waiting") EXCEPT !.paused = FALSE, !.asked = TRUE]

SoughtVariant(m, s) == m   \* a variant: a seek moves the handle and not the sound
Sought(m, s) ==
    IF s.seeking # NoSeek /\ s.seeking # m.at
    THEN IF m.phase = "ready"
         THEN [Fire(m, "tick") EXCEPT !.at = s.seeking]
         ELSE [m EXCEPT !.at = s.seeking]
    ELSE m

Attached(m, s) ==
    IF m.attachedTo = s.recording THEN m
    ELSE [Load(m, s.recording) EXCEPT !.attachedTo = s.recording, !.usingToken = FALSE]

InStepUpwards(m, s) ==   \* a variant: it is started and never paused
    IF s.status \in {"playing", "buffering"} /\ m.paused /\ ~Ended(m) THEN Started(m) ELSE m

\* Never play() an element that sits at its end.
InStep(m, s) ==
    LET shouldPlay == s.status \in {"playing", "buffering"}
    IN  CASE shouldPlay /\ m.paused /\ ~Ended(m) -> Started(m)
          [] ~shouldPlay /\ ~m.paused            -> Pause(m)
          [] OTHER                               -> m

Released(m) ==
    IF m.attachedTo = Nothing THEN m
    ELSE [Load(m, Nothing) EXCEPT !.attachedTo = Nothing, !.usingToken = FALSE]

\* Make the element be what the store says.
Applied(m, s) ==
    IF s.recording = Nothing THEN Released(m)
    ELSE LET n == Sought(Attached(m, s), s) IN InStep(n, s)

-----------------------------------------------------------------------------
(* The store *)

\* A refusal is a microtask: it comes before everything else.
Settled == ~media.refused
Free == Settled /\ Len(media.events) < MaxTasks

\* A token is on its way for another recording than this.
Overtakes(r) == \E q \in Recordings \ {r} : mints[q] > 0

\* Every change of the store ends here: the frame's subscriber runs.
Set(s) ==
    /\ store' = s
    /\ media' = IF connected THEN Applied(media, s) ELSE media
    /\ past' = [past EXCEPT !.overtaken = @ \/ Overtakes(s.recording)]

Resumed(s) == [s EXCEPT !.status = "playing"]
Seeking(s, p) == [s EXCEPT !.seeking = p, !.position = p]
Placed(s) == [s EXCEPT !.position = media.at, !.seeking = NoSeek]
Reported(s, status) == [s EXCEPT !.status = status]

Clamped(p) == IF p < 0 THEN 0 ELSE IF p > End THEN End ELSE p

\* The same recording, paused, is resumed; anything else starts over.
Playing(r) ==
    IF store.recording = r /\ store.status = "paused" THEN Resumed(store)
    ELSE [EMPTY EXCEPT !.recording = r, !.status = "buffering"]

Toggled ==
    CASE store.status = "playing"              -> Reported(store, "paused")
      [] store.status \in {"paused", "failed"} -> Resumed(store)
      [] OTHER                                 -> store

\* The bar plays a recording that failed again; the rest is the toggle.
Retried == IF store.status = "failed" THEN Playing(store.recording) ELSE Toggled

Nudged(d) == Seeking(store, Clamped(store.position + d))

\* What a person does next is done between two tasks.
Person == connected /\ Free /\ UNCHANGED <<mints, connected, errors>>

playerShowing == store.recording # Nothing /\ store.status # "idle"

-----------------------------------------------------------------------------
(* The surfaces *)

Skips == \E d \in {-1, 1} : Set(Nudged(d))

Places == \E p \in Positions : Set(Seeking(store, p))

\* Try again or toggle, and close.
Transport == Set(Retried) \/ Set(EMPTY)

\* The bar, with a place on its waveform and the two skips.
PlayerBar ==
    /\ Person /\ playerShowing
    /\ Transport \/ Places \/ Skips

\* The phone's strip, and what it is when it is opened: what opens it and puts
\* it away again is its own affair.
Expanded == Places \/ Skips
PhonePlayer == Person /\ playerShowing /\ (Transport \/ Expanded)

\* Toggled and skipped whatever is loaded, and when nothing is.
Keyboard == Person /\ (Set(Toggled) \/ Skips)

\* The system's own controls: its play and its pause both toggle.
MediaSession == Person /\ (Set(Toggled) \/ Skips)

\* A row or a card pauses what it started; anything else replaces it.
Row(r) == Person /\ Set(IF store.recording = r THEN Toggled ELSE Playing(r))

\* Seeking what is not loaded loads it first: the subscriber runs for both.
SeekTo(r, p) ==
    IF store.recording = r THEN Set(Seeking(store, p))
    ELSE LET loaded == Playing(r)
             sought == Seeking(loaded, p)
         IN  /\ store' = sought
             /\ media' = Applied(Applied(media, loaded), sought)
             /\ past' = [past EXCEPT !.overtaken = @ \/ Overtakes(r)]

\* A recording's own page.
RecordingPlayer(r) ==
    /\ Person
    /\ \/ Set(IF store.recording = r THEN Retried ELSE Playing(r))
       \/ \E p \in Positions : SeekTo(r, p)

\* A line of a transcript, or a match of a search.
Line(r) == Person /\ \E p \in Positions : SeekTo(r, p)

-----------------------------------------------------------------------------
(* What the element does of itself *)

Does(m) == /\ media' = m
           /\ UNCHANGED <<store, mints, connected, past>>

CanPlay ==
    /\ Free
    /\ media.phase = "loading"
    /\ LET ready == [media EXCEPT !.phase = "ready", !.asked = FALSE]
       IN  Does(IF media.paused THEN Fire(ready, "tick") ELSE Fire(ready, "playing"))
    /\ UNCHANGED errors

\* The source is not there, will not decode, or the cookie was not enough.
Breaks ==
    /\ Free /\ errors < MaxErrors
    /\ media.phase \in {"loading", "ready"}
    /\ Does([Fire(media, "error") EXCEPT !.phase = "broken", !.asked = FALSE,
                                         !.refused = media.asked])
    /\ errors' = errors + 1

\* A browser that does not let a page play without a press.
Forbids ==
    /\ Settled
    /\ media.asked
    /\ Does([media EXCEPT !.paused = TRUE, !.asked = FALSE, !.refused = TRUE])
    /\ UNCHANGED errors

Stalls ==
    /\ Free
    /\ Sounding(media) /\ media.at < End
    /\ Does([Fire(media, "waiting") EXCEPT !.phase = "loading"])
    /\ UNCHANGED errors

\* At its end it pauses itself and says so, one event after the other.
Sounds ==
    /\ Free
    /\ Sounding(media)
    /\ LET on == [media EXCEPT !.at = IF @ = End THEN End ELSE @ + 1]
       IN  Does(IF on.at = End THEN Fire(Fire([on EXCEPT !.paused = TRUE], "tick"), "ended")
                               ELSE on)
    /\ UNCHANGED errors

-----------------------------------------------------------------------------
(* What audio.ts hears *)

Handled == [media EXCEPT !.events = Tail(@)]
First == Head(media.events)

Hears(s) ==
    /\ store' = s
    /\ media' = Applied(Handled, s)
    /\ UNCHANGED <<mints, past>>

\* Once with a token, then give up and say so.
Recover ==
    IF store.recording = Nothing \/ media.usingToken
    THEN Hears(Reported(store, "failed"))
    ELSE /\ mints[store.recording] < MaxMints
         /\ mints' = [mints EXCEPT ![store.recording] = @ + 1]
         /\ media' = [Handled EXCEPT !.usingToken = TRUE]
         /\ UNCHANGED <<store, past>>

\* A frame that is not mounted hears nothing, and nobody else does.
Task ==
    /\ Settled /\ media.events # <<>>
    /\ IF ~connected THEN /\ media' = Handled
                          /\ past' = [past EXCEPT !.unheard = TRUE]
                          /\ UNCHANGED <<store, mints>>
       ELSE CASE First = "tick"    -> Hears(Placed(store))
              [] First = "playing" -> Hears(Reported(store, "playing"))
              [] First = "waiting" -> Hears(Reported(store, "buffering"))
              [] First = "ended"   -> Hears(Reported(store, "paused"))
              [] First = "error"   -> Recover
    /\ UNCHANGED <<connected, errors>>

\* Four times a second while it is not paused.
Interval ==
    /\ connected /\ Free
    /\ ~media.paused
    /\ Set(Placed(store))
    /\ UNCHANGED <<mints, connected, errors>>

\* The play() that was refused says so, whichever source it was for and
\* whether or not the frame is mounted.
Refusal ==
    /\ media.refused
    /\ LET told == [media EXCEPT !.refused = FALSE]
           failed == Reported(store, "failed")
       IN  /\ store' = failed
           /\ media' = IF connected THEN Applied(told, failed) ELSE told
    /\ UNCHANGED <<mints, connected, errors, past>>

\* A token came for a recording: it becomes the source and is started, without
\* another look at the store.
TokenComes(r) ==
    /\ Free
    /\ mints[r] > 0
    /\ mints' = [mints EXCEPT ![r] = @ - 1]
    /\ media' = Started(Load(media, r))
    /\ UNCHANGED <<store, connected, errors, past>>

TokenRefusedVariant(r) ==   \* a variant: nobody is told
    /\ Free
    /\ mints[r] > 0
    /\ mints' = [mints EXCEPT ![r] = @ - 1]
    /\ UNCHANGED <<store, media, connected, errors, past>>

TokenRefused(r) ==
    /\ Free
    /\ mints[r] > 0
    /\ mints' = [mints EXCEPT ![r] = @ - 1]
    /\ LET failed == Reported(store, "failed")
       IN  /\ store' = failed
           /\ media' = IF connected THEN Applied(media, failed) ELSE media
    /\ UNCHANGED <<connected, errors, past>>

-----------------------------------------------------------------------------
(* The frame and the page *)

\* Signing out unmounts the frame: the listeners go, the sound does not.
Disconnect ==
    /\ connected /\ Free
    /\ connected' = FALSE
    /\ UNCHANGED <<store, media, mints, errors, past>>

Connect ==
    /\ ~connected /\ Settled
    /\ connected' = TRUE
    /\ media' = Applied(media, store)
    /\ UNCHANGED <<store, mints, errors, past>>

-----------------------------------------------------------------------------
Init ==
    /\ store = EMPTY
    /\ media = Unloaded
    /\ mints = [r \in Recordings |-> 0]
    /\ connected = TRUE
    /\ errors = 0
    /\ past = [overtaken |-> FALSE, unheard |-> FALSE]

Next ==
    \/ PlayerBar \/ PhonePlayer \/ Keyboard \/ MediaSession
    \/ \E r \in Recordings : Row(r) \/ RecordingPlayer(r) \/ Line(r)
    \/ CanPlay \/ Breaks \/ Forbids \/ Stalls \/ Sounds
    \/ Task \/ Interval \/ Refusal
    \/ \E r \in Recordings : TokenComes(r) \/ TokenRefused(r)
    \/ Disconnect \/ Connect

Spec == Init /\ [][Next]_vars

\* The browser answers every load and every request, and runs its tasks.
Fairness ==
    /\ WF_vars(CanPlay) /\ WF_vars(Sounds) /\ WF_vars(Task) /\ WF_vars(Refusal)
    /\ \A r \in Recordings : WF_vars(TokenComes(r) \/ TokenRefused(r))

FairSpec == Spec /\ Fairness

-----------------------------------------------------------------------------
(* Properties *)

TypeOK ==
    /\ store \in [recording : Recordings \cup {Nothing}, status : Statuses,
                  position : Positions, seeking : Positions \cup {NoSeek}]
    /\ media \in [src : Recordings \cup {Nothing},
                  phase : {"empty", "loading", "ready", "broken"},
                  paused : BOOLEAN, at : Positions, asked : BOOLEAN, refused : BOOLEAN,
                  events : Seq(Events),
                  attachedTo : Recordings \cup {Nothing}, usingToken : BOOLEAN]
    /\ mints \in [Recordings -> 0..MaxMints]
    /\ connected \in BOOLEAN
    /\ errors \in 0..MaxErrors
    /\ past \in [overtaken : BOOLEAN, unheard : BOOLEAN]

\* What sounds is what the bar says, unless a token was on its way for another
\* recording when that changed (audio.ts:182).
SoundIsTheBars ==
    Sounding(media) => media.src = store.recording \/ past.overtaken

Quiet == connected /\ Settled /\ media.events = <<>>

\* Nothing on its way: what says it plays, plays, but for an element at its end,
\* and what sounds says it plays (audio.ts:154); whatever was overtaken, and
\* whatever a frame that was away did not hear.
InStepWithIt ==
    Quiet /\ store.recording # Nothing =>
        /\ store.status = "playing" => ~media.paused \/ media.at = End
        /\ Sounding(media) => store.status \in {"playing", "buffering"}

\* The player's own account of itself holds whatever a person, the element and the
\* token's request do first.
PlayerInv == TypeOK /\ SoundIsTheBars /\ InStepWithIt

\* What audio.ts:154 says of the transport: it never looks pressed and produces
\* silence.
PressedPlays ==
    Quiet /\ ~past.overtaken /\ ~past.unheard /\ store.recording # Nothing =>
        (store.status = "playing" => ~media.paused)

\* The position moves back only because somebody chose a place, started
\* something, or the source was loaded again with a token.
NoBounce ==
    [][store'.position < store.position =>
         \/ store'.seeking # NoSeek
         \/ store'.recording # store.recording
         \/ store'.status = "buffering"
         \/ media.usingToken \/ past.overtaken]_vars

\* An element that played to its end goes back to the start only when somebody
\* chose a place or the source is loaded again.
NeverStartsOver ==
    [][Ended(media) /\ media'.at < End =>
         store'.seeking # NoSeek \/ media'.phase # "ready"]_vars

\* A position is only ever given up for a cause.
PositionStands == NoBounce /\ NeverStartsOver

\* Buffering is not for ever: the recording plays, is paused or fails, unless
\* another is chosen or the frame goes.
BufferingEnds ==
    \A r \in Recordings :
        store.recording = r /\ store.status = "buffering" ~>
            store.recording # r \/ store.status # "buffering" \/ ~connected \/ past.unheard
            \/ media.at = End
=============================================================================
