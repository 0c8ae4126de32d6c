------------------------------ MODULE MCPlayback ------------------------------
(* Player and RecordingPage for TLC, one beside the other: the page takes   *)
(* from the player which recording is loaded and the line being spoken, and *)
(* each is explored alone, whatever the other does.                         *)
EXTENDS Integers

CONSTANTS
    Recordings, NoRecording,
    End, MaxTasks, MaxMints, MaxErrors,     \* the player's
    Last, Panel, Half, Window               \* the page's sizes

ASSUME PlayerAssumption ==
    /\ NoRecording \notin Recordings
    /\ {End, MaxTasks, MaxMints} \subseteq Nat \ {0}
    /\ MaxErrors \in Nat

ASSUME PageAssumption ==
    /\ Last \in Nat /\ Half \in Nat
    /\ {Panel, Window} \subseteq Nat \ {0}

VARIABLES
    scene,      \* which of the two is explored
    store, media, mints, connected, errors, past,
    loaded, line, opened, following, column, fade, onScreen, drag

inPlayer == <<store, media, mints, connected, errors, past>>
onPage   == <<loaded, line, opened, following, column, fade, onScreen, drag>>
all      == <<scene, inPlayer, onPage>>

A == INSTANCE Player WITH Nothing <- NoRecording
P == INSTANCE RecordingPage WITH Nothing <- NoRecording, page <- opened

PlaybackInit == scene \in {"player", "page"} /\ A!Init /\ P!Init

Played == scene = "player" /\ A!Next /\ UNCHANGED <<scene, onPage>>
Shown  == scene = "page" /\ P!Next /\ UNCHANGED <<scene, inPlayer>>

PlaybackSpec ==
    /\ PlaybackInit /\ [][Played \/ Shown]_all
    /\ WF_inPlayer(scene = "player" /\ A!CanPlay) /\ WF_inPlayer(scene = "player" /\ A!Sounds)
    /\ WF_inPlayer(scene = "player" /\ A!Task) /\ WF_inPlayer(scene = "player" /\ A!Refusal)
    /\ \A r \in Recordings :
          WF_inPlayer(scene = "player" /\ (A!TokenComes(r) \/ A!TokenRefused(r)))
    /\ WF_onPage(scene = "page" /\ P!Frame)

\* What the player says of itself and what the page may show of it (audio.ts:113,
\* on-screen.ts:28): the sound is the bar's, and one surface draws it.
PlaybackInv == A!PlayerInv /\ P!PageInv

\* What Player states of the place in a recording (audio.ts:113).
PositionStands == A!PositionStands

\* What RecordingPage states of the page: who stops it following the transcript.
OnlyAPersonReleases == P!OnlyAPersonReleases

\* What must happen in the end: buffering gives way to sound, or to something a person
\* can act on (audio.ts:162), and the page catches up with the line being spoken.
ListeningGoesOn == A!BufferingEnds /\ P!KeepsUp
=============================================================================
