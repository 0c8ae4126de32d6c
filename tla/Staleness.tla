------------------------------- MODULE Staleness -------------------------------
(***************************************************************************)
(* What a write of the page's makes stale in the browser's cache: the keys *)
(* of api/keys.ts, the map of api/invalidate.ts from what happened to the  *)
(* keys it reaches, what each screen reads, and what each of the screens'  *)
(* writes changes on the instance.                                         *)
(*                                                                         *)
(* The queue of jobs is asked for every five seconds and is left out.  An  *)
(* edit's answer put into the cache, and the heart, are in module Edits;   *)
(* what somebody else writes is in module Changes.                         *)
(***************************************************************************)
EXTENDS SequencesExt

CONSTANTS
    Libraries, Subject,
    Held            \* the library it is in, or is moved from or to

Nowhere == "nowhere"

-----------------------------------------------------------------------------
(* Keys, narrower to the right *)

AllLibraries     == <<"libraries">>
Library(l)       == <<"libraries", l>>
Audio(l)         == <<"libraries", l, "audio">>
Shares(l)        == <<"libraries", l, "shares">>
Tree(l)          == <<"libraries", l, "categories">>
Detail           == <<"recordings", Subject>>
Transcription    == <<"recordings", Subject, "transcription">>
Transcripts      == <<"recordings", Subject, "transcripts">>
Favourites       == <<"every-recording", "favourite">>
Results          == <<"search", "results">>
TagsTyped        == <<"tags", "typed">>
TrashedAudio     == <<"trash", "audio">>
TrashedLibraries == <<"trash", "libraries">>
Me               == <<"me">>
Sessions         == <<"me", "sessions">>
Status           == <<"admin", "status">>
Provider         == <<"admin", "transcription">>
Users            == <<"admin", "users">>

Listed(l) == {Audio(l), Favourites, Results}
OfIt      == {Detail, Transcription, Transcripts}

\* Of a library the recording is not in only the list differs: it may come or go.
Queries ==
    {Library(Held), Shares(Held), Tree(Held)} \cup {Audio(l) : l \in Libraries} \cup OfIt \cup
    {AllLibraries, Favourites, Results, TagsTyped, TrashedAudio, TrashedLibraries, Me, Sessions,
     Status, Provider, Users}

\* What each screen reads, beside what the frame around it does.
Frame == {AllLibraries, TrashedAudio, TrashedLibraries, Me}
Reads(s) ==
    CASE s.name = "library"   -> {Library(s.of), Shares(s.of), Audio(s.of), Tree(s.of)}
      [] s.name = "settings"  -> {Library(s.of), Shares(s.of), Tree(s.of)}
      [] s.name = "recording" -> OfIt \cup {TagsTyped} \cup UNION {{Library(l), Tree(l)} : l \in Libraries}
      [] s.name = "favourites" -> {Favourites}
      [] s.name = "search"    -> {Results}
      [] s.name = "sessions"  -> {Sessions}
      [] s.name = "administration" -> {Users, Status, Provider}
      [] s.name = "home" -> {}
Everywhere == [name : {"library", "settings"}, of : Libraries]
              \cup [name : {"home", "recording", "favourites", "search", "sessions", "administration"},
                    of : {Nowhere}]
Reader == [q \in Queries |-> {s \in Everywhere : q \in Frame \cup Reads(s)}]

Shelf  == [name |-> "library", of |-> Held]

\* The ones that do not read the copy are alike, so home stands for them.
Screens == [q \in Queries |-> {s \in Everywhere : q \in Reads(s) \/ s.name \in {"home", "recording"} \/ s = Shelf}]

-----------------------------------------------------------------------------
(* What a write is told as, and what it changes *)

\* The key prefixes a change makes stale.
StaleAfter(kind, libraries) ==
    LET within == {Library(l) : l \in libraries}
        lists  == {<<"search">>, <<"every-recording">>} IN
    CASE kind = "library"             -> within \cup lists \cup {AllLibraries, <<"trash">>}
      [] kind = "recording"           -> within \cup lists \cup {Detail, <<"tags">>}
      [] kind = "recording-moved"     -> within \cup lists \cup {Detail, AllLibraries}
      [] kind = "recording-lifecycle" -> within \cup lists \cup {Detail, <<"trash">>, AllLibraries}
      [] kind = "trash-destroyed"     ->
             {<<"trash">>, AllLibraries, <<"recordings">>, <<"search">>, <<"tags">>, Status}
      [] kind = "upload"              -> within \cup lists \cup {AllLibraries}
      [] kind = "transcription"       -> lists \cup {Detail, AllLibraries}
      [] kind = "share"               -> {Shares(l) : l \in libraries} \cup {AllLibraries}
      [] kind = "account"             -> {Me}
      [] kind = "session"             -> {Sessions}
      [] kind = "administration"      -> {<<"admin">>}
      [] kind = "provider"            -> {}

\* What each kind of write changes and tells nobody of.
Overlooked(kind) ==
    CASE kind = "library"             -> {Detail, Transcription, Transcripts, TagsTyped, Status}
      [] kind = "recording-lifecycle" -> {TagsTyped, Status}
      [] kind = "upload"              -> {Status}
      [] kind = "transcription"       -> {Status}
      [] kind = "account"             -> {AllLibraries, Users, Detail, Provider, Status} \cup
                                         UNION {{Library(l), Shares(l)} : l \in Libraries}
      [] kind = "administration"      -> {Detail, Transcription} \cup UNION {Listed(l) : l \in Libraries}
      [] kind = "provider"            -> {Status}
      [] OTHER                        -> {}

Write(kind, libraries, changes) == [kind |-> kind, libraries |-> libraries, changes |-> changes]

CreateLibrary    == Write("library", {}, {AllLibraries, Status})
UpdateLibrary(l) == Write("library", {l}, {AllLibraries, Library(l)})
\* Trashed, restored or destroyed, with all it holds.
MoveLibrary(l)   == Write("library", {l}, {AllLibraries, Library(l), Shares(l), Tree(l), TagsTyped, Status,
                                           TrashedLibraries, TrashedAudio} \cup Listed(l) \cup OfIt)
EditTree(l)      == Write("library", {l}, {Tree(l), Detail} \cup Listed(l))
Share(l)         == Write("share", {l}, {Shares(l)})
Edit(l)          == Write("recording", {l}, {Detail, TagsTyped} \cup Listed(l))
MoveRecording(from, to) ==
    Write("recording-moved", {from, to},
          {Detail, AllLibraries, Library(from), Library(to)}
          \cup Listed(from) \cup Listed(to))
\* Trashed, restored or destroyed.
Turn(l)          == Write("recording-lifecycle", {l}, {AllLibraries, Library(l), TagsTyped, Status,
                                                       TrashedAudio} \cup Listed(l) \cup OfIt)
DestroyTrash     == Write("trash-destroyed", {}, {TrashedAudio, TrashedLibraries, TagsTyped, Status} \cup OfIt)
\* A selection is filed, tagged, moved or trashed: one change to the library it is in.
Bulk(l)          == Write("library", {l}, {AllLibraries, Library(l), Detail, TagsTyped, Status, TrashedAudio}
                                          \cup Listed(l))
Upload(l)        == Write("upload", {l}, {AllLibraries, Library(l), Audio(l), Results, Status})
Transcribe(l)    == Write("transcription", {}, OfIt \cup Listed(l) \cup {Status})
UpdateAccount    == Write("account", {}, {Me, Users, Detail, Provider, Status, AllLibraries}
                                         \cup UNION {{Library(l), Shares(l)} : l \in Libraries})
EndSessions      == Write("session", {}, {Sessions})
Account          == Write("administration", {}, {Users, Status})
JobAction(l)     == Write("administration", {}, {Status, Detail, Transcription} \cup Listed(l))
TestProvider     == Write("provider", {}, {Provider, Status})

WritesOf(l) == {UpdateLibrary(l), MoveLibrary(l), EditTree(l), Share(l), Bulk(l), Upload(l)} \cup
               (IF l = Held THEN {} ELSE {MoveRecording(Held, l), MoveRecording(l, Held)})
Writes ==
    {CreateLibrary, DestroyTrash, UpdateAccount, EndSessions, Account, TestProvider,
     Edit(Held), Turn(Held), Transcribe(Held), JobAction(Held)} \cup
    UNION {WritesOf(l) : l \in Libraries}

\* Of a write, what a copy can tell: whether it is changed, reached, overlooked or replaced; and
\* whether a failure is told as well.
ToCopy(w, q) ==
    [changes    |-> q \in w.changes,
     reaches    |-> \E k \in StaleAfter(w.kind, w.libraries) : IsPrefix(k, q),
     overlooked |-> q \in Overlooked(w.kind),
     replaces   |-> w.kind = "provider" /\ q = Provider,
     settles    |-> w.kind = "trash-destroyed"]
Felt     == [q \in Queries |-> {x \in {ToCopy(w, q) : w \in Writes} : x.changes \/ x.reaches}]
Trashing == [q \in Queries |-> ToCopy(Turn(Held), q)]
=============================================================================
