----------------------------- MODULE RecordingPage -----------------------------
(***************************************************************************)
(* A recording's page (src/frontend/src/features/recording/): the column   *)
(* that holds the player panel and the transcript under it, the transcript *)
(* that follows the sound until somebody scrolls, and the one picture of   *)
(* the sound that two surfaces, the panel and the bar, take turns to draw. *)
(*                                                                         *)
(* Positions in the column are whole lines.  The panel is the first Panel  *)
(* of them.  A frame of the browser moves a smooth scroll by one line,     *)
(* hands out the scroll event and lets the fade be drawn: the three are    *)
(* one action, and a frame comes before any window of a frame count runs   *)
(* out.  A render and the effects it asks for come before the next event.  *)
(***************************************************************************)
EXTENDS Integers, FiniteSets

CONSTANTS
    Recordings,
    Nothing,
    Last,       \* the last line of a transcript; the first is 0
    Panel,      \* how many lines tall the player panel is
    Half,       \* how far down the middle of the column is
    Window      \* OWN_SCROLL_MS, in frames

VARIABLES
    loaded,     \* the recording the sound is of
    line,       \* the line of it being spoken
    page,       \* the recording that is open
    following,  \* whether the transcript keeps up with the sound
    column,     \* the scroller, and what use-follow.ts knows of it
    fade,       \* the panel as it was last drawn, and whether it said it is shown
    onScreen,   \* which recording is said to draw its own waveform
    drag        \* the pointer, and what the two waveforms make of it

vars == <<loaded, line, page, following, column, fade, onScreen, drag>>

-----------------------------------------------------------------------------
Lines == 0..Last
NoLine == -1
\* A full column under the panel, whatever is in it.
Bottom == IF Last > 2 * Half THEN Panel + Last - 2 * Half ELSE Panel
Still == -1                         \* no scroll is under way
Surfaces == {"bar", "detail"}

AtTop == [at |-> 0, target |-> Still, ours |-> 0, theirs |-> FALSE, astray |-> FALSE]
NoPanel == [opacity |-> "gone", shown |-> FALSE]
NoDrag == [held |-> "up", scrub |-> {}, preview |-> {}, lost |-> {}]

active == IF page # Nothing /\ page = loaded THEN line ELSE NoLine

-----------------------------------------------------------------------------
(* Following *)

\* Either the panel is left where it is or the lines are taken to the top.
Centre(i) ==
    LET offset == i + Panel - Half
    IN  IF offset < Panel THEN 0 ELSE IF offset > Bottom THEN Bottom ELSE offset

\* A scroll that would move nothing is not claimed, and one that is under way
\* to somewhere else goes on.
CentredOn(c, i) ==
    IF c.at = Centre(i) THEN [c EXCEPT !.astray = @ \/ c.target # Still]
    ELSE [c EXCEPT !.target = Centre(i), !.ours = Window, !.astray = FALSE]

\* What has become of the sound, the page and the following; the effect runs
\* when the line or the following is another.
Followed(l, i, p, f) ==
    LET now == IF p # Nothing /\ p = l THEN i ELSE NoLine
        changed == now # active \/ f # following
    IN  /\ loaded' = l /\ line' = i /\ page' = p /\ following' = f
        /\ column' = IF changed /\ f /\ now # NoLine THEN CentredOn(column, now) ELSE column

-----------------------------------------------------------------------------
(* The picture *)

Opacity(at) == IF at = 0 THEN "full" ELSE IF at < Panel THEN "dim" ELSE "gone"

show(r) == r
hide(r) == IF onScreen = r THEN Nothing ELSE onScreen

\* Taken from a quarter of the opacity up, given back once it is gone; in
\* between it stays with whoever has it.
Draw(at) ==
    LET o == Opacity(at)
    IN  /\ fade' = [opacity |-> o, shown |-> o = "full" \/ (fade.shown /\ o = "dim")]
        /\ onScreen' = CASE ~fade.shown /\ o = "full" -> show(page)
                         [] fade.shown /\ o = "gone"  -> hide(page)
                         [] OTHER                     -> onScreen

\* The bar has a shape unless the page has it.
BarDraws(l, s) == l # Nothing /\ s # l

\* An invisible panel is inert.
Draws(w) == IF w = "bar" THEN BarDraws(loaded, onScreen)
            ELSE page # Nothing /\ fade.opacity # "gone"

\* A waveform that is taken away takes its drag with it, but not the readout
\* that follows it: that one is its parent's.
Kept(gone) == [drag EXCEPT !.scrub = @ \ gone, !.lost = @ \cup (drag.scrub \cap gone)]

BarGone(l, s) == IF BarDraws(l, s) THEN {} ELSE {"bar"}

-----------------------------------------------------------------------------
(* A frame *)

Moved(c) == IF c.target > c.at THEN c.at + 1 ELSE c.at - 1

FrameFixed ==   \* a variant: the window is not opened again while it moves
    /\ column.target # Still \/ column.theirs \/ column.ours > 0
    /\ LET moving == column.target # Still
           at == IF moving THEN Moved(column) ELSE column.at
       IN  /\ column' = [column EXCEPT !.at = at, !.theirs = FALSE,
                            !.target = IF at = @ THEN Still ELSE @,
                            !.ours = IF @ = 0 THEN 0 ELSE @ - 1]
           /\ following' = (following /\ ~((moving \/ column.theirs) /\ column.ours = 0))
           /\ IF page # Nothing THEN Draw(at) ELSE UNCHANGED <<fade, onScreen>>
           /\ drag' = Kept(BarGone(loaded, onScreen'))
    /\ UNCHANGED <<loaded, line, page>>

\* A scroll event while the window is open is taken for ours, and opens it
\* again; any other releases.
Frame ==
    /\ column.target # Still \/ column.theirs \/ column.ours > 0
    /\ LET moving == column.target # Still
           event == moving \/ column.theirs
           at == IF moving THEN Moved(column) ELSE column.at
       IN  /\ column' = [column EXCEPT
                            !.at = at, !.theirs = FALSE,
                            !.target = IF at = @ THEN Still ELSE @,
                            !.ours = IF @ = 0 THEN 0 ELSE IF event THEN Window ELSE @ - 1,
                            !.astray = @ \/ (column.theirs /\ column.ours > 0)]
           /\ following' = (following /\ ~(event /\ column.ours = 0))
           /\ IF page # Nothing THEN Draw(at) ELSE UNCHANGED <<fade, onScreen>>
           /\ drag' = Kept(BarGone(loaded, onScreen'))
    /\ UNCHANGED <<loaded, line, page>>

-----------------------------------------------------------------------------
(* The person, and the sound *)

Scrolled(to) == [column EXCEPT !.at = to, !.target = Still, !.theirs = TRUE]

\* A wheel or a finger: they cannot be anything but a person.
Wheel(to) ==
    /\ page # Nothing /\ to # column.at
    /\ column' = Scrolled(to)
    /\ following' = FALSE
    /\ UNCHANGED <<loaded, line, page, fade, onScreen, drag>>

\* The scroll bar or a key: only the scroll event says so.
Thumb(to) ==
    /\ page # Nothing /\ to # column.at
    /\ column' = Scrolled(to)
    /\ UNCHANGED <<loaded, line, page, following, fade, onScreen, drag>>

\* The band that offers it back.
Resume ==
    /\ page # Nothing /\ ~following
    /\ Followed(loaded, line, page, TRUE)
    /\ UNCHANGED <<fade, onScreen, drag>>

\* A line of the transcript, loading its recording first.
SeekTo(i) ==
    /\ page # Nothing
    /\ Followed(page, i, page, TRUE)
    /\ drag' = Kept(BarGone(page, onScreen))
    /\ UNCHANGED <<fade, onScreen>>

\* The sound goes on to the next line, or a skip or a key takes it to another.
Speaks(i) ==
    /\ loaded # Nothing /\ i # line
    /\ Followed(loaded, i, page, following)
    /\ UNCHANGED <<fade, onScreen, drag>>

\* Another is played, from a list or a search, or none is.
Plays(r) ==
    /\ r # loaded
    /\ Followed(r, 0, page, following)
    /\ drag' = Kept(BarGone(r, onScreen))
    /\ UNCHANGED <<fade, onScreen>>

-----------------------------------------------------------------------------
(* The page *)

\* Unmounted: the panel hides its own, and its readout goes with it.
Leave ==
    /\ page # Nothing
    /\ page' = Nothing /\ following' = TRUE /\ column' = AtTop
    /\ UNCHANGED <<loaded, line>>
    /\ fade' = NoPanel
    /\ onScreen' = hide(page)
    /\ drag' = [Kept({"detail"} \cup BarGone(loaded, onScreen')) EXCEPT
                    !.preview = @ \ {"detail"}, !.lost = @ \ {"detail"}]

\* Mounted at the top of its column.
Open(r) ==
    /\ page = Nothing
    /\ page' = r /\ following' = TRUE
    /\ UNCHANGED <<loaded, line>>
    /\ column' = IF r = loaded THEN CentredOn(AtTop, line) ELSE AtTop
    /\ fade' = [opacity |-> "full", shown |-> TRUE]
    /\ onScreen' = show(r)
    /\ drag' = Kept(BarGone(loaded, onScreen'))

\* From one that is open to one that is held: nothing is unmounted, the panel
\* hides the one and shows the other from where the column is.
Replace(r) ==
    /\ page # Nothing /\ r # page
    /\ Followed(loaded, line, r, following)
    /\ LET o == Opacity(column.at)
           hidden == hide(page)
       IN  /\ fade' = [opacity |-> o, shown |-> o = "full"]
           /\ onScreen' = IF o = "full" THEN show(r) ELSE hidden
    /\ drag' = Kept(BarGone(loaded, onScreen'))

-----------------------------------------------------------------------------
(* A drag on a waveform *)

StartScrub(w) ==
    /\ drag.held = "up" /\ Draws(w)
    /\ drag' = [held |-> w, scrub |-> drag.scrub \cup {w}, preview |-> drag.preview \cup {w},
                lost |-> drag.lost \ {w}]
    /\ UNCHANGED <<loaded, line, page, following, column, fade, onScreen>>

Dropped(w) == [drag EXCEPT !.held = "up", !.scrub = @ \ {w}, !.preview = @ \ {w}]

\* Let go: the seek is asked for where the drag was, if there still is one.
EndScrub(w) ==
    /\ drag.held = w
    /\ IF w \notin drag.scrub
       THEN /\ drag' = [drag EXCEPT !.held = "up"]
            /\ UNCHANGED <<loaded, line, page, following, column>>
       ELSE /\ \E i \in Lines :
                  Followed(IF w = "bar" THEN loaded ELSE page, i, page, following)
            /\ drag' = [Dropped(w) EXCEPT
                          !.scrub = @ \ BarGone(loaded', onScreen)]
    /\ UNCHANGED <<fade, onScreen>>

\* The system took it away: it asked for no seek.
CancelScrub(w) ==
    /\ drag.held = w
    /\ drag' = IF w \in drag.scrub THEN Dropped(w) ELSE [drag EXCEPT !.held = "up"]
    /\ UNCHANGED <<loaded, line, page, following, column, fade, onScreen>>

-----------------------------------------------------------------------------
Init ==
    /\ loaded = Nothing /\ line = 0 /\ page = Nothing
    /\ following = TRUE
    /\ column = AtTop
    /\ fade = NoPanel /\ onScreen = Nothing
    /\ drag = NoDrag

Next ==
    \/ Frame
    \/ \E to \in 0..Bottom : Wheel(to) \/ Thumb(to)
    \/ Resume
    \/ \E i \in Lines : Speaks(i) \/ SeekTo(i)
    \/ \E r \in Recordings \cup {Nothing} : Plays(r)
    \/ \E r \in Recordings : Open(r) \/ Replace(r)
    \/ Leave
    \/ \E w \in Surfaces : StartScrub(w) \/ EndScrub(w) \/ CancelScrub(w)

Spec == Init /\ [][Next]_vars

\* The browser draws frames.
FairSpec == Spec /\ WF_vars(Frame)

-----------------------------------------------------------------------------
(* Properties *)

TypeOK ==
    /\ loaded \in Recordings \cup {Nothing} /\ line \in Lines
    /\ page \in Recordings \cup {Nothing}
    /\ following \in BOOLEAN
    /\ column \in [at : 0..Bottom, target : 0..Bottom \cup {Still}, ours : 0..Window,
                   theirs : BOOLEAN, astray : BOOLEAN]
    /\ fade \in [opacity : {"full", "dim", "gone"}, shown : BOOLEAN]
    /\ onScreen \in Recordings \cup {Nothing}
    /\ drag \in [held : Surfaces \cup {"up"}, scrub : SUBSET Surfaces,
                 preview : SUBSET Surfaces, lost : SUBSET Surfaces]

\* One surface draws the sound's shape: the page while its panel can be seen,
\* the bar once it is gone, whichever recordings were opened and played before;
\* and no page that was left still claims the picture.
OneShape ==
    /\ onScreen # Nothing => onScreen = page
    /\ page # Nothing => /\ fade.opacity = "full" => onScreen = page
                         /\ fade.opacity = "gone" => onScreen # page

\* The transcript stops following for a person and for nothing it did itself.
OnlyAPersonReleases ==
    [][following /\ ~following' => column.theirs \/ column'.theirs]_vars

\* Once released it moves nothing: no scroll of ours is under way.
ReleasedIsStill == ~following => column.target = Still

\* A readout outlives its drag only when the waveform was taken from under it.
ReadoutIsTheDrags == \A w \in drag.preview : drag.held = w \/ w \in drag.lost

\* What a page may show, whichever recordings are opened, played, dragged on and
\* left (use-waveform-fade.ts, use-follow.ts, Waveform.tsx).
PageInv == TypeOK /\ OneShape /\ ReleasedIsStill /\ ReadoutIsTheDrags

\* What Waveform.tsx:126 says of the preview: where a drag is, while it is
\* still a drag.
PreviewIsADrag == \A w \in drag.preview : drag.held = w

\* While it follows, the line being spoken comes to the middle of the column,
\* unless somebody's scroll was taken for its own, or the column passed the line
\* at that moment on its way to another.
KeepsUp ==
    \A i \in Lines :
        following /\ active = i ~>
            ~following \/ active # i \/ column.at = Centre(i) \/ column.astray
=============================================================================
