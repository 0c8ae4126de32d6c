-------------------------------- MODULE Edits --------------------------------
(***************************************************************************)
(* Correcting a recording from its page, and marking it: what the instance *)
(* holds, the copy the page draws, and the requests between them.          *)
(*                                                                         *)
(* src/frontend/src/features/recording: metadata.ts sends each field as it *)
(* is left, MetadataPanel.tsx and TagEditor.tsx decide what is sent, and   *)
(* InlineField.tsx (design-system) holds a draft.  app/hooks/              *)
(* use-favourite.ts marks every cached copy at once and sends the marks    *)
(* one at a time.  The player keeps a title of its own (player/store.ts).  *)
(* A refetch is two steps, what the instance read and its arrival; a       *)
(* write, a mark too, is two: what the instance did and its answer.  Notes *)
(* and the category are written the way the title is and are left out.     *)
(***************************************************************************)
EXTENDS Integers, Sequences, FiniteSets

CONSTANTS
    Titles,
    Tags,
    FirstTitle,
    Nothing,
    MaxWrites,    \* bound: fields sent
    MaxMarks,     \* bound: presses of the heart
    MaxEdits,     \* bound: the two together
    MaxMishaps    \* bound: changes made elsewhere, refusals, and answers lost

VARIABLES
    held,     \* the recording as the instance holds it
    seen,     \* the recording as it is cached, which is what every view draws
    stale,    \* whether the cached copy is known to be out of date
    reading,  \* the refetch in flight: what it read, or nothing
    field,    \* the title's field: what is drafted, or nothing
    patches,  \* the fields sent and not answered
    hearts,   \* the marks pressed and not answered, in the order of the presses
    title,    \* the title the player says
    pressed,  \* history: what the last press of the heart asked for
    sent, marked, mishaps   \* counts against the bounds

counts  == <<sent, marked, mishaps>>
editVars == <<held, seen, stale, reading, field, patches, hearts, title, pressed, counts>>

\* A recording, and of how many presses of the heart it tells (history); in a copy, also how many
\* there had been when it was asked for.
Recording == [title : Titles, tags : SUBSET Tags, mark : BOOLEAN, upTo : Nat, of : Nat]

\* A copy that tells of fewer presses than had been made when it landed.
Early(copy) == copy.upTo < copy.of

Read == [held EXCEPT !.of = marked]
AtRest    == patches = {} /\ hearts = << >> /\ reading = Nothing

(***************************************************************************)
(* The cache                                                               *)
(***************************************************************************)
\* A view that mounts, an interval, or an announcement reads it again.
Refetch ==
    /\ reading = Nothing
    /\ reading' = Read
    /\ UNCHANGED <<held, seen, stale, field, patches, hearts, title, pressed, counts>>

Arrive ==
    /\ reading # Nothing
    /\ seen' = reading /\ stale' = FALSE /\ reading' = Nothing
    /\ UNCHANGED <<held, field, patches, hearts, title, pressed, counts>>

(***************************************************************************)
(* A field of the panel                                                    *)
(***************************************************************************)
\* History: whether nothing else was changing the recording, and the copy was up to date.
Alone == patches = {} /\ ~stale /\ seen.tags = held.tags /\ mishaps = 0

\* A patch: the fields it names, `cut` the tags it was sent to take off, and `typed` whether a
\* person wrote what it sends.
Patch(title_, tags_, cut, typed) ==
    /\ sent < MaxWrites /\ sent + marked < MaxEdits /\ sent' = sent + 1
    /\ patches' = {[p EXCEPT !.alone = FALSE] : p \in patches} \cup
         {[id |-> sent, title |-> title_, tags |-> tags_, cut |-> cut, typed |-> typed,
           alone |-> Alone, answer |-> Nothing]}

Start ==
    /\ field = Nothing
    /\ field' = [draft |-> seen.title, typed |-> FALSE]
    /\ UNCHANGED <<held, seen, stale, reading, patches, hearts, title, pressed, counts>>

Type(t) ==
    /\ field # Nothing /\ field.draft # t
    /\ field' = [draft |-> t, typed |-> TRUE]
    /\ UNCHANGED <<held, seen, stale, reading, patches, hearts, title, pressed, counts>>

Escape ==
    /\ field # Nothing /\ field' = Nothing
    /\ UNCHANGED <<held, seen, stale, reading, patches, hearts, title, pressed, counts>>

\* `commit`: what is drafted, when it is not what is stored now.
Leave ==
    /\ field # Nothing /\ field' = Nothing
    /\ IF field.draft = seen.title THEN UNCHANGED <<patches, sent>>
       ELSE Patch(field.draft, Nothing, {}, field.typed)
    /\ UNCHANGED <<held, seen, stale, reading, hearts, title, pressed, marked, mishaps>>

\* The list without what was in it: a variant of the one below.
AddTagAlone(tag) ==
    /\ tag \notin seen.tags
    /\ Patch(Nothing, {tag}, {}, TRUE)
    /\ UNCHANGED <<held, seen, stale, reading, field, hearts, title, pressed, marked, mishaps>>

\* The whole list goes, because the endpoint replaces it.
AddTag(tag) ==
    /\ tag \notin seen.tags
    /\ Patch(Nothing, seen.tags \cup {tag}, {}, TRUE)
    /\ UNCHANGED <<held, seen, stale, reading, field, hearts, title, pressed, marked, mishaps>>

RemoveTag(tag) ==
    /\ tag \in seen.tags
    /\ Patch(Nothing, seen.tags \ {tag}, {tag}, TRUE)
    /\ UNCHANGED <<held, seen, stale, reading, field, hearts, title, pressed, marked, mishaps>>

\* What the instance makes of a patch, and its answer: the recording as it now stands.
Carried(p) ==
    [held EXCEPT !.title = IF p.title = Nothing THEN @ ELSE p.title,
                 !.tags  = IF p.tags = Nothing THEN @ ELSE p.tags]

CarryOut(p) ==
    /\ p.answer = Nothing
    /\ held' = Carried(p)
    /\ patches' = (patches \ {p}) \cup {[p EXCEPT !.answer = Carried(p)]}
    /\ UNCHANGED <<seen, stale, reading, field, hearts, title, pressed, counts>>

\* The answer goes into the cache, the player is told its title, and the copy is read again: a
\* refetch already in flight is dropped for the new one.
Saved(p) ==
    /\ p.answer # Nothing
    /\ patches' = patches \ {p}
    /\ seen' = [p.answer EXCEPT !.of = marked] /\ stale' = TRUE /\ reading' = Read
    /\ title' = p.answer.title
    /\ UNCHANGED <<held, field, hearts, pressed, counts>>

\* Refused, or carried out with its answer lost: the page is told it failed either way.
SaveFails(p) ==
    /\ mishaps < MaxMishaps /\ mishaps' = mishaps + 1
    /\ patches' = patches \ {p}
    /\ UNCHANGED <<held, seen, stale, reading, field, hearts, title, pressed, sent, marked>>

(***************************************************************************)
(* The heart                                                               *)
(***************************************************************************)
\* What is in flight is left to land: a variant of the one below.
PressOver ==
    /\ marked < MaxMarks /\ sent + marked < MaxEdits /\ marked' = marked + 1
    /\ seen' = [seen EXCEPT !.mark = ~@, !.upTo = marked + 1, !.of = marked + 1]
    /\ pressed' = ~seen.mark
    /\ hearts' = Append(hearts, ~seen.mark)
    /\ UNCHANGED <<held, stale, reading, field, patches, title, sent, mishaps>>

\* Every copy changes at once, and what is in flight over them is dropped.
Press ==
    /\ marked < MaxMarks /\ sent + marked < MaxEdits /\ marked' = marked + 1
    /\ seen' = [seen EXCEPT !.mark = ~@, !.upTo = marked + 1, !.of = marked + 1]
    /\ pressed' = ~seen.mark
    /\ hearts' = Append(hearts, ~seen.mark)
    /\ reading' = Nothing
    /\ UNCHANGED <<held, stale, field, patches, title, sent, mishaps>>

\* Any of the marks waiting: a variant of the one below.
Waiting  == 1..Len(hearts)

\* The requests run one at a time, in the order of the presses.
Turn     == 1..(IF hearts = << >> THEN 0 ELSE 1)

Without(i) == SubSeq(hearts, 1, i - 1) \o SubSeq(hearts, i + 1, Len(hearts))

\* Whether the instance is done with the first of them, and its answer is on the way.
Kept == held.upTo > marked - Len(hearts)

\* The instance marks the recording, or takes its mark off.
KeepMark ==
    /\ ~Kept
    /\ \E i \in Turn : held' = [held EXCEPT !.mark = hearts[i], !.upTo = @ + 1]
    /\ UNCHANGED <<seen, stale, reading, field, patches, hearts, title, pressed, counts>>

\* Nothing is read again: the copy is only known to be stale.
Marked ==
    /\ Kept
    /\ \E i \in Turn : hearts' = Without(i)
    /\ stale' = TRUE
    /\ UNCHANGED <<held, seen, reading, field, patches, title, pressed, counts>>

\* Refused, or carried out with its answer lost.  The mark is put back to what this press was not,
\* whatever was pressed since.
MarkFails ==
    /\ mishaps < MaxMishaps /\ mishaps' = mishaps + 1
    /\ \E i \in Turn :
        /\ seen' = [seen EXCEPT !.mark = ~hearts[i]]
        /\ hearts' = Without(i)
    /\ held' = IF Kept THEN held ELSE [held EXCEPT !.upTo = @ + 1]
    /\ UNCHANGED <<stale, reading, field, patches, title, pressed, sent, marked>>

(***************************************************************************)
(* Another page, of this account or another                                *)
(***************************************************************************)
Elsewhere ==
    /\ mishaps < MaxMishaps /\ mishaps' = mishaps + 1
    /\ held' \in {[held EXCEPT !.title = t] : t \in Titles}
            \cup {[held EXCEPT !.tags = @ \cup {tag}] : tag \in Tags}
            \cup {[held EXCEPT !.mark = ~@]}
    /\ held' # held
    /\ patches' = {[p EXCEPT !.alone = FALSE] : p \in patches}
    /\ UNCHANGED <<seen, stale, reading, field, hearts, title, pressed, sent, marked>>

(***************************************************************************)
(* The specification                                                       *)
(***************************************************************************)
EditsInit ==
    /\ held = [title |-> FirstTitle, tags |-> {}, mark |-> FALSE, upTo |-> 0, of |-> 0]
    /\ seen = held /\ stale = FALSE /\ reading = Nothing
    /\ field = Nothing /\ patches = {} /\ hearts = << >>
    /\ title = FirstTitle /\ pressed = FALSE
    /\ sent = 0 /\ marked = 0 /\ mishaps = 0

EditsNext ==
    \/ Refetch \/ Arrive
    \/ Start \/ Escape \/ Leave \/ \E t \in Titles : Type(t)
    \/ \E tag \in Tags : AddTag(tag) \/ RemoveTag(tag)
    \/ \E p \in patches : CarryOut(p) \/ Saved(p) \/ SaveFails(p)
    \/ Press \/ KeepMark \/ Marked \/ MarkFails
    \/ Elsewhere

EditsSpec == EditsInit /\ [][EditsNext]_editVars

(***************************************************************************)
(* Properties                                                              *)
(***************************************************************************)
EditsTypeOK ==
    /\ {held, seen} \subseteq Recording /\ stale \in BOOLEAN
    /\ reading = Nothing \/ reading \in Recording
    /\ title \in Titles /\ pressed \in BOOLEAN
    /\ hearts \in Seq(BOOLEAN)

\* However fast the heart is pressed, the instance ends with what the last press asked for: a
\* request never overtakes the one before (use-favourite.ts "The requests run one at a time").
LastPressIsKept == hearts = << >> /\ mishaps = 0 => held.mark = pressed

\* The heart that is drawn is the instance's once every press is answered, though nothing is read
\* again (use-favourite.ts:14 "Every copy already says what the server now holds").  It is so
\* unless what is drawn came without a press that had been made: a read begun after the press, so
\* that it was not dropped with what was in flight, and before the instance had carried it out; or
\* the answer to a field, which nothing drops.
MarkIsShown == hearts = << >> /\ mishaps = 0 /\ ~Early(seen) => seen.mark = held.mark

\* With nothing in flight, a copy not known to be stale is what the instance holds, but for the
\* heart of a copy that came too early: answers that come out of order, and a refetch that
\* read before a field was written, are read over again (metadata.ts).  Only a change made
\* elsewhere, or an answer that never came, leaves it behind.
CopyIsCurrent ==
    AtRest /\ ~stale /\ mishaps = 0 =>
        /\ seen.title = held.title /\ seen.tags = held.tags
        /\ seen.mark = held.mark \/ Early(seen)

\* What the page and the instance agree about, however requests, answers and refetches cross.
EditsInv == EditsTypeOK /\ LastPressIsKept /\ MarkIsShown /\ CopyIsCurrent

\* What a step may do to the tags.
TagGoes ==
    held.tags \subseteq held'.tags \/
    \E p \in patches : ~p.alone \/ held.tags \ held'.tags \subseteq p.cut

\* A tag comes off only because a person took it off, or because two writes of the list crossed:
\* the second was sent before the first had come back, or from a copy that was behind.
TagGoesForACause == [][TagGoes]_editVars

\* InlineField.tsx:19 "Called on blur ... with the new value": a title is saved because somebody
\* typed it.  A field only passed through saves the title it opened with over one that changed
\* meanwhile.
OnlyWhatWasTyped == \A p \in patches : p.typed
=============================================================================
