-------------------------------- MODULE Overlays --------------------------------
(***************************************************************************)
(* Menus, listboxes, dialogs and sheets over the page: who has the         *)
(* keyboard, who hears a key first, and whether the page behind scrolls.   *)
(*                                                                         *)
(* design-system/components/overlay/use-anchored-overlay.ts under Menu,    *)
(* Select, Modal and Sheet.  Every open overlay listens on the document by *)
(* itself: none knows of the others.  Dialogs and sheets cover the page    *)
(* with a scrim and lock its scrolling.                                    *)
(***************************************************************************)
EXTENDS Naturals, SequencesExt

CONSTANTS
    Stops,        \* what the keyboard can land on; a listbox itself is one
    Overlays,
    Covers,       \* those that lock the page: dialogs and sheets
    Page,
    Home,         \* the surface each stop is in: an overlay, or the page
    Around,       \* what surfaces an overlay is in: itself, another one's, the page
    Document,     \* the stops in document order
    Cleanups,     \* the overlays in the order their effects are cleaned up
    Opener,       \* the control behind each
    Marked,       \* stops marked data-initial-focus
    Leads,        \* <<o, p>>: a row of o opens p
    Search,       \* the field `/' goes to
    Fleeting,     \* stops on the page that may go: a row's
    Nowhere       \* the body

VARIABLES
    open,         \* in the order they opened
    heard,        \* in the order their listeners stand on the document
    focus,
    returns,      \* where focus was when each opened
    locked,       \* the page does not scroll
    before,       \* whether it was locked when each cover opened
    gone          \* the fleeting stops that went

vars == <<open, heard, focus, returns, locked, before, gone>>

Open == ToSet(open)
Top  == Last(open)

\* What is in X of the sequence s: all of it in its order, the first, the last.
Within(s, X) ==
    LET upto[i \in 0..Len(s)] ==
            IF i = 0 THEN <<>>
            ELSE IF s[i] \in X THEN Append(upto[i - 1], s[i]) ELSE upto[i - 1]
    IN  upto[Len(s)]
FirstIn(s, X) == s[Min({i \in DOMAIN s : s[i] \in X})]
LastIn(s, X)  == s[Max({i \in DOMAIN s : s[i] \in X})]

-----------------------------------------------------------------------------
(* The document, with the overlays of O open *)

Holds(o, s) == s = o \/ (s # Nowhere /\ o \in Around[Home[s]])

Shown(s, O) ==
    /\ s \notin gone \cup {Nowhere}
    /\ Around[Home[s]] \subseteq O \cup {Page}
    /\ s \in Overlays => s \in O

\* focusableIn: a surface's own stops, without itself.
Focusable(o, O) == {s \in ToSet(Document) : s # o /\ Holds(o, s) /\ Shown(s, O)}

\* On open: the marked stop, the first, or the surface.
Lands(o) ==
    LET stops == Focusable(o, Open \cup {o})
        named == stops \cap Marked
    IN  IF stops = {} THEN o ELSE FirstIn(Document, IF named # {} THEN named ELSE stops)

-----------------------------------------------------------------------------
(* What a commit makes of the screen: a record of the variables that change *)

Now == [open |-> open, heard |-> heard, focus |-> focus, returns |-> returns,
        locked |-> locked, before |-> before]

Becomes(s) ==
    /\ open' = s.open /\ heard' = s.heard /\ focus' = s.focus /\ returns' = s.returns
    /\ locked' = s.locked /\ before' = s.before
    /\ UNCHANGED gone

\* What goes when the overlays of X do: what is drawn inside them, too.
With(X) == {o \in Open : Around[o] \cap X # {}}

\* What covers leave the page as when they go: a variant that simply lets it scroll.
LeftLockedVariant(covers) == FALSE

\* Each cover puts the page back the way it found it, so the last one cleaned up has its way.
LeftLocked(covers) == before[LastIn(Cleanups, covers)]

\* The surfaces are out of the document before the first effect is cleaned up.  Each one
\* gives the focus back to where it was, if that is still there.
Closed(X) ==
    LET out    == With(X)
        left   == Open \ out
        lost   == \E o \in out : Holds(o, focus)
        giving == {o \in out : Shown(returns[o], left)}
    IN  [Now EXCEPT !.open   = Within(@, left),
                    !.heard  = Within(@, left),
                    !.focus  = IF giving # {} THEN returns[LastIn(Cleanups, giving)]
                               ELSE IF lost THEN Nowhere ELSE @,
                    !.locked = IF out \cap Covers # {} THEN LeftLocked(out \cap Covers) ELSE @]

\* Opening one, after what closed in the same commit.
Opened(s, o) ==
    [open    |-> Append(s.open, o),
     heard   |-> Append(s.heard, o),
     focus   |-> Lands(o),
     returns |-> [s.returns EXCEPT ![o] = s.focus],
     locked  |-> s.locked \/ o \in Covers,
     before  |-> [s.before EXCEPT ![o] = s.locked]]

\* Pressing a control: its overlay opens; a menu or a listbox that is open closes.
Pressed(s, e) ==
    IF \E o \in Overlays : Opener[o] = e
    THEN LET o == CHOOSE x \in Overlays : Opener[x] = e IN
         IF o \notin Open THEN Opened(s, o) ELSE IF o \in Covers THEN s ELSE Closed({o})
    ELSE s

-----------------------------------------------------------------------------
(* The keyboard *)

Enter == Shown(focus, Open) /\ Becomes(Pressed(Now, focus))

\* Every listener hears the key: stopPropagation stops none on the same node.
Escape == open # <<>> /\ Becomes(Closed(Open))

\* A listener looks at where the one before it left the focus.
TabHeard(back, s, o) ==
    LET stops == Focusable(o, Open) IN
    IF stops = {} THEN [s EXCEPT !.taken = TRUE]
    ELSE IF back /\ (s.focus = FirstIn(Document, stops) \/ ~Holds(o, s.focus))
         THEN [taken |-> TRUE, focus |-> LastIn(Document, stops)]
    ELSE IF ~back /\ s.focus = LastIn(Document, stops)
         THEN [taken |-> TRUE, focus |-> FirstIn(Document, stops)]
    ELSE s

\* The key, after each of the listeners.
TabPassed(back) ==
    LET after[i \in 0..Len(heard)] ==
            IF i = 0 THEN [taken |-> FALSE, focus |-> focus]
            ELSE TabHeard(back, after[i - 1], heard[i])
    IN  after

\* The stops on the way from s on, to the end of the document.
Ahead(back, s) ==
    {x \in ToSet(Document) :
        /\ Shown(x, Open)
        /\ \A i, j \in DOMAIN Document :
               Document[i] = x /\ Document[j] = s => IF back THEN i < j ELSE j < i}

\* Unless one of them took the key, the browser steps through the document, and round.
Tab(back) ==
    LET end   == TabPassed(back)[Len(heard)]
        ahead == Ahead(back, end.focus)
        round == IF ahead # {} THEN ahead ELSE {x \in ToSet(Document) : Shown(x, Open)}
    IN  /\ focus' = IF end.taken THEN end.focus
                    ELSE IF back THEN LastIn(Document, round) ELSE FirstIn(Document, round)
        /\ UNCHANGED <<open, heard, returns, locked, before, gone>>

\* The shell's own key, whatever is open.
Slash ==
    /\ focus' = Search
    /\ UNCHANGED <<open, heard, returns, locked, before, gone>>

-----------------------------------------------------------------------------
(* The pointer *)

\* Nothing behind a cover can be pointed at.
Pointable(e) ==
    /\ Shown(e, Open)
    /\ Covers \cap Open # {} => Holds(LastIn(Cleanups, Covers \cap Open), e)

\* Closed by a press outside the surface and, if it is attached to one, its control.
Outside(e) == {o \in Open : ~Holds(o, e) /\ (o \in Covers \/ Opener[o] # e)}

Click(e) ==
    /\ Pointable(e)
    /\ LET s == [Closed(Outside(e)) EXCEPT !.focus = e] IN
       \/ Outside(e) = {} /\ Becomes(Pressed([Now EXCEPT !.focus = e], e))
       \/ Outside(e) # {} /\ Becomes(IF \E o \in Open : Opener[o] = e THEN s ELSE Pressed(s, e))

\* On a scrim, or where nothing is: outside of all of them.  Whether the press then takes the
\* focus from where they returned it is the browser's.
ClickAway ==
    /\ open # <<>>
    /\ \E f \in {Closed(Open).focus, Nowhere} : Becomes([Closed(Open) EXCEPT !.focus = f])

-----------------------------------------------------------------------------
(* What the views do with them *)

\* A row of a menu, or a dialog's button.
Choose(o) ==
    /\ o \in Open /\ Holds(o, focus)
    /\ \/ Becomes(Closed({o}))
       \/ \E p \in Overlays \ Open : <<o, p>> \in Leads /\ Becomes(Opened(Closed({o}), p))

\* What a dialog was waiting for came, whatever else is open by then.
Finish(o) == o \in Covers \cap Open /\ Becomes(Closed({o}))

\* A view that draws again with a new onClose: the listeners are put back, last.
Render(o) ==
    /\ o \in Open
    /\ heard' = Append(Within(heard, Open \ {o}), o)
    /\ UNCHANGED <<open, focus, returns, locked, before, gone>>

\* The row a control was in is no longer there.
Withdraw(e) ==
    /\ e \in Fleeting \ gone
    /\ gone' = gone \cup {e}
    /\ focus' = IF focus = e THEN Nowhere ELSE focus
    /\ UNCHANGED <<open, heard, returns, locked, before>>

-----------------------------------------------------------------------------
Init ==
    /\ open = <<>> /\ heard = <<>> /\ focus = Nowhere /\ gone = {}
    /\ returns = [o \in Overlays |-> Nowhere] /\ before = [o \in Overlays |-> FALSE]
    /\ locked = FALSE

Next ==
    \/ Enter \/ Escape \/ Slash \/ ClickAway
    \/ \E back \in BOOLEAN : Tab(back)
    \/ \E e \in Stops : Click(e) \/ Withdraw(e)
    \/ \E o \in Overlays : Choose(o) \/ Finish(o) \/ Render(o)

Spec == Init /\ [][Next]_vars

-----------------------------------------------------------------------------
(* Properties *)

\* The page is locked by what covers it, and each cover found it so.
Agrees ==
    /\ locked <=> Open \cap Covers # {}
    /\ \A i \in DOMAIN open : open[i] \in Covers =>
           (before[open[i]] <=> \E j \in 1..(i - 1) : open[j] \in Covers)

\* A cover was cleaned up before one that had opened after it.
Crossed ==
    \E i, j \in DOMAIN open :
        /\ i < j /\ {open[i], open[j]} \subseteq Covers /\ open[i] \notin ToSet(open')
        /\ \/ open[j] \in ToSet(open')
           \/ \E k, l \in DOMAIN Cleanups : k < l /\ Cleanups[k] = open[i] /\ Cleanups[l] = open[j]

\* Another listener has a say in where the keyboard goes: one that is not around it, or one
\* around it that ends where it does.
Disputed(o) ==
    \E p \in Open \ {o} :
        p \in Around[o] => LastIn(Document, Focusable(p, Open)) \in Focusable(o, Open) \cup {o}

\* What a step may do to the lock and to the keyboard.
StepKeepsThePlace ==
    /\ Agrees => Agrees' \/ Crossed
    /\ (open # <<>> /\ open' = open /\ Holds(Top, focus) /\ ~Holds(Top, focus')) =>
           focus' \in {Search, Opener[Top]} \/ Disputed(Top)
    /\ (Escape /\ focus' = Nowhere) => \A o \in Open : ~Shown(returns[o], {})

\* The page scrolls exactly when nothing covers it, until two covers close in the order they
\* opened (use-anchored-overlay.ts:291); the keyboard leaves the surface that opened last, with
\* it open, only by `/', by its own control, or where another overlay listens too (:197); and
\* closed by Escape they give it back to a control that had it, while there is one.
KeepsThePlace == [][StepKeepsThePlace]_vars
=============================================================================
