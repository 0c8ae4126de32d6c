---------------------------------- MODULE Forms ----------------------------------
(***************************************************************************)
(* The forms, dialogs and buttons that write: what the person sends, what  *)
(* becomes of it when the form is closed, left or sent again before the    *)
(* answer, and whether a refusal is ever said.  A refused write is raised  *)
(* as a toast by the client of api/query-client.ts unless the form says it *)
(* itself, which it does only while it is there and still follows the      *)
(* write.                                                                  *)
(*                                                                         *)
(* One form is followed at a time, by what distinguishes it; the ends of   *)
(* sessions (a 401) are in module Session, and what an answer makes stale  *)
(* in module Freshness.                                                    *)
(***************************************************************************)
EXTENDS Naturals

CONSTANT MaxSent    \* bound on the writes

VARIABLES
    form,       \* which
    place,      \* open, shut under a page that is there, or gone with its page
    words,      \* whether something is typed
    follows,    \* the write it follows, and what it knows of it
    calls,      \* writes with no answer
    sent,
    held,       \* the last that was carried out
    unsaid      \* history: those refused and said nowhere

vars == <<form, place, words, follows, calls, sent, held, unsaid>>

-----------------------------------------------------------------------------
(* The forms *)

\* A conflict, a field over its limit, anything else.
Refusals == {"conflict", "invalid", "other"}

\* A button of a page: a row's, a level's, a category's, a job's.
Button ==
    [name |-> "button",
     typed |-> FALSE,       \* it sends what is typed, and nothing if nothing is
     says |-> {},           \* the refusals that are left to it
     draws |-> {},          \* those it draws
     follows |-> TRUE,      \* it knows how the last of its writes went
     waits |-> FALSE,       \* it sends one at a time
     shuts |-> FALSE,       \* it is a dialog, that opens and closes on its page
     onSend |-> {},         \* what sending does: it shuts it, empties it
     onShut |-> {},         \* what closing does: empties it, resets what it follows, unmounts it
     onDone |-> {},         \* what success does: shuts it, empties it, leaves the page
     hears |-> "following"] \* whose success: of what it follows, or any

SignInForm == [Button EXCEPT !.name = "sign-in", !.typed = TRUE, !.says = Refusals, !.draws = Refusals,
                             !.waits = TRUE, !.onDone = {"leaves"}]
\* The fields of a library or a recording, each sent as it is left (Edits): one write follows another.
Fields == [Button EXCEPT !.name = "fields", !.says = {"invalid"}, !.draws = {"invalid"}]
AccountFields == [Fields EXCEPT !.name = "account", !.says = Refusals, !.draws = Refusals]
PasswordForm == [Button EXCEPT !.name = "password", !.typed = TRUE, !.says = Refusals, !.draws = Refusals,
                               !.waits = TRUE, !.onDone = {"empties"}]
AddPerson == [Button EXCEPT !.name = "person", !.typed = TRUE, !.onSend = {"empties"}]
ProviderTest == [Button EXCEPT !.name = "provider", !.waits = TRUE]

Dialog == [Button EXCEPT !.shuts = TRUE, !.waits = TRUE]
CreateLibraryDialog ==
    [Dialog EXCEPT !.name = "create", !.typed = TRUE, !.says = Refusals, !.draws = Refusals,
                   !.onShut = {"empties", "resets"}, !.onDone = {"shuts"}, !.hears = "any"]
TrashLibraryDialog == [Dialog EXCEPT !.name = "trash library", !.draws = Refusals,
                                     !.onDone = {"leaves"}, !.hears = "any"]
NewAccount == [Dialog EXCEPT !.name = "new account", !.typed = TRUE, !.draws = Refusals,
                             !.onDone = {"shuts", "empties"}]
SetPasswordDialog == [Dialog EXCEPT !.name = "set password", !.draws = Refusals, !.onShut = {"unmounts"}]
EndOthers == [Dialog EXCEPT !.name = "sessions", !.onDone = {"shuts"}]
\* Revoking a share and moving a recording close as they send.
Revoke == [Dialog EXCEPT !.name = "revoke", !.waits = FALSE, !.onSend = {"shuts"}]
TrashRecording == [Dialog EXCEPT !.name = "trash", !.follows = FALSE, !.waits = FALSE, !.onDone = {"leaves"},
                                 !.hears = "any"]

Forms == {Button, SignInForm, Fields, AccountFields, PasswordForm, AddPerson, ProviderTest,
          CreateLibraryDialog, TrashLibraryDialog, NewAccount, SetPasswordDialog, EndOthers, Revoke,
          TrashRecording}

-----------------------------------------------------------------------------
(* The person *)

NoWrite == [id |-> 0, result |-> "idle"]
Never    == [id |-> 0, done |-> FALSE, parted |-> {}, orphan |-> FALSE]

Pending == follows.result = "pending"

\* History: the form turns from what it has sent.  It sends again, or it is closed, and what is
\* unmounted with it hears no more.
Superseded(cs) == {[c EXCEPT !.parted = @ \cup {"sent again"}] : c \in cs}
PartedFrom(cs) == {[c EXCEPT !.parted = @ \cup {"closed"}] : c \in cs}
Orphaned(cs)   == {[c EXCEPT !.parted = @ \cup {"closed"}, !.orphan = TRUE] : c \in cs}

\* The form as it stands once closed, and the writes it no longer waits for.
Shut(cs) ==
    /\ place' = "shut"
    /\ words' = (words /\ "empties" \notin form.onShut)
    /\ follows' = IF form.onShut \cap {"resets", "unmounts"} # {} THEN NoWrite ELSE follows
    /\ calls' = IF "unmounts" \in form.onShut THEN Orphaned(cs) ELSE PartedFrom(cs)

Gone(cs) ==
    /\ place' = "gone"
    /\ words' = FALSE /\ follows' = NoWrite
    /\ calls' = Orphaned(cs)

Type ==
    /\ place = "open" /\ form.typed /\ ~words
    /\ words' = TRUE
    /\ UNCHANGED <<form, place, follows, calls, sent, held, unsaid>>

Ready == place = "open" /\ (form.typed => words) /\ ~(form.waits /\ Pending)

Send ==
    /\ Ready /\ sent < MaxSent
    /\ sent' = sent + 1
    /\ calls' = Superseded(calls) \cup {[id |-> sent', done |-> FALSE, parted |-> {}, orphan |-> FALSE]}
    /\ follows' = IF form.follows THEN [id |-> sent', result |-> "pending"] ELSE follows
    /\ place' = IF "shuts" \in form.onSend THEN "shut" ELSE place
    /\ words' = (words /\ "empties" \notin form.onSend)
    /\ UNCHANGED <<form, held, unsaid>>

Close ==
    /\ place = "open" /\ form.shuts
    /\ Shut(calls)
    /\ UNCHANGED <<form, sent, held, unsaid>>

Open ==
    /\ place = "shut" /\ place' = "open"
    /\ UNCHANGED <<form, words, follows, calls, sent, held, unsaid>>

LeavePage ==
    /\ place # "gone"
    /\ Gone(calls)
    /\ UNCHANGED <<form, sent, held, unsaid>>

ComeBack ==
    /\ place = "gone"
    /\ place' = IF form.shuts THEN "shut" ELSE "open"
    /\ UNCHANGED <<form, words, follows, calls, sent, held, unsaid>>

-----------------------------------------------------------------------------
(* The instance, and its answers *)

CarryOut(c) ==
    /\ ~c.done
    /\ calls' = (calls \ {c}) \cup {[c EXCEPT !.done = TRUE]}
    /\ held' = c
    /\ UNCHANGED <<form, place, words, follows, sent, unsaid>>

ReportedVariant(why) == form.says = {}   \* an opt-out is whole
Reported(why) == why \notin form.says
Followed(c)   == follows.id = c.id
Drawn(c, why) == place = "open" /\ Followed(c) /\ why \in form.draws

\* Or carried out and its answer lost, which is told as a failure too.
Refused(c, why) ==
    /\ c.done => why = "other"
    /\ calls' = calls \ {c}
    /\ follows' = IF Followed(c) THEN [follows EXCEPT !.result = why] ELSE follows
    \* Without a write to follow, the dialog that asked is closed whatever came of it.
    /\ place' = IF ~form.follows /\ ~c.orphan /\ place = "open" THEN "shut" ELSE place
    /\ unsaid' = IF Reported(why) \/ Drawn(c, why) THEN unsaid ELSE unsaid \cup {c}
    /\ UNCHANGED <<form, words, sent, held>>

\* Its success is heard by the form that sent it, unless that is gone or follows another.
Heard(c) == ~c.orphan /\ (form.hears = "any" \/ Followed(c))
Carries(c) == "leaves" \in form.onDone /\ (form.hears = "any" \/ Heard(c))
Shuts(c)   == "shuts" \in form.onDone /\ Heard(c) /\ place = "open"
Empties(c) == "empties" \in form.onDone \cup form.onShut /\ Heard(c)

Succeeded(c) ==
    /\ c.done
    /\ LET rest == calls \ {c} IN
       \/ Carries(c) /\ Gone(rest)
       \/ /\ ~Carries(c)
          /\ words' = (words /\ ~Empties(c))
          /\ place' = IF Shuts(c) THEN "shut" ELSE place
          /\ calls' = IF Shuts(c) THEN PartedFrom(rest) ELSE rest
          /\ follows' = IF Shuts(c) /\ "resets" \in form.onShut THEN NoWrite
                        ELSE IF Followed(c) THEN [follows EXCEPT !.result = "done"] ELSE follows
    /\ UNCHANGED <<form, sent, held, unsaid>>

Init ==
    /\ form \in Forms
    /\ place = IF form.shuts THEN "shut" ELSE "open"
    /\ words = FALSE /\ follows = NoWrite /\ calls = {} /\ sent = 0 /\ held = Never /\ unsaid = {}

Next ==
    \/ Type \/ Send \/ Close \/ Open \/ LeavePage \/ ComeBack
    \/ \E c \in calls : CarryOut(c) \/ Succeeded(c) \/ \E why \in Refusals : Refused(c, why)

Spec == Init /\ [][Next]_vars

-----------------------------------------------------------------------------
(* Properties *)

Calls == [id : 1..MaxSent, done : BOOLEAN, parted : SUBSET {"sent again", "closed"}, orphan : BOOLEAN]

TypeOK ==
    /\ form \in Forms /\ place \in {"open", "shut", "gone"} /\ words \in BOOLEAN
    /\ follows \in [id : 0..MaxSent, result : {"idle", "pending", "done"} \cup Refusals]
    /\ calls \subseteq Calls /\ held \in Calls \cup {Never} /\ unsaid \subseteq Calls

\* A write that failed says so (query-client.ts:21), once the exceptions are counted: the form was
\* closed or left over it, or sent another before its answer came.
RefusalsAreSaid == \A c \in unsaid : c.parted # {}

\* A refused form still holds what it sent, for the person to mend (SignInView.tsx:286, Users.tsx:230).
KeepsWhatWasRefused ==
    form.typed /\ place = "open" /\ follows.result \in Refusals /\ "empties" \notin form.onSend => words

\* What a form that sends one thing at a time says is done is what was done last, by what it has
\* sent: the password a dialog shows is the account's (SetPasswordDialog.tsx:11).  Unless an earlier
\* one, closed over while it was on its way, is carried out after it.
SaysWhatIsHeld ==
    form.waits /\ follows.result = "done" /\ held.id # follows.id => "closed" \in held.parted

FormsInv == TypeOK /\ RefusalsAreSaid /\ KeepsWhatWasRefused /\ SaysWhatIsHeld
=============================================================================
