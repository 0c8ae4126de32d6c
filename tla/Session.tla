------------------------------- MODULE Session -------------------------------
(***************************************************************************)
(* Signing in and out, and what a page remembers of whom.                  *)
(*                                                                         *)
(* One page of the interface holds a cookie, a cache of answers and a      *)
(* place (the sign-in screen or the archive); the instance holds the rows  *)
(* of sessions and each account's password.  Between the two are calls: a  *)
(* read is answered in one transaction, a write is resolved to its caller  *)
(* first and carried out later, when the write lock is free.  Other        *)
(* devices of the same accounts sign in, revoke and change the password    *)
(* meanwhile.                                                              *)
(*                                                                         *)
(* src/frontend/src/app/session.ts, session-expiry.ts, shell/*.tsx,        *)
(* api/query-client.ts, features/sign-in, features/settings;               *)
(* src/backend/resonand/db/sessions.py, api/deps.py, api/routes/auth.py    *)
(***************************************************************************)
EXTENDS Naturals, FiniteSets, Sequences

CONSTANTS
    Accounts,
    Abroad,          \* those that other devices sign in to as well
    MaxSessions,     \* bound: rows ever opened
    MaxChanges,      \* bound: password changes
    Nobody, Idle, Quiet

Changing == {"password", "others"}

\* What is on its way: a query or a sign-out, a sign-in, a write of the settings.
Call == [as : Nat] \cup [of : Accounts] \cup [at : {"sent", "resolved"}, is : Changing, as : Nat]

ASSUME SessionAssumption ==
    /\ MaxSessions \in Nat /\ MaxChanges \in Nat
    /\ Abroad \subseteq Accounts /\ Nobody \notin Accounts
    /\ Idle \notin Call

VARIABLES
    rows,       \* the sessions ever opened: whose, and with which password
    live,       \* those neither revoked nor expired
    password,   \* how often each account's password has changed
    cookie,     \* the session this page's browser presents, 0 for none
    cached,     \* whose account and whose libraries the page remembers
    refused,    \* the query for the account ended in a 401
    ended,      \* the session whose refusal was reported and not acted on
    place,      \* the route
    calls,      \* the page's calls on their way, one of a kind
    elsewhere,  \* a call of another device
    changes

instance == <<rows, live, password>>
page     == <<cookie, cached, refused, ended, place>>
vars     == <<rows, live, password, cookie, cached, refused, ended, place,
              calls, elsewhere, changes>>

Sessions == DOMAIN rows
Reads    == {"me", "libraries"}
Kinds    == Reads \cup {"signIn", "signOut", "settings"}

OwnerOf(s) == IF s = 0 THEN Nobody ELSE rows[s].of

-----------------------------------------------------------------------------
(* The instance.                                                           *)

\* The session row a cookie refers to: unknown, revoked and expired are one refusal.
Resolves(s) == s \in live

\* A session of an account, on the device that will present it.
Opened(a, on) ==
    /\ Len(rows) < MaxSessions
    /\ rows' = Append(rows, [of |-> a, on |-> on, with |-> password[a]])
    /\ live' = live \cup {Len(rows) + 1}
    /\ UNCHANGED password

Revoked(s)   == live \ {s}
RevokeAll(s) == {t \in live : rows[t].of # rows[s].of \/ t = s}

\* A write in its transaction.  Its caller was resolved before the write lock was asked for.
Carried(is, s) ==
    /\ live' = RevokeAll(s)
    /\ \/ is = "others" /\ UNCHANGED <<rows, password, changes>>
       \/ /\ is = "password"
          /\ changes < MaxChanges /\ changes' = changes + 1
          /\ password' = [password EXCEPT ![rows[s].of] = @ + 1]
          /\ rows' = [rows EXCEPT ![s].with = password'[rows[s].of]]

-----------------------------------------------------------------------------
(* What the page does with its cache.                                      *)

Nothing == [k \in Reads |-> Nobody]

\* A variant: the cache is emptied, and what is on its way comes into it all the same.
ClearVariant(kept) == refused' = FALSE /\ calls' = kept

\* client.clear(): every answer is forgotten, and the answer to a query on its way is ignored.
\* A mutation goes on, and so do its handlers.
Clear(kept) ==
    /\ refused' = FALSE
    /\ calls' = [k \in Kinds |-> IF k \in Reads THEN Idle ELSE kept[k]]

Sent(k, call) == [calls EXCEPT ![k] = call]
Done(k)       == [calls EXCEPT ![k] = Idle]
OnItsWay(k)   == calls[k] # Idle

\* A new session: forget, and only then write the account in.
Arrive(a, s) ==
    /\ cookie' = s
    /\ Clear(Done("signIn"))
    /\ cached' = [Nothing EXCEPT !["me"] = a]
    /\ place' = "archive"
    /\ UNCHANGED ended

\* The session is discarded here whatever the instance said.
SignOutSettled ==
    /\ Clear(Done("signOut"))
    /\ cached' = Nothing
    /\ UNCHANGED place

\* A page that is loaded: its guard is drawn, and asks who it is.
Opening == [k \in Kinds |-> IF k = "me" /\ place = "archive" THEN [as |-> cookie] ELSE Idle]

-----------------------------------------------------------------------------
Init ==
    /\ rows = <<>> /\ live = {} /\ password = [a \in Accounts |-> 0]
    /\ cookie = 0 /\ cached = Nothing /\ refused = FALSE /\ ended = Quiet
    /\ place = "archive"
    /\ calls = Opening /\ elsewhere = Idle
    /\ changes = 0

\* The account is read again: the guard is drawn anew over an answer a minute old, the window is
\* focused, the connection comes back.  A page that is only looked at does none of these.
AskMe ==
    /\ place = "archive" /\ ~refused
    /\ calls["me"] = Idle
    /\ calls' = Sent("me", [as |-> cookie])
    /\ UNCHANGED <<instance, page, elsewhere, changes>>

\* The views inside the guard read what is theirs once there is an answer to who it is.
AskLibraries ==
    /\ place = "archive" /\ ~refused /\ cached["me"] # Nobody
    /\ calls["libraries"] = Idle
    /\ calls' = Sent("libraries", [as |-> cookie])
    /\ UNCHANGED <<instance, page, elsewhere, changes>>

\* The form, one request at a time.  A refusal of it is a 400, drawn by the form and nothing more.
SignIn(a) ==
    /\ place = "signIn" /\ calls["signIn"] = Idle
    /\ calls' = Sent("signIn", [of |-> a])
    /\ UNCHANGED <<instance, page, elsewhere, changes>>

\* The menu's row: the request, and at once the sign-in screen.
SignOut ==
    /\ place = "archive" /\ cached["me"] # Nobody /\ calls["signOut"] = Idle
    /\ calls' = Sent("signOut", [as |-> cookie])
    /\ place' = "signIn"
    /\ UNCHANGED <<instance, cookie, cached, refused, ended, elsewhere, changes>>

\* The settings: a new password, or every other device signed out.
Settings(is) ==
    /\ place = "archive" /\ cached["me"] # Nobody /\ calls["settings"] = Idle
    /\ calls' = Sent("settings", [at |-> "sent", is |-> is, as |-> cookie])
    /\ UNCHANGED <<instance, page, elsewhere, changes>>

\* An address of the archive, reached from the sign-in screen without a reload.  The guard is drawn
\* again, and asks when nothing is known.
Back ==
    /\ place = "signIn" /\ place' = "archive"
    /\ calls' = IF cached["me"] = Nobody /\ ~refused /\ ~OnItsWay("me")
                THEN Sent("me", [as |-> cookie]) ELSE calls
    /\ UNCHANGED <<instance, cookie, cached, refused, ended, elsewhere, changes>>

\* The page is loaded again: the cookie stays, everything else is new.
Reload ==
    /\ calls' = Opening
    /\ cached' = Nothing /\ refused' = FALSE /\ ended' = Quiet
    /\ UNCHANGED <<instance, cookie, place, elsewhere, changes>>

-----------------------------------------------------------------------------
(* A call is answered where its answer is handled; only what can be told    *)
(* apart on the way has a step of its own: a sign-in whose row is opened    *)
(* before its answer comes, and a write resolved before it is carried out.  *)

\* A query's answer: the account, or the libraries, of whoever the cookie was sent for.
ReadAnswered(k) ==
    /\ k \in Reads /\ OnItsWay(k) /\ Resolves(calls[k].as)
    /\ cached' = [cached EXCEPT ![k] = OwnerOf(calls[k].as)]
    /\ refused' = (refused /\ k # "me")
    /\ calls' = Done(k)
    /\ UNCHANGED <<instance, cookie, ended, place, elsewhere, changes>>

\* A 401, whoever asked, is one event.
ReadRefused(k) ==
    /\ k \in Reads /\ OnItsWay(k) /\ ~Resolves(calls[k].as)
    /\ ended' = calls[k].as
    /\ refused' = (refused \/ k = "me")
    /\ calls' = Done(k)
    /\ UNCHANGED <<instance, cookie, cached, place, elsewhere, changes>>

\* The password is looked up, verified and answered for under the write lock.
Admit ==
    /\ OnItsWay("signIn") /\ "of" \in DOMAIN calls["signIn"]
    /\ Opened(calls["signIn"].of, "here")
    /\ calls' = Sent("signIn", [as |-> Len(rows) + 1])
    /\ UNCHANGED <<page, elsewhere, changes>>

\* Its answer sets the cookie.
SignedIn ==
    /\ OnItsWay("signIn") /\ "as" \in DOMAIN calls["signIn"]
    /\ Arrive(OwnerOf(calls["signIn"].as), calls["signIn"].as)
    /\ UNCHANGED <<instance, elsewhere, changes>>

\* A sign-out that is carried out deletes the cookie by its name, whichever it is by now.
SignedOut ==
    /\ OnItsWay("signOut") /\ Resolves(calls["signOut"].as)
    /\ live' = Revoked(calls["signOut"].as)
    /\ cookie' = 0
    /\ SignOutSettled
    /\ UNCHANGED <<rows, password, ended, elsewhere, changes>>

\* The session was over already: the page forgets all the same.
SignOutRefused ==
    /\ OnItsWay("signOut") /\ ~Resolves(calls["signOut"].as)
    /\ ended' = calls["signOut"].as
    /\ SignOutSettled
    /\ UNCHANGED <<instance, cookie, elsewhere, changes>>

\* The request did not arrive, or it did and its answer was lost.
SignOutLost ==
    /\ OnItsWay("signOut")
    /\ live' \in {live, Revoked(calls["signOut"].as)}
    /\ SignOutSettled
    /\ UNCHANGED <<rows, password, cookie, ended, elsewhere, changes>>

\* current_caller: the cookie is resolved in a read of its own, before the write lock.
Resolve ==
    /\ OnItsWay("settings") /\ calls["settings"].at = "sent" /\ Resolves(calls["settings"].as)
    /\ calls' = [calls EXCEPT !["settings"].at = "resolved"]
    /\ UNCHANGED <<instance, page, elsewhere, changes>>

CarryOut ==
    /\ OnItsWay("settings") /\ calls["settings"].at = "resolved"
    /\ Carried(calls["settings"].is, calls["settings"].as)
    /\ calls' = Done("settings")
    /\ UNCHANGED <<page, elsewhere>>

\* A variant: only the queries of the page tell of a session that is over.
SettingsUnreported ==
    /\ OnItsWay("settings") /\ calls["settings"].at = "sent" /\ ~Resolves(calls["settings"].as)
    /\ calls' = Done("settings")
    /\ UNCHANGED <<instance, page, elsewhere, changes>>

\* A 401 of a write is one event too.
SettingsRefused ==
    /\ OnItsWay("settings") /\ calls["settings"].at = "sent" /\ ~Resolves(calls["settings"].as)
    /\ ended' = calls["settings"].as
    /\ calls' = Done("settings")
    /\ UNCHANGED <<instance, cookie, cached, refused, place, elsewhere, changes>>

\* RequireSession, drawn with a refusal.
Guard ==
    /\ place = "archive" /\ refused
    /\ place' = "signIn"
    /\ UNCHANGED <<instance, cookie, cached, refused, ended, calls, elsewhere, changes>>

\* SessionExpiry: acknowledge, forget, leave.
Expire ==
    /\ ended # Quiet /\ ended' = Quiet
    /\ Clear(calls)
    /\ cached' = Nothing
    /\ place' = "signIn"
    /\ UNCHANGED <<instance, cookie, elsewhere, changes>>

-----------------------------------------------------------------------------
(* Other devices, which have sessions of their own and nothing to show.    *)

Theirs == {s \in Sessions : rows[s].on = "elsewhere"}

TheySignIn(a) ==
    /\ elsewhere = Idle
    /\ Opened(a, "elsewhere")
    /\ UNCHANGED <<page, calls, elsewhere, changes>>

TheyAsk(k, s) ==
    /\ elsewhere = Idle /\ k \in Changing /\ s \in Theirs /\ Resolves(s)
    /\ elsewhere' = [is |-> k, as |-> s]
    /\ UNCHANGED <<instance, page, calls, changes>>

TheirsIsCarriedOut ==
    /\ elsewhere # Idle
    /\ Carried(elsewhere.is, elsewhere.as)
    /\ elsewhere' = Idle
    /\ UNCHANGED <<page, calls>>

\* One device revoked from another's list of them.
TheyRevoke(s, t) ==
    /\ s \in Theirs /\ Resolves(s) /\ t \in live /\ s # t /\ rows[s].of = rows[t].of
    /\ live' = Revoked(t)
    /\ UNCHANGED <<rows, password, page, calls, elsewhere, changes>>

\* A session comes to the end of its days.
Lapse(s) ==
    /\ s \in live
    /\ live' = Revoked(s)
    /\ UNCHANGED <<rows, password, page, calls, elsewhere, changes>>

Person ==
    \/ SignOut \/ Back \/ Reload
    \/ \E a \in Accounts : SignIn(a)
    \/ \E is \in Changing : Settings(is)

Calls ==
    \/ Admit \/ SignedIn \/ SignedOut \/ SignOutRefused \/ SignOutLost
    \/ Resolve \/ CarryOut \/ SettingsRefused
    \/ \E k \in Reads : ReadAnswered(k) \/ ReadRefused(k)

Page == AskMe \/ AskLibraries \/ Guard \/ Expire

Others ==
    \/ TheirsIsCarriedOut
    \/ \E a \in Abroad : TheySignIn(a)
    \/ \E k \in Changing, s \in Theirs : TheyAsk(k, s)
    \/ \E s, t \in Sessions : TheyRevoke(s, t)
    \/ \E s \in Sessions : Lapse(s)

Next == Calls \/ Page \/ Person \/ Others

Spec == Init /\ [][Next]_vars

\* A request that was sent is refused if it is to be, and the page renders.  Nothing has it ask.
Fairness ==
    /\ SF_vars(Guard) /\ WF_vars(Expire)
    /\ WF_vars(SettingsRefused) /\ \A k \in Reads : WF_vars(ReadRefused(k))

FairSpec == Spec /\ Fairness

-----------------------------------------------------------------------------
(* The shape of the state. *)
TypeOK ==
    /\ rows \in Seq([of : Accounts, on : {"here", "elsewhere"}, with : Nat])
    /\ live \subseteq Sessions /\ password \in [Accounts -> Nat]
    /\ cookie \in Sessions \cup {0}
    /\ cached \in [Reads -> Accounts \cup {Nobody}]
    /\ refused \in BOOLEAN /\ ended \in Sessions \cup {0, Quiet}
    /\ place \in {"signIn", "archive"}
    /\ calls \in [Kinds -> Call \cup {Idle}]
    /\ changes \in Nat

(* On a shared machine the next person does not see the last one's library *)
(* names: everything the page remembers is of one account, and of the one  *)
(* its cookie belongs to, whichever answers were on their way.             *)
OneAccount ==
    LET shown == {cached[k] : k \in Reads} \ {Nobody}
    IN  /\ Cardinality(shown) <= 1
        /\ cookie # 0 => shown \subseteq {OwnerOf(cookie)}

(* "Leaving them alive would make the change decorative": a live session   *)
(* was opened with the account's password as it is, or is the one that     *)
(* set it, whoever else was changing it or signing in at the time.         *)
LiveKnowsThePassword == \A s \in live : rows[s].with = password[rows[s].of]

(* A page, its cookie and the instance never tell of two people, nor a     *)
(* session of a password that has gone.                                    *)
SessionInv == TypeOK /\ OneAccount /\ LiveKnowsThePassword

(* A page whose session is good is sent to the sign-in screen by its       *)
(* person, or by the late answer to a write of a session before it, and by *)
(* nothing else: never by a query of a session that is over.               *)
LeavesForACause ==
    [][place = "archive" /\ place' = "signIn" /\ cookie \in live =>
         \/ calls'["signOut"] # calls["signOut"]
         \/ ~refused /\ ended \notin {Quiet, cookie}]_vars

\* What a page has asked under its cookie and not been answered, or was refused and has not acted on.
Asked ==
    \/ refused \/ ended # Quiet
    \/ \E k \in Reads : calls[k] = [as |-> cookie]
    \/ \E is \in Changing : calls["settings"] = [at |-> "sent", is |-> is, as |-> cookie]

(* A session that is over ends on the page that holds it once the page     *)
(* asks for anything under it: as it is loaded, returned to, opened or     *)
(* written from, it comes to the sign-in screen by itself, however often   *)
(* it is loaded again meanwhile (session-expiry.ts: "the next request      *)
(* answers 401").  A page that asks for nothing stays as it is, and so     *)
(* does one that a sign-in or a sign-out still on its way empties under    *)
(* its question.                                                           *)
DeadSessionLeaves ==
    (/\ place = "archive" /\ cookie \notin live /\ Asked
     /\ ~OnItsWay("signIn") /\ ~OnItsWay("signOut")) ~> place = "signIn"

(* src/frontend/src/app/session.ts:113: "the session is discarded either   *)
(* way": a sign-out that failed leaves the browser no session that works.  *)
SignOutDiscards == [][SignOutLost => cookie' \notin live']_vars
=============================================================================
