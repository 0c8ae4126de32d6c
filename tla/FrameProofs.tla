----------------------------- MODULE FrameProofs -----------------------------
(***************************************************************************)
(* What is proved about the frame every page of the interface is drawn in: *)
(* whose session it is (Session), what sounds in it (Player) and what a    *)
(* recording's page shows of that (RecordingPage).  For any accounts, any  *)
(* number of sessions and of password changes; any recordings, any length  *)
(* of them and any size of the page.  A! is the player, P! the page.       *)
(***************************************************************************)
EXTENDS Session, MCPlayback, FiniteSetTheorems, SequenceTheorems, TLAPS

-----------------------------------------------------------------------------
(* Whose session it is *)


RowType == [of : Accounts, on : {"here", "elsewhere"}, with : Nat]

\* A session that was opened, or none.
Held == Sessions \cup {0}

\* The instance: its rows, and the live ones, which know the password.
InstanceInv ==
    /\ rows \in Seq(RowType)
    /\ live \subseteq Sessions
    /\ password \in [Accounts -> Nat]
    /\ LiveKnowsThePassword

\* A query on its way was sent for the session the cookie is for now.
ReadsAreCurrent == \A k \in Reads : calls[k] \in {Idle, [as |-> cookie]}

\* The page's other calls, each of its kind.
CallsAreOfTheirKind ==
    /\ calls \in [Kinds -> Call \cup {Idle}]
    /\ calls["signIn"] \in {Idle} \cup [of : Accounts] \cup [as : Sessions]
    /\ calls["signOut"] \in {Idle} \cup [as : Held]
    /\ calls["settings"] \in {Idle} \cup [at : {"sent"}, is : Changing, as : Held]
                                    \cup [at : {"resolved"}, is : Changing, as : Sessions]
    /\ elsewhere \in {Idle} \cup [is : Changing, as : Sessions]

\* The page remembers the cookie's account or nobody; what it was told is over is not live.
PageIsOfItsCookie ==
    /\ cookie \in Held
    /\ cached \in [Reads -> Accounts \cup {Nobody}]
    /\ \A k \in Reads : cached[k] \in {Nobody, OwnerOf(cookie)}
    /\ place \in {"signIn", "archive"}
    /\ refused \in BOOLEAN
    /\ refused => cookie \notin live
    /\ ended \in Held \cup {Quiet}
    /\ ended # Quiet => ended \notin live
    /\ changes \in Nat

Inv == InstanceInv /\ ReadsAreCurrent /\ CallsAreOfTheirKind /\ PageIsOfItsCookie

\* What a step of the instance leaves of the sessions there were.
SessionsStand ==
    /\ Sessions \subseteq Sessions'
    /\ \A s \in Held : OwnerOf(s)' = OwnerOf(s)
    /\ \A s \in Held : s \in live' => s \in live

-----------------------------------------------------------------------------
(* The instance.                                                           *)

(* A row is opened with the password as it is, and is a new session.       *)
LEMMA OpenedKeeps ==
    ASSUME InstanceInv, NEW a \in Accounts, NEW on \in {"here", "elsewhere"}, Opened(a, on)
    PROVE  /\ InstanceInv' /\ SessionsStand
           /\ Len(rows) + 1 \in Sessions' /\ rows'[Len(rows) + 1].of = a
<1> DEFINE row == [of |-> a, on |-> on, with |-> password[a]]
<1>1. /\ rows \in Seq(RowType) /\ row \in RowType
      /\ rows' = Append(rows, row) /\ password' = password
      /\ live' = live \cup {Len(rows) + 1}
  BY DEF Opened, InstanceInv, RowType
<1>2. row.of = a /\ row.with = password[a]
  OBVIOUS
<1> HIDE DEF row
<1>3. /\ rows' \in Seq(RowType) /\ Len(rows) \in Nat
      /\ Sessions = 1 .. Len(rows) /\ Sessions' = 1 .. (Len(rows) + 1)
      /\ \A s \in Sessions : rows'[s] = rows[s]
      /\ rows'[Len(rows) + 1] = row
  BY <1>1 DEF Sessions
<1>4. /\ Sessions \subseteq Sessions' /\ 0 \notin Sessions'
      /\ Len(rows) + 1 \in Sessions' /\ Len(rows) + 1 \notin Held
  BY <1>3 DEF Held
<1>5. SessionsStand
  BY <1>1, <1>3, <1>4 DEF SessionsStand, OwnerOf, Held
<1>6. InstanceInv'
  <2>1. \A s \in live : rows'[s] = rows[s] /\ rows[s].with = password[rows[s].of]
    BY <1>3 DEF InstanceInv, LiveKnowsThePassword
  <2>2. LiveKnowsThePassword'
    BY <1>1, <1>2, <1>3, <2>1 DEF LiveKnowsThePassword
  <2> QED
    BY <1>1, <1>3, <1>4, <2>2 DEF InstanceInv
<1> QED
  BY <1>2, <1>3, <1>4, <1>5, <1>6

(* A write carried out for a session, whether or not it is still live,     *)
(* leaves alive only sessions that know the password.                      *)
LEMMA CarriedKeeps ==
    ASSUME InstanceInv, NEW is, NEW s \in Sessions, Carried(is, s), changes \in Nat
    PROVE  InstanceInv' /\ SessionsStand /\ changes' \in Nat
<1>1. live' = {t \in live : rows[t].of # rows[s].of \/ t = s}
  BY DEF Carried, RevokeAll
<1>2. /\ rows \in Seq(RowType) /\ Sessions = 1 .. Len(rows) /\ Len(rows) \in Nat
      /\ \A t \in Sessions : rows[t] \in RowType
      /\ live \subseteq Sessions
  BY DEF InstanceInv, Sessions
<1>3. CASE is = "others" /\ UNCHANGED <<rows, password, changes>>
  <2>1. Sessions' = Sessions /\ \A t \in Held : OwnerOf(t)' = OwnerOf(t)
    BY <1>3 DEF Sessions, OwnerOf, Held
  <2>2. LiveKnowsThePassword'
    BY <1>1, <1>3 DEF InstanceInv, LiveKnowsThePassword
  <2> QED
    BY <1>1, <1>2, <1>3, <2>1, <2>2 DEF InstanceInv, SessionsStand
<1>4. CASE /\ is = "password"
           /\ changes' = changes + 1
           /\ password' = [password EXCEPT ![rows[s].of] = @ + 1]
           /\ rows' = [rows EXCEPT ![s].with = password'[rows[s].of]]
  <2> DEFINE a == rows[s].of
  <2>1. a \in Accounts
    BY <1>2 DEF RowType
  <2>2. /\ password' \in [Accounts -> Nat]
        /\ \A b \in Accounts : b # a => password'[b] = password[b]
    BY <1>4, <2>1 DEF InstanceInv
  <2>3. password'[a] \in Nat
    BY <2>1, <2>2
  <2> DEFINE row == [rows[s] EXCEPT !.with = password'[a]]
  <2>4. row \in RowType /\ row.of = a /\ row.with = password'[a]
    BY <1>2, <2>3 DEF RowType
  <2>5. rows' = [rows EXCEPT ![s] = row]
    BY <1>4
  <2> HIDE DEF a, row
  <2>6. /\ rows' \in Seq(RowType) /\ Sessions' = Sessions
        /\ rows'[s] = row /\ \A t \in Sessions : t # s => rows'[t] = rows[t]
    BY <1>2, <2>4, <2>5 DEF Sessions
  <2>7. \A t \in Sessions : rows'[t].of = rows[t].of
    BY <2>4, <2>6 DEF a
  <2>8. \A t \in Held : OwnerOf(t)' = OwnerOf(t)
    BY <2>7 DEF OwnerOf, Held
  <2>9. LiveKnowsThePassword'
    <3> SUFFICES ASSUME NEW t \in live' PROVE rows'[t].with = password'[rows'[t].of]
      BY DEF LiveKnowsThePassword
    <3>1. CASE t = s
      BY <2>4, <2>6, <3>1
    <3>2. CASE t # s
      <4>1. t \in live /\ t \in Sessions /\ rows[t].of # a /\ rows[t].of \in Accounts
        BY <1>1, <1>2, <3>2 DEF a, RowType
      <4>2. rows'[t] = rows[t] /\ rows[t].with = password[rows[t].of]
        BY <2>6, <3>2, <4>1 DEF InstanceInv, LiveKnowsThePassword
      <4> QED
        BY <2>2, <4>1, <4>2
    <3> QED
      BY <3>1, <3>2
  <2> QED
    BY <1>1, <1>2, <1>4, <2>2, <2>6, <2>8, <2>9 DEF InstanceInv, SessionsStand
<1> QED
  BY <1>3, <1>4 DEF Carried

(* Sessions that end change nothing else.                                  *)
LEMMA FewerKeeps ==
    ASSUME InstanceInv, live' \subseteq live, UNCHANGED <<rows, password>>
    PROVE  InstanceInv' /\ SessionsStand /\ Sessions' = Sessions
BY DEF InstanceInv, LiveKnowsThePassword, SessionsStand, Sessions, OwnerOf

-----------------------------------------------------------------------------
(* The page.                                                               *)

(* Sessions that stand leave the page and its calls as they are.           *)
LEMMA PageStands ==
    ASSUME PageIsOfItsCookie, SessionsStand, UNCHANGED page, changes' \in Nat
    PROVE  PageIsOfItsCookie'
<1>1. Held \subseteq Held'
  BY DEF SessionsStand, Held
<1>2. OwnerOf(cookie)' = OwnerOf(cookie)
  BY DEF PageIsOfItsCookie, SessionsStand, page, OwnerOf
<1> QED
  BY <1>1, <1>2 DEF PageIsOfItsCookie, SessionsStand, page

LEMMA CallsStand ==
    ASSUME CallsAreOfTheirKind, SessionsStand, UNCHANGED <<calls, elsewhere>>
    PROVE  CallsAreOfTheirKind'
BY DEF CallsAreOfTheirKind, SessionsStand, Held

LEMMA NothingChanges ==
    ASSUME Inv, UNCHANGED instance
    PROVE  InstanceInv' /\ SessionsStand /\ Sessions' = Sessions
BY FewerKeeps DEF Inv, instance

(* One call changes: the others are as they were.                          *)
LEMMA OneCall ==
    ASSUME CallsAreOfTheirKind, NEW k \in Kinds, NEW call \in Call \cup {Idle}, calls' = Sent(k, call)
    PROVE  /\ calls' \in [Kinds -> Call \cup {Idle}]
           /\ calls'[k] = call /\ \A j \in Kinds : j # k => calls'[j] = calls[j]
BY DEF CallsAreOfTheirKind, Sent

LEMMA DoneIsSent == ASSUME NEW k PROVE Done(k) = Sent(k, Idle)
BY DEF Done, Sent

LEMMA KindFacts ==
    /\ Reads \subseteq Kinds /\ Kinds = {"me", "libraries", "signIn", "signOut", "settings"}
    /\ "signIn" \in Kinds \ Reads /\ "signOut" \in Kinds \ Reads /\ "settings" \in Kinds \ Reads
BY DEF Kinds, Reads

(* The cache is emptied: no query is on its way, and nothing is refused.   *)
LEMMA ClearFacts ==
    ASSUME NEW kept \in [Kinds -> Call \cup {Idle}], Clear(kept)
    PROVE  /\ refused' = FALSE
           /\ calls' \in [Kinds -> Call \cup {Idle}]
           /\ \A k \in Reads : calls'[k] = Idle
           /\ \A k \in Kinds \ Reads : calls'[k] = kept[k]
BY KindFacts DEF Clear

(* What is sent for a session is a call.                                   *)
LEMMA HeldCalls ==
    ASSUME InstanceInv, NEW s \in Held
    PROVE  /\ [as |-> s] \in Call /\ [as |-> s] # Idle
           /\ s \in Nat
<1>1. s \in Nat
  <2>1. rows \in Seq(RowType)
    BY DEF InstanceInv
  <2>2. DOMAIN rows = 1 .. Len(rows) /\ Len(rows) \in Nat
    BY <2>1
  <2> QED
    BY <2>2 DEF Held, Sessions
<1>2. [as |-> s] \in Call
  BY <1>1 DEF Call
<1> QED
  BY <1>1, <1>2, SessionAssumption

(* A session belongs to an account, no session to nobody.                  *)
LEMMA Owners ==
    ASSUME InstanceInv, NEW s \in Held
    PROVE  OwnerOf(s) \in Accounts \cup {Nobody}
<1>1. rows \in Seq(RowType)
  BY DEF InstanceInv
<1>2. \A t \in DOMAIN rows : rows[t] \in RowType
  BY <1>1
<1>3. \A t \in DOMAIN rows : rows[t].of \in Accounts
  BY <1>2 DEF RowType
<1> QED
  BY <1>3 DEF OwnerOf, Held, Sessions

-----------------------------------------------------------------------------
(* Each action keeps the invariant.                                        *)

LEMMA AskKeeps == ASSUME Inv, AskMe \/ AskLibraries PROVE Inv'
<1>1. PICK k \in Reads : /\ calls' = Sent(k, [as |-> cookie])
                         /\ UNCHANGED <<instance, page, elsewhere, changes>>
  BY DEF AskMe, AskLibraries, Reads
<1>2. [as |-> cookie] \in Call
  BY HeldCalls DEF Inv, PageIsOfItsCookie
<1>3. /\ calls' \in [Kinds -> Call \cup {Idle}]
      /\ calls'[k] = [as |-> cookie] /\ \A j \in Kinds : j # k => calls'[j] = calls[j]
  BY <1>1, <1>2, OneCall, KindFacts DEF Inv
<1>4. InstanceInv' /\ SessionsStand /\ Sessions' = Sessions
  BY <1>1, NothingChanges
<1>5. PageIsOfItsCookie'
  BY <1>1, <1>4, PageStands DEF Inv, PageIsOfItsCookie
<1>6. ReadsAreCurrent'
  BY <1>1, <1>3, KindFacts DEF Inv, ReadsAreCurrent, page
<1>7. CallsAreOfTheirKind'
  BY <1>1, <1>3, <1>4, KindFacts DEF Inv, CallsAreOfTheirKind, Held
<1> QED
  BY <1>4, <1>5, <1>6, <1>7 DEF Inv

LEMMA SignInKeeps == ASSUME Inv, NEW a \in Accounts, SignIn(a) PROVE Inv'
<1>1. [of |-> a] \in Call
  BY DEF Call
<1>2. /\ calls' \in [Kinds -> Call \cup {Idle}]
      /\ calls'["signIn"] = [of |-> a] /\ \A j \in Kinds : j # "signIn" => calls'[j] = calls[j]
  BY <1>1, OneCall, KindFacts DEF SignIn, Inv
<1>3. InstanceInv' /\ SessionsStand /\ Sessions' = Sessions
  BY NothingChanges DEF SignIn
<1>4. PageIsOfItsCookie'
  BY <1>3, PageStands DEF SignIn, Inv, PageIsOfItsCookie
<1>5. ReadsAreCurrent'
  BY <1>2, KindFacts DEF SignIn, Inv, ReadsAreCurrent, page
<1>6. CallsAreOfTheirKind'
  BY <1>2, <1>3, KindFacts DEF SignIn, Inv, CallsAreOfTheirKind, Held
<1> QED
  BY <1>3, <1>4, <1>5, <1>6 DEF Inv

LEMMA SignOutKeeps == ASSUME Inv, SignOut PROVE Inv'
<1>1. [as |-> cookie] \in Call /\ cookie \in Held
  BY HeldCalls DEF Inv, PageIsOfItsCookie
<1>2. /\ calls' \in [Kinds -> Call \cup {Idle}]
      /\ calls'["signOut"] = [as |-> cookie]
      /\ \A j \in Kinds : j # "signOut" => calls'[j] = calls[j]
  BY <1>1, OneCall, KindFacts DEF SignOut, Inv
<1>3. InstanceInv' /\ SessionsStand /\ Sessions' = Sessions
  BY NothingChanges DEF SignOut
<1>4. PageIsOfItsCookie'
  BY <1>3 DEF SignOut, Inv, PageIsOfItsCookie, instance, OwnerOf, Held
<1>5. ReadsAreCurrent'
  BY <1>2, KindFacts DEF SignOut, Inv, ReadsAreCurrent
<1>6. CallsAreOfTheirKind'
  BY <1>1, <1>2, <1>3, KindFacts DEF SignOut, Inv, CallsAreOfTheirKind, Held
<1> QED
  BY <1>3, <1>4, <1>5, <1>6 DEF Inv

LEMMA SettingsKeeps == ASSUME Inv, NEW is \in Changing, Settings(is) PROVE Inv'
<1> DEFINE write == [at |-> "sent", is |-> is, as |-> cookie]
<1>1. write \in Call /\ cookie \in Held
  BY HeldCalls DEF Inv, PageIsOfItsCookie, Call
<1>2. write \in [at : {"sent"}, is : Changing, as : Held]
  BY <1>1
<1>3. calls' = Sent("settings", write)
  BY DEF Settings
<1> HIDE DEF write
<1>4. /\ calls' \in [Kinds -> Call \cup {Idle}]
      /\ calls'["settings"] = write
      /\ \A j \in Kinds : j # "settings" => calls'[j] = calls[j]
  BY <1>1, <1>3, OneCall, KindFacts DEF Inv
<1>5. InstanceInv' /\ SessionsStand /\ Sessions' = Sessions
  BY NothingChanges DEF Settings
<1>6. PageIsOfItsCookie'
  BY <1>5, PageStands DEF Settings, Inv, PageIsOfItsCookie
<1>7. ReadsAreCurrent'
  BY <1>4, KindFacts DEF Settings, Inv, ReadsAreCurrent, page
<1>8. CallsAreOfTheirKind'
  BY <1>2, <1>4, <1>5, KindFacts DEF Settings, Inv, CallsAreOfTheirKind, Held
<1> QED
  BY <1>5, <1>6, <1>7, <1>8 DEF Inv

(* A page that is loaded asks at most who it is, for the session it holds. *)
LEMMA OpeningFacts ==
    ASSUME InstanceInv, cookie \in Held
    PROVE  /\ Opening \in [Kinds -> Call \cup {Idle}]
           /\ \A k \in Reads : Opening[k] \in {Idle, [as |-> cookie]}
           /\ \A k \in Kinds \ Reads : Opening[k] = Idle
<1>1. [as |-> cookie] \in Call
  BY HeldCalls
<1>2. "me" \in Reads /\ Reads \subseteq Kinds
  BY KindFacts DEF Reads
<1> QED
  BY <1>1, <1>2 DEF Opening

LEMMA BackKeeps == ASSUME Inv, Back \/ Guard PROVE Inv'
<1>1. /\ UNCHANGED <<instance, cookie, cached, refused, ended, elsewhere, changes>>
      /\ place' \in {"signIn", "archive"}
      /\ calls' = calls \/ calls' = Sent("me", [as |-> cookie])
  BY DEF Back, Guard
<1>2. InstanceInv' /\ SessionsStand /\ Sessions' = Sessions
  BY <1>1, NothingChanges
<1>3. PageIsOfItsCookie'
  BY <1>1, <1>2 DEF Inv, PageIsOfItsCookie, instance, OwnerOf, Held
<1>4. CASE calls' = calls
  BY <1>1, <1>2, <1>3, <1>4, CallsStand DEF Inv, ReadsAreCurrent
<1>5. CASE calls' = Sent("me", [as |-> cookie])
  <2>1. [as |-> cookie] \in Call
    BY HeldCalls DEF Inv, PageIsOfItsCookie
  <2>2. "me" \in Reads
    BY DEF Reads
  <2>3. /\ calls' \in [Kinds -> Call \cup {Idle}]
        /\ calls'["me"] = [as |-> cookie] /\ \A j \in Kinds : j # "me" => calls'[j] = calls[j]
    BY <1>5, <2>1, <2>2, OneCall, KindFacts DEF Inv
  <2>4. ReadsAreCurrent'
    BY <1>1, <2>3, KindFacts DEF Inv, ReadsAreCurrent
  <2>5. CallsAreOfTheirKind'
    BY <1>1, <1>2, <2>2, <2>3, KindFacts DEF Inv, CallsAreOfTheirKind, Held
  <2> QED
    BY <1>2, <1>3, <2>4, <2>5 DEF Inv
<1> QED
  BY <1>1, <1>4, <1>5

LEMMA ReloadKeeps == ASSUME Inv, Reload PROVE Inv'
<1>1. InstanceInv' /\ SessionsStand /\ Sessions' = Sessions
  BY NothingChanges DEF Reload
<1>2. PageIsOfItsCookie'
  BY <1>1 DEF Reload, Inv, PageIsOfItsCookie, Held, Nothing
<1>3. calls' = Opening /\ UNCHANGED <<cookie, elsewhere>>
  BY DEF Reload
<1>4. /\ Opening \in [Kinds -> Call \cup {Idle}]
      /\ \A k \in Reads : Opening[k] \in {Idle, [as |-> cookie]}
      /\ \A k \in Kinds \ Reads : Opening[k] = Idle
  BY OpeningFacts DEF Inv, PageIsOfItsCookie
<1>5. ReadsAreCurrent'
  BY <1>3, <1>4 DEF ReadsAreCurrent
<1>6. CallsAreOfTheirKind'
  BY <1>1, <1>3, <1>4, KindFacts DEF Inv, CallsAreOfTheirKind
<1> QED
  BY <1>1, <1>2, <1>5, <1>6 DEF Inv

LEMMA ReadKeeps == ASSUME Inv, NEW k, ReadAnswered(k) \/ ReadRefused(k) PROVE Inv'
<1>1. k \in Reads /\ calls[k] # Idle /\ calls' = Sent(k, Idle)
  BY DoneIsSent DEF ReadAnswered, ReadRefused, OnItsWay
<1>2. calls[k].as = cookie
  BY <1>1 DEF Inv, ReadsAreCurrent
<1>3. /\ calls' \in [Kinds -> Call \cup {Idle}]
      /\ calls'[k] = Idle /\ \A j \in Kinds : j # k => calls'[j] = calls[j]
  BY <1>1, OneCall, KindFacts DEF Inv
<1>4. InstanceInv' /\ SessionsStand /\ Sessions' = Sessions
  BY NothingChanges DEF ReadAnswered, ReadRefused
<1>5. ReadsAreCurrent'
  BY <1>1, <1>3, KindFacts DEF ReadAnswered, ReadRefused, Inv, ReadsAreCurrent
<1>6. CallsAreOfTheirKind'
  BY <1>1, <1>3, <1>4, KindFacts DEF ReadAnswered, ReadRefused, Inv, CallsAreOfTheirKind, Held
<1>7. PageIsOfItsCookie'
  <2>1. CASE ReadAnswered(k)
    <3>1. OwnerOf(cookie) \in Accounts \cup {Nobody}
      BY Owners DEF Inv, PageIsOfItsCookie
    <3> QED
      BY <1>1, <1>2, <1>4, <2>1, <3>1
      DEF ReadAnswered, Inv, PageIsOfItsCookie, instance, OwnerOf, Held
  <2>2. CASE ReadRefused(k)
    BY <1>1, <1>2, <1>4, <2>2
    DEF ReadRefused, Resolves, Inv, PageIsOfItsCookie, instance, OwnerOf, Held
  <2> QED
    BY <2>1, <2>2
<1> QED
  BY <1>4, <1>5, <1>6, <1>7 DEF Inv

LEMMA AdmitKeeps == ASSUME Inv, Admit PROVE Inv'
<1> DEFINE a == calls["signIn"].of
<1>1. a \in Accounts
  BY DEF Admit, OnItsWay, Inv, CallsAreOfTheirKind
<1>2. /\ InstanceInv' /\ SessionsStand
      /\ Len(rows) + 1 \in Sessions'
  BY <1>1, OpenedKeeps DEF Admit, Inv
<1>3. [as |-> Len(rows) + 1] \in Call
  BY DEF Inv, InstanceInv, Call
<1>4. /\ calls' \in [Kinds -> Call \cup {Idle}]
      /\ calls'["signIn"] = [as |-> Len(rows) + 1]
      /\ \A j \in Kinds : j # "signIn" => calls'[j] = calls[j]
  BY <1>3, OneCall, KindFacts DEF Admit, Inv
<1>5. PageIsOfItsCookie'
  BY <1>2, PageStands DEF Admit, Inv, PageIsOfItsCookie
<1>6. ReadsAreCurrent'
  BY <1>4, KindFacts DEF Admit, Inv, ReadsAreCurrent, page
<1>7. CallsAreOfTheirKind'
  BY <1>2, <1>4, KindFacts DEF Admit, Inv, CallsAreOfTheirKind, SessionsStand, Held
<1> QED
  BY <1>2, <1>5, <1>6, <1>7 DEF Inv

LEMMA SignedInKeeps == ASSUME Inv, SignedIn PROVE Inv'
<1>1. PICK s \in Sessions : s = calls["signIn"].as
  BY DEF SignedIn, OnItsWay, Inv, CallsAreOfTheirKind
<1> DEFINE kept == Done("signIn")
<1>2. kept \in [Kinds -> Call \cup {Idle}] /\ kept["signIn"] = Idle
      /\ \A j \in Kinds : j # "signIn" => kept[j] = calls[j]
  BY DEF Done, Inv, CallsAreOfTheirKind, Kinds
<1>3. /\ cookie' = s /\ Clear(kept) /\ cached' = [Nothing EXCEPT !["me"] = OwnerOf(s)]
      /\ place' = "archive" /\ UNCHANGED <<instance, ended, elsewhere, changes>>
  BY <1>1 DEF SignedIn, Arrive
<1> HIDE DEF kept
<1>4. /\ refused' = FALSE /\ calls' \in [Kinds -> Call \cup {Idle}]
      /\ \A k \in Reads : calls'[k] = Idle
      /\ \A k \in Kinds \ Reads : calls'[k] = kept[k]
  BY <1>2, <1>3, ClearFacts
<1>5. InstanceInv' /\ SessionsStand /\ Sessions' = Sessions
  BY <1>3, NothingChanges
<1>6. /\ OwnerOf(s) \in Accounts \cup {Nobody} /\ OwnerOf(s)' = OwnerOf(s)
      /\ s \in Held
  BY <1>1, <1>3, Owners DEF Inv, Held, OwnerOf, instance
<1>7. PageIsOfItsCookie'
  BY <1>3, <1>4, <1>5, <1>6 DEF Inv, PageIsOfItsCookie, SessionsStand, Held, Nothing, Reads, OwnerOf, instance
<1>8. ReadsAreCurrent'
  BY <1>4 DEF ReadsAreCurrent
<1>9. CallsAreOfTheirKind'
  BY <1>2, <1>3, <1>4, <1>5, KindFacts DEF Inv, CallsAreOfTheirKind, Held
<1> QED
  BY <1>5, <1>7, <1>8, <1>9 DEF Inv

LEMMA SignOutEndsKeeps == ASSUME Inv, SignedOut \/ SignOutRefused \/ SignOutLost PROVE Inv'
<1> DEFINE kept == Done("signOut")
<1>1. PICK s \in Held : s = calls["signOut"].as
  BY DEF SignedOut, SignOutRefused, SignOutLost, OnItsWay, Inv, CallsAreOfTheirKind
<1>2. kept \in [Kinds -> Call \cup {Idle}] /\ kept["signOut"] = Idle
      /\ \A j \in Kinds : j # "signOut" => kept[j] = calls[j]
  BY DEF Done, Inv, CallsAreOfTheirKind, Kinds
<1>3. /\ Clear(kept) /\ cached' = Nothing
      /\ UNCHANGED <<rows, password, place, elsewhere, changes>>
      /\ live' \subseteq live
      /\ cookie' \in {0, cookie}
      /\ ended' = ended \/ (ended' = s /\ s \notin live)
  <2>1. Clear(kept) /\ cached' = Nothing /\ UNCHANGED place
    BY DEF SignedOut, SignOutRefused, SignOutLost, SignOutSettled
  <2> HIDE DEF kept
  <2>2. live \ {s} \subseteq live
    OBVIOUS
  <2>3. CASE SignedOut
    BY <1>1, <2>1, <2>2, <2>3 DEF SignedOut, Revoked, SignOutSettled
  <2>4. CASE SignOutRefused
    BY <1>1, <2>1, <2>4 DEF SignOutRefused, Resolves, instance
  <2>5. CASE SignOutLost
    BY <1>1, <2>1, <2>2, <2>5 DEF SignOutLost, Revoked
  <2> QED
    BY <2>3, <2>4, <2>5
<1> HIDE DEF kept
<1>4. /\ refused' = FALSE /\ calls' \in [Kinds -> Call \cup {Idle}]
      /\ \A k \in Reads : calls'[k] = Idle
      /\ \A k \in Kinds \ Reads : calls'[k] = kept[k]
  BY <1>2, <1>3, ClearFacts
<1>5. InstanceInv' /\ SessionsStand /\ Sessions' = Sessions
  BY <1>3, FewerKeeps DEF Inv
<1>6. PageIsOfItsCookie'
  BY <1>1, <1>3, <1>4, <1>5 DEF Inv, PageIsOfItsCookie, Held, Nothing
<1>7. ReadsAreCurrent'
  BY <1>4 DEF ReadsAreCurrent
<1>8. CallsAreOfTheirKind'
  BY <1>2, <1>3, <1>4, <1>5, KindFacts DEF Inv, CallsAreOfTheirKind, Held
<1> QED
  BY <1>5, <1>6, <1>7, <1>8 DEF Inv

LEMMA ExpireKeeps == ASSUME Inv, Expire PROVE Inv'
<1>1. calls \in [Kinds -> Call \cup {Idle}]
  BY DEF Inv, CallsAreOfTheirKind
<1>2. /\ refused' = FALSE /\ calls' \in [Kinds -> Call \cup {Idle}]
      /\ \A k \in Reads : calls'[k] = Idle
      /\ \A k \in Kinds \ Reads : calls'[k] = calls[k]
  BY <1>1, ClearFacts DEF Expire
<1>3. InstanceInv' /\ SessionsStand /\ Sessions' = Sessions
  BY NothingChanges DEF Expire
<1>4. PageIsOfItsCookie'
  BY <1>2, <1>3 DEF Expire, Inv, PageIsOfItsCookie, Held, Nothing
<1>5. ReadsAreCurrent'
  BY <1>2 DEF ReadsAreCurrent
<1>6. CallsAreOfTheirKind'
  BY <1>2, <1>3, KindFacts DEF Expire, Inv, CallsAreOfTheirKind, Held
<1> QED
  BY <1>3, <1>4, <1>5, <1>6 DEF Inv

LEMMA ResolveKeeps == ASSUME Inv, Resolve PROVE Inv'
<1> DEFINE call == calls["settings"]
           write == [call EXCEPT !.at = "resolved"]
<1>1. call \in [at : {"sent"}, is : Changing, as : Held] /\ call.as \in live
  BY DEF Resolve, OnItsWay, Resolves, Inv, CallsAreOfTheirKind
<1>2. call.as \in Sessions
  BY <1>1 DEF Inv, InstanceInv
<1>3. /\ write \in [at : {"resolved"}, is : Changing, as : Sessions]
      /\ write.as = call.as /\ write.at = "resolved" /\ write.is \in Changing
  BY <1>1, <1>2
<1>4. write \in Call
  <2>1. call.as \in Nat
    BY <1>2, HeldCalls DEF Inv, Held
  <2> QED
    BY <1>1, <2>1 DEF Call
<1>5. calls' = Sent("settings", write)
  BY DEF Resolve, Sent
<1> HIDE DEF call, write
<1>6. /\ calls' \in [Kinds -> Call \cup {Idle}]
      /\ calls'["settings"] = write
      /\ \A j \in Kinds : j # "settings" => calls'[j] = calls[j]
  BY <1>4, <1>5, OneCall, KindFacts DEF Inv
<1>7. InstanceInv' /\ SessionsStand /\ Sessions' = Sessions
  BY NothingChanges DEF Resolve
<1>8. PageIsOfItsCookie'
  BY <1>7, PageStands DEF Resolve, Inv, PageIsOfItsCookie
<1>9. ReadsAreCurrent'
  BY <1>6, KindFacts DEF Resolve, Inv, ReadsAreCurrent, page
<1>10. CallsAreOfTheirKind'
  BY <1>3, <1>6, <1>7, KindFacts DEF Resolve, Inv, CallsAreOfTheirKind, Held
<1> QED
  BY <1>7, <1>8, <1>9, <1>10 DEF Inv

LEMMA CarryOutKeeps == ASSUME Inv, CarryOut PROVE Inv'
<1> DEFINE s == calls["settings"].as
<1>1. s \in Sessions
  BY DEF CarryOut, OnItsWay, Inv, CallsAreOfTheirKind
<1>2. InstanceInv' /\ SessionsStand /\ changes' \in Nat
  BY <1>1, CarriedKeeps DEF CarryOut, Inv, PageIsOfItsCookie
<1>3. calls' = Sent("settings", Idle)
  BY DoneIsSent DEF CarryOut
<1>4. /\ calls' \in [Kinds -> Call \cup {Idle}]
      /\ calls'["settings"] = Idle
      /\ \A j \in Kinds : j # "settings" => calls'[j] = calls[j]
  BY <1>3, OneCall, KindFacts DEF Inv
<1>5. PageIsOfItsCookie'
  BY <1>2, PageStands DEF CarryOut, Inv
<1>6. ReadsAreCurrent'
  BY <1>4, KindFacts DEF CarryOut, Inv, ReadsAreCurrent, page
<1>7. CallsAreOfTheirKind'
  BY <1>2, <1>4, KindFacts DEF CarryOut, Inv, CallsAreOfTheirKind, SessionsStand, Held
<1> QED
  BY <1>2, <1>5, <1>6, <1>7 DEF Inv

LEMMA SettingsRefusedKeeps == ASSUME Inv, SettingsRefused PROVE Inv'
<1> DEFINE s == calls["settings"].as
<1>1. s \in Held /\ s \notin live
  BY DEF SettingsRefused, OnItsWay, Resolves, Inv, CallsAreOfTheirKind
<1>2. calls' = Sent("settings", Idle) /\ ended' = s
  BY DoneIsSent DEF SettingsRefused
<1> HIDE DEF s
<1>3. /\ calls' \in [Kinds -> Call \cup {Idle}]
      /\ calls'["settings"] = Idle
      /\ \A j \in Kinds : j # "settings" => calls'[j] = calls[j]
  BY <1>2, OneCall, KindFacts DEF Inv
<1>4. InstanceInv' /\ SessionsStand /\ Sessions' = Sessions
  BY NothingChanges DEF SettingsRefused
<1>5. PageIsOfItsCookie'
  BY <1>1, <1>2, <1>4 DEF SettingsRefused, Inv, PageIsOfItsCookie, instance, OwnerOf, Held
<1>6. ReadsAreCurrent'
  BY <1>3, KindFacts DEF SettingsRefused, Inv, ReadsAreCurrent
<1>7. CallsAreOfTheirKind'
  BY <1>3, <1>4, KindFacts DEF SettingsRefused, Inv, CallsAreOfTheirKind, Held
<1> QED
  BY <1>4, <1>5, <1>6, <1>7 DEF Inv

LEMMA OthersKeep == ASSUME Inv, Others PROVE Inv'
<1>1. /\ InstanceInv' /\ SessionsStand /\ UNCHANGED <<page, calls>> /\ changes' \in Nat
      /\ elsewhere' \in {Idle} \cup [is : Changing, as : Sessions]
  <2>1. CASE TheirsIsCarriedOut
    <3>1. elsewhere.as \in Sessions
      BY <2>1 DEF TheirsIsCarriedOut, Inv, CallsAreOfTheirKind
    <3> QED
      BY <2>1, <3>1, CarriedKeeps DEF TheirsIsCarriedOut, Inv, PageIsOfItsCookie
  <2>2. ASSUME NEW a \in Abroad, TheySignIn(a)
        PROVE  /\ InstanceInv' /\ SessionsStand
               /\ UNCHANGED <<page, calls, elsewhere, changes>>
    BY <2>2, OpenedKeeps, SessionAssumption DEF TheySignIn, Inv
  <2>3. ASSUME NEW k \in Changing, NEW s \in Theirs, TheyAsk(k, s)
        PROVE  /\ InstanceInv' /\ SessionsStand /\ UNCHANGED <<page, calls, changes>>
               /\ elsewhere' \in [is : Changing, as : Sessions]
    BY <2>3, NothingChanges DEF TheyAsk, Theirs
  <2>4. CASE \/ \E s, t \in Sessions : TheyRevoke(s, t)
             \/ \E s \in Sessions : Lapse(s)
    BY <2>4, FewerKeeps DEF TheyRevoke, Lapse, Revoked, Inv, CallsAreOfTheirKind, PageIsOfItsCookie
  <2> QED
    BY <2>1, <2>2, <2>3, <2>4 DEF Others, Inv, CallsAreOfTheirKind, PageIsOfItsCookie
<1>2. PageIsOfItsCookie'
  BY <1>1, PageStands DEF Inv
<1>3. ReadsAreCurrent'
  BY <1>1 DEF Inv, ReadsAreCurrent, page
<1>4. CallsAreOfTheirKind'
  BY <1>1 DEF Inv, CallsAreOfTheirKind, SessionsStand, Held
<1> QED
  BY <1>1, <1>2, <1>3, <1>4 DEF Inv

LEMMA InitInv == Init => Inv
<1> SUFFICES ASSUME Init PROVE Inv
  OBVIOUS
<1>1. InstanceInv
  BY DEF Init, InstanceInv, LiveKnowsThePassword
<1>2. /\ Opening \in [Kinds -> Call \cup {Idle}]
      /\ \A k \in Reads : Opening[k] \in {Idle, [as |-> cookie]}
      /\ \A k \in Kinds \ Reads : Opening[k] = Idle
  BY <1>1, OpeningFacts DEF Init, Held
<1>4. ReadsAreCurrent /\ CallsAreOfTheirKind
  BY <1>2, KindFacts DEF Init, ReadsAreCurrent, CallsAreOfTheirKind
<1>3. PageIsOfItsCookie
  BY DEF Init, PageIsOfItsCookie, Held, Nothing
<1> QED
  BY <1>1, <1>3, <1>4 DEF Inv

LEMMA StepInv == Inv /\ [Next]_vars => Inv'
<1> SUFFICES ASSUME Inv, [Next]_vars PROVE Inv'
  OBVIOUS
<1>1. CASE Calls
  BY <1>1, AdmitKeeps, SignedInKeeps, SignOutEndsKeeps, ResolveKeeps, CarryOutKeeps,
     SettingsRefusedKeeps, ReadKeeps DEF Calls
<1>2. CASE Page
  BY <1>2, AskKeeps, BackKeeps, ExpireKeeps DEF Page
<1>3. CASE Person
  BY <1>3, SignOutKeeps, BackKeeps, ReloadKeeps, SignInKeeps, SettingsKeeps DEF Person
<1>4. CASE Others
  BY <1>4, OthersKeep
<1>5. CASE UNCHANGED vars
  BY <1>5 DEF vars, Inv, InstanceInv, ReadsAreCurrent, CallsAreOfTheirKind, PageIsOfItsCookie,
     LiveKnowsThePassword, Sessions, Held, OwnerOf
<1> QED
  BY <1>1, <1>2, <1>3, <1>4, <1>5 DEF Next

-----------------------------------------------------------------------------
(* What the page shows, and what sends it away.                            *)

LEMMA InvShape == Inv => TypeOK
<1> SUFFICES ASSUME Inv PROVE TypeOK
  OBVIOUS
<1>1. /\ rows \in Seq([of : Accounts, on : {"here", "elsewhere"}, with : Nat])
      /\ live \subseteq Sessions /\ password \in [Accounts -> Nat]
  BY DEF Inv, InstanceInv, RowType
<1> QED
  BY <1>1 DEF Inv, PageIsOfItsCookie, CallsAreOfTheirKind, TypeOK, Held

(* What is remembered is of the cookie's account, so of one at most.       *)
LEMMA InvOneAccount == Inv => OneAccount
<1> SUFFICES ASSUME Inv PROVE OneAccount
  OBVIOUS
<1> DEFINE shown == {cached[k] : k \in Reads} \ {Nobody}
<1>1. shown \subseteq {OwnerOf(cookie)}
  BY DEF Inv, PageIsOfItsCookie
<1>2. /\ IsFiniteSet({OwnerOf(cookie)}) /\ Cardinality({OwnerOf(cookie)}) = 1
  BY FS_Singleton
<1>3. Cardinality(shown) <= 1
  BY <1>1, <1>2, FS_Subset
<1> QED
  BY <1>1, <1>3 DEF OneAccount

LEMMA InvSession == Inv => SessionInv
BY InvShape, InvOneAccount DEF Inv, InstanceInv, SessionInv

(* A page, its cookie and the instance never tell of two people, nor a     *)
(* session of a password that has gone (app/session.ts arrive,             *)
(* db/sessions.py revoke_all).                                             *)
THEOREM OnePersonAtATime == Spec => []SessionInv
<1>1. Spec => []Inv
  BY InitInv, StepInv, PTL DEF Spec
<1> QED
  BY <1>1, InvSession, PTL

(* A page whose session is good is sent to the sign-in screen by its       *)
(* person, or by the late answer to a write of a session before it         *)
(* (RequireSession, SessionExpiry).                                        *)
THEOREM OnlyACauseSendsAway == Spec => LeavesForACause
<1>1. Spec => []Inv
  BY InitInv, StepInv, PTL DEF Spec
<1>2. ASSUME Inv, [Next]_vars
      PROVE  [place = "archive" /\ place' = "signIn" /\ cookie \in live =>
                \/ calls'["signOut"] # calls["signOut"]
                \/ ~refused /\ ended \notin {Quiet, cookie}]_vars
  <2> SUFFICES ASSUME Next, place = "archive", place' = "signIn", cookie \in live
               PROVE  \/ calls'["signOut"] # calls["signOut"]
                      \/ ~refused /\ ended \notin {Quiet, cookie}
    BY <1>2
  <2>1. ~refused /\ (ended # Quiet => ended # cookie)
    BY <1>2 DEF Inv, PageIsOfItsCookie
  <2>2. CASE SignOut
    <3>1. [as |-> cookie] # Idle
      BY <1>2, HeldCalls DEF Inv, PageIsOfItsCookie
    <3>2. "signOut" \in DOMAIN calls
      BY <1>2, KindFacts DEF Inv, CallsAreOfTheirKind
    <3> QED
      BY <2>2, <3>1, <3>2 DEF SignOut, Sent
  <2>3. CASE Expire
    BY <2>1, <2>3 DEF Expire
  <2>4. CASE Calls
    BY <2>4 DEF Calls, Admit, SignedIn, Arrive, SignedOut, SignOutRefused, SignOutLost, SignOutSettled,
       Resolve, CarryOut, SettingsRefused, ReadAnswered, ReadRefused, page
  <2>5. CASE Others
    BY <2>5 DEF Others, TheirsIsCarriedOut, TheySignIn, TheyAsk, TheyRevoke, Lapse, page
  <2>6. CASE AskMe \/ AskLibraries \/ Guard
    BY <2>1, <2>6 DEF AskMe, AskLibraries, Guard, page
  <2>7. CASE Back \/ Reload \/ (\E a \in Accounts : SignIn(a)) \/ \E is \in Changing : Settings(is)
    BY <2>7 DEF Back, Reload, SignIn, Settings, page
  <2> QED
    BY <2>2, <2>3, <2>4, <2>5, <2>6, <2>7 DEF Next, Page, Person
<1> QED
  BY <1>1, <1>2, PTL DEF Spec, LeavesForACause

-----------------------------------------------------------------------------
(* A recording's opened *)

Columns == [at : 0..P!Bottom, target : 0..P!Bottom \cup {P!Still}, ours : 0..Window,
            theirs : BOOLEAN, astray : BOOLEAN]
Drags == [held : P!Surfaces \cup {"up"}, scrub : SUBSET P!Surfaces,
          preview : SUBSET P!Surfaces, lost : SUBSET P!Surfaces]

\* A scroll that is under way has somewhere to go, and its window is open.
Claimed(c) == c.target # P!Still => c.target # c.at /\ c.ours > 0

\* A readout is of the drag that is held, or its drag was taken from under it.
Explained(d) == \A w \in d.preview : (w \in d.scrub /\ d.held = w) \/ w \in d.lost

\* The panel says it is shown exactly while the picture is its own.
PictureIsThePanels ==
    /\ opened = NoRecording => onScreen = NoRecording
    /\ opened # NoRecording => onScreen \in {NoRecording, opened} /\ (fade.shown <=> onScreen = opened)
    /\ fade.opacity = "full" => fade.shown
    /\ fade.opacity = "gone" => ~fade.shown

FollowInv  == column \in Columns /\ Claimed(column) /\ (~following => column.target = P!Still)
DragInv    == drag \in Drags /\ Explained(drag)

PageInOrder ==
    /\ loaded \in Recordings \cup {NoRecording} /\ line \in P!Lines
    /\ opened \in Recordings \cup {NoRecording} /\ onScreen \in Recordings \cup {NoRecording}
    /\ following \in BOOLEAN
    /\ fade \in [opacity : {"full", "dim", "gone"}, shown : BOOLEAN]
    /\ FollowInv /\ PictureIsThePanels /\ DragInv

\* The middle of the column for any line is a place in it.
LEMMA CentreIsInside ==
  ASSUME NEW i \in P!Lines
  PROVE  P!Centre(i) \in 0..P!Bottom
<1>1. Last \in Nat /\ Half \in Nat /\ Panel \in Nat
  BY PageAssumption
<1> QED
  BY <1>1 DEF P!Centre, P!Bottom, P!Lines

LEMMA SizesAreNumbers == P!Bottom \in Nat /\ Window \in Nat /\ Window > 0 /\ P!Still = -1
BY PageAssumption DEF P!Bottom, P!Still

\* A scroll to a line claims its window, and leaves the column where it is.
LEMMA CentredOnIsClaimed ==
  ASSUME NEW c \in Columns, Claimed(c), NEW i \in P!Lines
  PROVE  /\ P!CentredOn(c, i) \in Columns /\ Claimed(P!CentredOn(c, i))
         /\ P!CentredOn(c, i).theirs = c.theirs /\ P!CentredOn(c, i).at = c.at
<1>1. P!Centre(i) \in 0..P!Bottom
  BY CentreIsInside
<1> HIDE DEF P!Bottom
<1>2. CASE c.at = P!Centre(i)
  BY <1>2 DEF P!CentredOn, Columns, Claimed
<1>3. CASE c.at # P!Centre(i)
  <2>1. P!CentredOn(c, i) = [c EXCEPT !.target = P!Centre(i), !.ours = Window, !.astray = FALSE]
    BY <1>3 DEF P!CentredOn
  <2>2. P!Centre(i) \in 0..P!Bottom \cup {P!Still} /\ Window \in 0..Window
    BY <1>1, SizesAreNumbers
  <2>3. P!CentredOn(c, i) \in Columns
    BY <2>1, <2>2 DEF Columns
  <2> QED
    BY <1>3, <2>1, <2>3, SizesAreNumbers DEF Columns, Claimed
<1> QED
  BY <1>2, <1>3

\* What becomes of the sound and the opened scrolls only a column that follows.
LEMMA FollowedKeeps ==
  ASSUME FollowInv, following \in BOOLEAN, NEW l, NEW i \in P!Lines, NEW p, NEW f \in BOOLEAN,
         following => f, line \in P!Lines, P!Followed(l, i, p, f)
  PROVE  /\ FollowInv' /\ following' = f /\ loaded' = l /\ line' = i /\ opened' = p
         /\ column'.theirs = column.theirs
<1> DEFINE now == IF p # NoRecording /\ p = l THEN i ELSE P!NoLine
<1>1. /\ following' = f /\ loaded' = l /\ line' = i /\ opened' = p
      /\ \/ column' = column
         \/ f /\ now # P!NoLine /\ column' = P!CentredOn(column, now)
  BY DEF P!Followed
<1>2. CASE column' = column
  BY <1>1, <1>2 DEF FollowInv
<1>3. CASE f /\ now # P!NoLine /\ column' = P!CentredOn(column, now)
  <2>1. now = i
    BY <1>3
  <2> QED
    BY <1>1, <1>3, <2>1, CentredOnIsClaimed DEF FollowInv
<1> QED
  BY <1>1, <1>2, <1>3

\* A waveform that is taken away explains the readout it leaves.
LEMMA KeptIsExplained ==
  ASSUME DragInv, NEW gone \in SUBSET P!Surfaces
  PROVE  P!Kept(gone) \in Drags /\ Explained(P!Kept(gone))
BY DEF DragInv, Drags, Explained, P!Kept

LEMMA BarGoneIsASurface ==
  ASSUME NEW l, NEW s
  PROVE  P!BarGone(l, s) \in SUBSET P!Surfaces
BY DEF P!BarGone, P!Surfaces

\* The panel is drawn as the column stands, and takes or gives back the picture with it.
LEMMA DrawKeepsThePicture ==
  ASSUME PageInOrder, opened # NoRecording, NEW at, P!Draw(at), opened' = opened
  PROVE  /\ PictureIsThePanels' /\ onScreen' \in Recordings \cup {NoRecording}
         /\ fade' \in [opacity : {"full", "dim", "gone"}, shown : BOOLEAN]
<1>1. P!Opacity(at) \in {"full", "dim", "gone"}
  BY DEF P!Opacity
<1> DEFINE o == P!Opacity(at)
<1>2. /\ fade' = [opacity |-> o, shown |-> o = "full" \/ (fade.shown /\ o = "dim")]
      /\ onScreen' = IF ~fade.shown /\ o = "full" THEN opened
                     ELSE IF fade.shown /\ o = "gone"
                          THEN IF onScreen = opened THEN NoRecording ELSE onScreen
                          ELSE onScreen
  BY DEF P!Draw, P!show, P!hide
<1> HIDE DEF o
<1>3. o \in {"full", "dim", "gone"} /\ fade.shown \in BOOLEAN
  BY <1>1 DEF o, PageInOrder
<1>4. fade'.opacity = o /\ (fade'.shown <=> o = "full" \/ (fade.shown /\ o = "dim"))
  BY <1>2
<1> QED
  BY <1>2, <1>3, <1>4 DEF PageInOrder, PictureIsThePanels

LEMMA FrameKeeps ==
  ASSUME PageInOrder, P!Frame
  PROVE  /\ PageInOrder'
         /\ following /\ ~following' => column.theirs
<1> DEFINE moving == column.target # P!Still
           event == moving \/ column.theirs
           at == IF moving THEN P!Moved(column) ELSE column.at
<1>1. /\ column' = [column EXCEPT
                       !.at = at, !.theirs = FALSE,
                       !.target = IF at = @ THEN P!Still ELSE @,
                       !.ours = IF @ = 0 THEN 0 ELSE IF event THEN Window ELSE @ - 1,
                       !.astray = @ \/ (column.theirs /\ column.ours > 0)]
      /\ following' = (following /\ ~(event /\ column.ours = 0))
      /\ IF opened # NoRecording THEN P!Draw(at) ELSE UNCHANGED <<fade, onScreen>>
      /\ drag' = P!Kept(P!BarGone(loaded, onScreen'))
      /\ loaded' = loaded /\ line' = line /\ opened' = opened
  BY DEF P!Frame
<1>2. at \in 0..P!Bottom
  BY SizesAreNumbers DEF PageInOrder, FollowInv, Columns, Claimed, P!Moved
<1>3. column.ours \in Nat /\ column.theirs \in BOOLEAN /\ following \in BOOLEAN
  BY SizesAreNumbers DEF PageInOrder, FollowInv, Columns
<1>4. moving => following /\ column.ours > 0
  BY DEF PageInOrder, FollowInv, Claimed
<1> HIDE DEF at
<1> HIDE DEF event
<1>5. following /\ ~following' => event /\ column.ours = 0
  BY <1>1, <1>3
<1>9. following /\ ~following' => column.theirs
  BY <1>3, <1>4, <1>5 DEF event
<1>6. FollowInv'
  <2>1. column' \in Columns
    <3> DEFINE target == IF at = column.target THEN P!Still ELSE column.target
               ours == IF column.ours = 0 THEN 0 ELSE IF event THEN Window ELSE column.ours - 1
               astray == column.astray \/ (column.theirs /\ column.ours > 0)
    <3>1. target \in 0..P!Bottom \cup {P!Still}
      BY DEF PageInOrder, FollowInv, Columns
    <3>2. ours \in 0..Window
      BY SizesAreNumbers DEF PageInOrder, FollowInv, Columns
    <3>3. astray \in BOOLEAN
      BY DEF PageInOrder, FollowInv, Columns
    <3>4. column' = [column EXCEPT !.at = at, !.theirs = FALSE, !.target = target,
                                   !.ours = ours, !.astray = astray]
      BY <1>1 DEF PageInOrder, FollowInv, Columns
    <3> HIDE DEF target, ours, astray
    <3> QED
      BY <1>2, <3>1, <3>2, <3>3, <3>4 DEF PageInOrder, FollowInv, Columns
  <2>2. column'.target # P!Still =>
          moving /\ column'.target = column.target /\ column'.target # at /\ column'.at = at
    BY <1>1, <1>2, SizesAreNumbers DEF PageInOrder, FollowInv, Columns, at
  <2>3. moving => column'.ours = Window
    BY <1>1, <1>3, <1>4 DEF event, PageInOrder, FollowInv, Columns
  <2>4. column'.target # P!Still => following'
    BY <1>1, <1>3, <1>4, <2>2
  <2> QED
    BY <2>1, <2>2, <2>3, <2>4, SizesAreNumbers DEF FollowInv, Claimed
<1>7. /\ PictureIsThePanels' /\ onScreen' \in Recordings \cup {NoRecording}
      /\ fade' \in [opacity : {"full", "dim", "gone"}, shown : BOOLEAN]
  <2>1. CASE opened # NoRecording
    BY <1>1, <2>1, DrawKeepsThePicture
  <2>2. CASE opened = NoRecording
    BY <1>1, <2>2 DEF PageInOrder, PictureIsThePanels
  <2> QED
    BY <2>1, <2>2
<1>8. DragInv'
  <2>1. DragInv
    BY DEF PageInOrder
  <2> QED
    BY <1>1, <2>1, KeptIsExplained, BarGoneIsASurface DEF DragInv
<1> QED
  BY <1>1, <1>3, <1>9, <1>6, <1>7, <1>8 DEF PageInOrder

LEMMA ScrollsKeep ==
  ASSUME PageInOrder, NEW to \in 0..P!Bottom, P!Wheel(to) \/ P!Thumb(to)
  PROVE  /\ PageInOrder'
         /\ following /\ ~following' => column'.theirs
<1>1. /\ column' = [column EXCEPT !.at = to, !.target = P!Still, !.theirs = TRUE]
      /\ UNCHANGED <<loaded, line, opened, fade, onScreen, drag>>
      /\ following' \in {following, FALSE}
  BY DEF P!Wheel, P!Thumb, P!Scrolled
<1>2. column' \in Columns /\ column'.target = P!Still /\ column'.theirs
  BY <1>1 DEF PageInOrder, FollowInv, Columns
<1>3. FollowInv'
  BY <1>2 DEF FollowInv, Claimed
<1> QED
  BY <1>1, <1>2, <1>3 DEF PageInOrder, PictureIsThePanels, DragInv

\* What the sound does and what a line or the band asks for: nothing is released by it.
LEMMA SoundKeeps ==
  ASSUME PageInOrder,
         \/ P!Resume
         \/ \E i \in P!Lines : P!Speaks(i) \/ P!SeekTo(i)
         \/ \E r \in Recordings \cup {NoRecording} : P!Plays(r)
  PROVE  PageInOrder' /\ (following => following')
<1>1. FollowInv /\ following \in BOOLEAN /\ line \in P!Lines /\ DragInv
  BY DEF PageInOrder
<1>2. PICK l \in Recordings \cup {NoRecording}, i \in P!Lines, f \in BOOLEAN :
        /\ P!Followed(l, i, opened, f) /\ (following => f)
        /\ UNCHANGED <<fade, onScreen>>
        /\ drag' = drag \/ drag' = P!Kept(P!BarGone(l, onScreen))
  <2>1. CASE P!Resume
    BY <2>1, <1>1 DEF P!Resume, PageInOrder
  <2>2. ASSUME NEW i \in P!Lines, P!Speaks(i)
        PROVE  \E l \in Recordings \cup {NoRecording}, j \in P!Lines, f \in BOOLEAN :
                 /\ P!Followed(l, j, opened, f) /\ (following => f)
                 /\ UNCHANGED <<fade, onScreen>>
                 /\ drag' = drag \/ drag' = P!Kept(P!BarGone(l, onScreen))
    BY <2>2, <1>1 DEF P!Speaks, PageInOrder
  <2>3. ASSUME NEW i \in P!Lines, P!SeekTo(i)
        PROVE  \E l \in Recordings \cup {NoRecording}, j \in P!Lines, f \in BOOLEAN :
                 /\ P!Followed(l, j, opened, f) /\ (following => f)
                 /\ UNCHANGED <<fade, onScreen>>
                 /\ drag' = drag \/ drag' = P!Kept(P!BarGone(l, onScreen))
    BY <2>3, <1>1 DEF P!SeekTo, PageInOrder
  <2>4. ASSUME NEW r \in Recordings \cup {NoRecording}, P!Plays(r)
        PROVE  \E l \in Recordings \cup {NoRecording}, j \in P!Lines, f \in BOOLEAN :
                 /\ P!Followed(l, j, opened, f) /\ (following => f)
                 /\ UNCHANGED <<fade, onScreen>>
                 /\ drag' = drag \/ drag' = P!Kept(P!BarGone(l, onScreen))
    <3>1. 0 \in P!Lines
      BY PageAssumption DEF P!Lines
    <3> QED
      BY <2>4, <1>1, <3>1 DEF P!Plays, PageInOrder
  <2> QED
    BY <2>1, <2>2, <2>3, <2>4
<1>3. /\ FollowInv' /\ following' = f /\ loaded' = l /\ line' = i /\ opened' = opened
  BY <1>1, <1>2, FollowedKeeps
<1>4. DragInv'
  BY <1>1, <1>2, KeptIsExplained, BarGoneIsASurface DEF DragInv
<1> QED
  BY <1>2, <1>3, <1>4 DEF PageInOrder, PictureIsThePanels

LEMMA PagesKeep ==
  ASSUME PageInOrder,
         P!Leave \/ \E r \in Recordings : P!Open(r) \/ P!Replace(r)
  PROVE  PageInOrder' /\ (following => following')
<1>1. /\ FollowInv /\ DragInv /\ line \in P!Lines /\ following \in BOOLEAN
      /\ loaded \in Recordings \cup {NoRecording}
  BY DEF PageInOrder
<1>2. P!AtTop \in Columns /\ Claimed(P!AtTop) /\ P!AtTop.target = P!Still
  BY SizesAreNumbers DEF P!AtTop, Columns, Claimed
<1>3. CASE P!Leave
  <2>1. /\ opened' = NoRecording /\ following' = TRUE /\ column' = P!AtTop
        /\ loaded' = loaded /\ line' = line /\ fade' = P!NoPanel /\ opened # NoRecording
        /\ onScreen' = IF onScreen = opened THEN NoRecording ELSE onScreen
        /\ drag' = [P!Kept({"detail"} \cup P!BarGone(loaded, onScreen')) EXCEPT
                       !.preview = @ \ {"detail"}, !.lost = @ \ {"detail"}]
    BY <1>3 DEF P!Leave, P!hide
  <2>2. onScreen' = NoRecording
    BY <2>1 DEF PageInOrder, PictureIsThePanels
  <2>3. DragInv'
    <3> DEFINE gone == {"detail"} \cup P!BarGone(loaded, onScreen')
               kept == P!Kept(gone)
    <3>1. gone \in SUBSET P!Surfaces
      BY BarGoneIsASurface DEF P!Surfaces
    <3>2. kept \in Drags /\ Explained(kept)
      BY <1>1, <3>1, KeptIsExplained
    <3> HIDE DEF gone, kept
    <3>3. drag' = [kept EXCEPT !.preview = @ \ {"detail"}, !.lost = @ \ {"detail"}]
      BY <2>1 DEF gone, kept
    <3> QED
      BY <3>2, <3>3 DEF DragInv, Drags, Explained
  <2>4. fade' = [opacity |-> "gone", shown |-> FALSE]
    BY <2>1 DEF P!NoPanel
  <2> QED
    BY <1>1, <1>2, <2>1, <2>2, <2>3, <2>4 DEF PageInOrder, FollowInv, PictureIsThePanels
<1>4. ASSUME NEW r \in Recordings, P!Open(r)
      PROVE  PageInOrder' /\ (following => following')
  <2>1. /\ opened' = r /\ following' = TRUE /\ loaded' = loaded /\ line' = line
        /\ column' = IF r = loaded THEN P!CentredOn(P!AtTop, line) ELSE P!AtTop
        /\ fade' = [opacity |-> "full", shown |-> TRUE] /\ onScreen' = r
        /\ drag' = P!Kept(P!BarGone(loaded, onScreen'))
    BY <1>4 DEF P!Open, P!show
  <2>2. FollowInv'
    BY <1>1, <1>2, <2>1, CentredOnIsClaimed DEF FollowInv
  <2>3. DragInv'
    BY <1>1, <2>1, KeptIsExplained, BarGoneIsASurface DEF DragInv
  <2>4. PictureIsThePanels'
    BY <2>1, PlayerAssumption DEF PictureIsThePanels
  <2> QED
    BY <1>1, <2>1, <2>2, <2>3, <2>4 DEF PageInOrder
<1>5. ASSUME NEW r \in Recordings, P!Replace(r)
      PROVE  PageInOrder' /\ (following => following')
  <2>1. /\ opened # NoRecording /\ P!Followed(loaded, line, r, following)
        /\ fade' = [opacity |-> P!Opacity(column.at), shown |-> P!Opacity(column.at) = "full"]
        /\ onScreen' = IF P!Opacity(column.at) = "full" THEN r
                       ELSE IF onScreen = opened THEN NoRecording ELSE onScreen
        /\ drag' = P!Kept(P!BarGone(loaded, onScreen'))
    BY <1>5 DEF P!Replace, P!show, P!hide
  <2>2. FollowInv' /\ following' = following /\ loaded' = loaded /\ line' = line /\ opened' = r
    BY <1>1, <2>1, FollowedKeeps
  <2>3. DragInv'
    BY <1>1, <2>1, KeptIsExplained, BarGoneIsASurface DEF DragInv
  <2>4. P!Opacity(column.at) \in {"full", "dim", "gone"}
    BY DEF P!Opacity
  <2>5. PictureIsThePanels' /\ onScreen' \in Recordings \cup {NoRecording}
    BY <2>1, <2>2, <2>4, PlayerAssumption DEF PageInOrder, PictureIsThePanels
  <2> QED
    BY <1>1, <2>1, <2>2, <2>3, <2>4, <2>5 DEF PageInOrder
<1> QED
  BY <1>3, <1>4, <1>5

LEMMA DraggingKeeps ==
  ASSUME PageInOrder, NEW w \in P!Surfaces,
         P!StartScrub(w) \/ P!EndScrub(w) \/ P!CancelScrub(w)
  PROVE  PageInOrder' /\ (following => following')
<1>1. /\ FollowInv /\ DragInv /\ line \in P!Lines /\ following \in BOOLEAN
      /\ loaded \in Recordings \cup {NoRecording}
  BY DEF PageInOrder
<1>2. CASE P!StartScrub(w)
  <2>1. /\ drag.held = "up"
        /\ drag' = [held |-> w, scrub |-> drag.scrub \cup {w}, preview |-> drag.preview \cup {w},
                    lost |-> drag.lost \ {w}]
    BY <1>2 DEF P!StartScrub
  <2>2. /\ drag.scrub \cup {w} \in SUBSET P!Surfaces /\ drag.preview \cup {w} \in SUBSET P!Surfaces
        /\ drag.lost \ {w} \in SUBSET P!Surfaces
    BY <1>1 DEF DragInv, Drags
  <2>3. w # "up"
    BY DEF P!Surfaces
  <2>4. drag' \in Drags
    BY <2>1, <2>2 DEF Drags
  <2>5. \A v \in drag.preview : v \in drag.lost
    BY <1>1, <2>1 DEF DragInv, Drags, Explained, P!Surfaces
  <2>6. Explained(drag')
    <3>1. /\ drag'.held = w /\ drag'.scrub = drag.scrub \cup {w}
          /\ drag'.preview = drag.preview \cup {w} /\ drag'.lost = drag.lost \ {w}
      BY <2>1
    <3> QED
      BY <2>5, <3>1 DEF Explained
  <2> QED
    BY <1>2, <2>4, <2>6 DEF P!StartScrub, DragInv, PageInOrder, FollowInv, PictureIsThePanels
<1>3. CASE P!EndScrub(w) /\ w \in drag.scrub
  <2>1. PICK i \in P!Lines : P!Followed(IF w = "bar" THEN loaded ELSE opened, i, opened, following)
    BY <1>3 DEF P!EndScrub
  <2>2. /\ FollowInv' /\ following' = following /\ line' = i /\ opened' = opened
        /\ loaded' = IF w = "bar" THEN loaded ELSE opened
    BY <1>1, <2>1, FollowedKeeps
  <2>3. /\ drag.held = w /\ UNCHANGED <<fade, onScreen>>
        /\ drag' = [P!Dropped(w) EXCEPT !.scrub = @ \ P!BarGone(loaded', onScreen)]
    BY <1>3 DEF P!EndScrub
  <2>4. DragInv'
    BY <1>1, <2>3 DEF P!Dropped, DragInv, Drags, Explained
  <2> QED
    BY <1>1, <2>2, <2>3, <2>4 DEF PageInOrder, PictureIsThePanels
<1>4. CASE P!CancelScrub(w) \/ (P!EndScrub(w) /\ w \notin drag.scrub)
  <2>1. /\ drag.held = w
        /\ \/ w \in drag.scrub /\ drag' = P!Dropped(w)
           \/ w \notin drag.scrub /\ drag' = [drag EXCEPT !.held = "up"]
        /\ UNCHANGED <<loaded, line, opened, following, column, fade, onScreen>>
    BY <1>4 DEF P!CancelScrub, P!EndScrub
  <2>2. drag \in Drags /\ Explained(drag)
    BY <1>1 DEF DragInv
  <2>3. DragInv'
    <3>1. CASE w \in drag.scrub
      <4>1. drag' = [drag EXCEPT !.held = "up", !.scrub = @ \ {w}, !.preview = @ \ {w}]
        BY <2>1, <3>1 DEF P!Dropped
      <4>2. drag' \in Drags
        BY <2>2, <4>1 DEF Drags
      <4>3. drag'.preview = drag.preview \ {w} /\ drag'.lost = drag.lost
        BY <2>2, <4>1 DEF Drags
      <4>4. \A v \in drag.preview \ {w} : v \in drag.lost
        BY <2>1, <2>2 DEF Explained
      <4>5. Explained(drag')
        BY <4>3, <4>4 DEF Explained
      <4> QED
        BY <4>2, <4>5 DEF DragInv
    <3>2. CASE w \notin drag.scrub
      <4>1. drag' = [drag EXCEPT !.held = "up"]
        BY <2>1, <3>2
      <4>2. drag' \in Drags
        BY <2>2, <4>1 DEF Drags
      <4>3. drag'.preview = drag.preview /\ drag'.lost = drag.lost
        BY <2>2, <4>1 DEF Drags
      <4>4. \A v \in drag.preview : v \in drag.lost
        BY <2>1, <2>2, <3>2 DEF Explained
      <4>5. Explained(drag')
        BY <4>3, <4>4 DEF Explained
      <4> QED
        BY <4>2, <4>5 DEF DragInv
    <3> QED
      BY <3>1, <3>2
  <2> QED
    BY <1>1, <2>1, <2>3 DEF PageInOrder, FollowInv, PictureIsThePanels
<1> QED
  BY <1>2, <1>3, <1>4

\* What may be said of the opened at any moment follows.
LEMMA PageFollows ==
  ASSUME PageInOrder
  PROVE  P!PageInv
<1>1. P!TypeOK
  BY DEF PageInOrder, FollowInv, DragInv, Columns, Drags, P!TypeOK
<1>2. P!OneShape
  BY DEF PageInOrder, PictureIsThePanels, P!OneShape
<1>3. P!ReleasedIsStill /\ P!ReadoutIsTheDrags
  BY DEF PageInOrder, FollowInv, DragInv, Explained, P!ReleasedIsStill, P!ReadoutIsTheDrags
<1> QED
  BY <1>1, <1>2, <1>3 DEF P!PageInv

LEMMA PageInit ==
  ASSUME P!Init
  PROVE  PageInOrder
<1>1. P!AtTop \in Columns /\ Claimed(P!AtTop) /\ P!AtTop.target = P!Still
  BY SizesAreNumbers DEF P!AtTop, Columns, Claimed
<1>2. P!NoDrag \in Drags /\ Explained(P!NoDrag)
  BY DEF P!NoDrag, Drags, Explained
<1>3. 0 \in P!Lines
  BY PageAssumption DEF P!Lines
<1> QED
  BY <1>1, <1>2, <1>3 DEF P!Init, PageInOrder, FollowInv, DragInv, PictureIsThePanels, P!NoPanel

LEMMA PageStep ==
  ASSUME PageInOrder, [P!Next]_onPage
  PROVE  /\ PageInOrder'
         /\ following /\ ~following' => column.theirs \/ column'.theirs
<1>1. CASE UNCHANGED onPage
  BY <1>1 DEF onPage, PageInOrder, FollowInv, DragInv, PictureIsThePanels
<1>2. CASE P!Next
  BY <1>2, FrameKeeps, ScrollsKeep, SoundKeeps, PagesKeep, DraggingKeeps DEF P!Next
<1> QED
  BY <1>1, <1>2

-----------------------------------------------------------------------------
(* The element, as audio.ts uses it *)

Stores == [recording : Recordings \cup {NoRecording}, status : A!Statuses,
           position : A!Positions, seeking : A!Positions \cup {A!NoSeek}]
Elements == [src : Recordings \cup {NoRecording}, phase : {"empty", "loading", "ready", "broken"},
             paused : BOOLEAN, at : A!Positions, asked : BOOLEAN, refused : BOOLEAN,
             events : Seq(A!Events), attachedTo : Recordings \cup {NoRecording}, usingToken : BOOLEAN]
Playings == {"playing", "buffering"}

LEMMA PlacesAreNumbers ==
  /\ End \in Nat /\ End > 0 /\ A!NoSeek = End + 1 /\ A!Positions = 0..End
  /\ 0 \in A!Positions /\ End \in A!Positions /\ A!NoSeek \notin A!Positions
BY PlayerAssumption DEF A!NoSeek, A!Positions

\* What was fired before is still there, and nothing else is another.
LEMMA FireIs ==
  ASSUME NEW m \in Elements, NEW e \in A!Events
  PROVE  /\ A!Fire(m, e) \in Elements
         /\ \A i \in DOMAIN m.events : i \in DOMAIN A!Fire(m, e).events
                                       /\ A!Fire(m, e).events[i] = m.events[i]
         /\ A!Fire(m, e).src = m.src /\ A!Fire(m, e).phase = m.phase /\ A!Fire(m, e).paused = m.paused
         /\ A!Fire(m, e).at = m.at /\ A!Fire(m, e).refused = m.refused /\ A!Fire(m, e).asked = m.asked
         /\ A!Fire(m, e).attachedTo = m.attachedTo /\ A!Fire(m, e).usingToken = m.usingToken
<1>1. m.events \in Seq(A!Events)
  BY DEF Elements
<1>2. Append(m.events, e) \in Seq(A!Events)
  BY <1>1
<1>3. \A i \in DOMAIN m.events : i \in DOMAIN Append(m.events, e)
                                 /\ Append(m.events, e)[i] = m.events[i]
  BY <1>1
<1>4. A!Fire(m, e) = [m EXCEPT !.events = Append(m.events, e)]
  BY DEF A!Fire
<1>5. A!Fire(m, e).events = Append(m.events, e)
  BY <1>4 DEF Elements
<1> QED
  BY <1>2, <1>3, <1>4, <1>5 DEF Elements

\* A new source is at its start, still, and has said nothing.
LEMMA LoadIs ==
  ASSUME NEW m \in Elements, NEW r \in Recordings \cup {NoRecording}
  PROVE  LET n == A!Load(m, r)
         IN  /\ n \in Elements
             /\ n.src = r /\ n.paused /\ n.at = 0 /\ n.events = <<>>
             /\ n.phase = (IF r = NoRecording THEN "empty" ELSE "loading")
             /\ n.attachedTo = m.attachedTo /\ n.usingToken = m.usingToken
<1>1. <<>> \in Seq(A!Events) /\ 0 \in A!Positions
  BY PlacesAreNumbers
<1>2. (m.refused \/ m.asked) \in BOOLEAN
  OBVIOUS
<1>3. (IF r = NoRecording THEN "empty" ELSE "loading") \in {"empty", "loading", "ready", "broken"}
  OBVIOUS
<1> QED
  BY <1>1, <1>2, <1>3 DEF A!Load, Elements

LEMMA PauseIs ==
  ASSUME NEW m \in Elements
  PROVE  /\ A!Pause(m) \in Elements /\ A!Pause(m).paused
         /\ A!Pause(m).src = m.src /\ A!Pause(m).phase = m.phase /\ A!Pause(m).at = m.at
         /\ A!Pause(m).attachedTo = m.attachedTo /\ A!Pause(m).usingToken = m.usingToken
<1>1. "tick" \in A!Events
  BY DEF A!Events
<1> DEFINE n == A!Fire(m, "tick")
<1>2. /\ n \in Elements /\ n.src = m.src /\ n.phase = m.phase /\ n.at = m.at
      /\ n.attachedTo = m.attachedTo /\ n.usingToken = m.usingToken
  BY <1>1, FireIs
<1>3. A!Pause(m) = [n EXCEPT !.paused = TRUE, !.asked = FALSE, !.refused = n.refused \/ m.asked]
  BY DEF A!Pause
<1>4. (n.refused \/ m.asked) \in BOOLEAN
  OBVIOUS
<1> HIDE DEF n
<1> QED
  BY <1>2, <1>3, <1>4 DEF Elements

\* What is started plays from where it is, unless it is at its end, or broken, which it says.
LEMMA StartedIs ==
  ASSUME NEW m \in Elements
  PROVE  LET n == A!Started(m)
         IN  /\ n \in Elements
             /\ n.src = m.src /\ n.phase = m.phase
             /\ n.attachedTo = m.attachedTo /\ n.usingToken = m.usingToken
             /\ ~A!Ended(m) => n.at = m.at
             /\ IF m.phase = "broken" THEN n.refused ELSE ~n.paused
<1> DEFINE n == A!Started(m)
<1>1. CASE m.phase = "broken"
  <2>1. n = [m EXCEPT !.refused = TRUE]
    BY <1>1 DEF A!Started
  <2> QED
    BY <1>1, <2>1 DEF Elements
<1>2. CASE m.phase = "ready"
  <2> DEFINE f == A!Fire(m, "playing")
  <2>1. /\ f \in Elements /\ f.src = m.src /\ f.phase = m.phase /\ f.at = m.at
        /\ f.attachedTo = m.attachedTo /\ f.usingToken = m.usingToken
    BY FireIs DEF A!Events
  <2>2. n = [f EXCEPT !.paused = FALSE, !.at = IF A!Ended(m) THEN 0 ELSE f.at]
    BY <1>2 DEF A!Started
  <2> HIDE DEF f
  <2>3. (IF A!Ended(m) THEN 0 ELSE f.at) \in A!Positions
    BY <2>1, PlacesAreNumbers DEF Elements
  <2> QED
    BY <1>2, <2>1, <2>2, <2>3 DEF Elements
<1>3. CASE m.phase \notin {"broken", "ready"}
  <2> DEFINE f == A!Fire(m, "waiting")
  <2>1. /\ f \in Elements /\ f.src = m.src /\ f.phase = m.phase /\ f.at = m.at
        /\ f.attachedTo = m.attachedTo /\ f.usingToken = m.usingToken
    BY FireIs DEF A!Events
  <2>2. n = [f EXCEPT !.paused = FALSE, !.asked = TRUE]
    BY <1>3 DEF A!Started
  <2> HIDE DEF f
  <2> QED
    BY <1>3, <2>1, <2>2 DEF Elements
<1> QED
  BY <1>1, <1>2, <1>3

\* Where a seek goes, and nothing else is moved.
LEMMA SoughtIs ==
  ASSUME NEW m \in Elements, NEW s \in Stores
  PROVE  LET n == A!Sought(m, s)
         IN  /\ n \in Elements
             /\ n.src = m.src /\ n.phase = m.phase
             /\ n.attachedTo = m.attachedTo /\ n.usingToken = m.usingToken
             /\ n.at = (IF s.seeking # A!NoSeek THEN s.seeking ELSE m.at)
<1> DEFINE n == A!Sought(m, s)
<1>1. CASE s.seeking # A!NoSeek /\ s.seeking # m.at
  <2>1. s.seeking \in A!Positions
    BY <1>1 DEF Stores
  <2>2. PICK f \in Elements :
          /\ n = [f EXCEPT !.at = s.seeking]
          /\ f.src = m.src /\ f.phase = m.phase
          /\ f.attachedTo = m.attachedTo /\ f.usingToken = m.usingToken
    <3>1. CASE m.phase = "ready"
      BY <1>1, <3>1, FireIs DEF A!Sought, A!Events
    <3>2. CASE m.phase # "ready"
      BY <1>1, <3>2 DEF A!Sought
    <3> QED
      BY <3>1, <3>2
  <2> QED
    BY <1>1, <2>1, <2>2 DEF Elements
<1>2. CASE ~(s.seeking # A!NoSeek /\ s.seeking # m.at)
  <2>1. n = m
    BY <1>2 DEF A!Sought
  <2> QED
    BY <1>2, <2>1
<1> QED
  BY <1>1, <1>2

LEMMA AttachedIs ==
  ASSUME NEW m \in Elements, NEW s \in Stores, s.recording # NoRecording
  PROVE  LET n == A!Attached(m, s)
         IN  /\ n \in Elements /\ n.attachedTo = s.recording
             /\ m.attachedTo = s.recording => n = m
             /\ m.attachedTo # s.recording => n.src = s.recording /\ n.at = 0 /\ n.phase = "loading"
<1>1. CASE m.attachedTo = s.recording
  BY <1>1 DEF A!Attached
<1>2. CASE m.attachedTo # s.recording
  <2> DEFINE l == A!Load(m, s.recording)
  <2>1. s.recording \in Recordings \cup {NoRecording}
    BY DEF Stores
  <2>2. l \in Elements /\ l.src = s.recording /\ l.at = 0 /\ l.phase = "loading"
    BY <2>1, LoadIs
  <2>3. A!Attached(m, s) = [l EXCEPT !.attachedTo = s.recording, !.usingToken = FALSE]
    BY <1>2 DEF A!Attached
  <2> HIDE DEF l
  <2> QED
    BY <1>2, <2>1, <2>2, <2>3 DEF Elements
<1> QED
  BY <1>1, <1>2

\* An element in step with a store that plays is started, at its end or refused; with one that
\* does not play, it is paused.
LEMMA InStepIs ==
  ASSUME NEW m \in Elements, NEW s \in Stores
  PROVE  LET n == A!InStep(m, s)
         IN  /\ n \in Elements
             /\ n.src = m.src /\ n.phase = m.phase /\ n.at = m.at
             /\ n.attachedTo = m.attachedTo /\ n.usingToken = m.usingToken
             /\ s.status \in Playings => ~n.paused \/ n.at = End \/ n.refused
             /\ s.status \notin Playings => n.paused
<1> DEFINE n == A!InStep(m, s)
<1>1. CASE s.status \in Playings /\ m.paused /\ ~A!Ended(m)
  <2>1. n = A!Started(m)
    BY <1>1 DEF A!InStep, Playings
  <2> QED
    BY <1>1, <2>1, StartedIs
<1>2. CASE s.status \notin Playings /\ ~m.paused
  <2>1. n = A!Pause(m)
    BY <1>2 DEF A!InStep, Playings
  <2> QED
    BY <1>2, <2>1, PauseIs
<1>3. CASE (s.status \in Playings /\ (~m.paused \/ A!Ended(m))) \/ (s.status \notin Playings /\ m.paused)
  <2>1. n = m
    BY <1>3 DEF A!InStep, Playings
  <2> QED
    BY <1>3, <2>1 DEF A!Ended
<1> QED
  BY <1>1, <1>2, <1>3

\* What the element is once it was made what the store says.
LEMMA AppliedIs ==
  ASSUME NEW m \in Elements, NEW s \in Stores, s.recording # NoRecording
  PROVE  LET n == A!Applied(m, s)
         IN  /\ n \in Elements /\ n.attachedTo = s.recording
             /\ m.attachedTo = s.recording =>
                  /\ n.src = m.src /\ n.usingToken = m.usingToken /\ n.phase = m.phase
                  /\ s.seeking = A!NoSeek => n.at = m.at
             /\ m.attachedTo # s.recording =>
                  /\ n.src = s.recording /\ n.phase = "loading"
                  /\ s.seeking = A!NoSeek => n.at = 0
             /\ s.seeking # A!NoSeek => n.at = s.seeking
             /\ s.status \in Playings => ~n.paused \/ n.at = End \/ n.refused
             /\ s.status \notin Playings => n.paused
<1> DEFINE a == A!Attached(m, s)
           b == A!Sought(a, s)
<1>1. A!Applied(m, s) = A!InStep(b, s)
  BY DEF A!Applied
<1>2. /\ a \in Elements /\ a.attachedTo = s.recording
      /\ m.attachedTo = s.recording => a = m
      /\ m.attachedTo # s.recording => a.src = s.recording /\ a.at = 0 /\ a.phase = "loading"
  BY AttachedIs
<1> HIDE DEF a
<1>3. /\ b \in Elements
      /\ b.src = a.src /\ b.phase = a.phase
      /\ b.attachedTo = a.attachedTo /\ b.usingToken = a.usingToken
      /\ b.at = (IF s.seeking # A!NoSeek THEN s.seeking ELSE a.at)
  BY <1>2, SoughtIs
<1> HIDE DEF b
<1> QED
  BY <1>1, <1>2, <1>3, InStepIs

Silent(m) == m.events = <<>> /\ m.paused /\ m.phase = "empty"

\* With nothing to play it is let go of, once.
LEMMA ReleasedIs ==
  ASSUME NEW m \in Elements, NEW s \in Stores, s.recording = NoRecording
  PROVE  LET n == A!Applied(m, s)
         IN  /\ n \in Elements /\ n.attachedTo = NoRecording
             /\ m.attachedTo = NoRecording => n = m
             /\ m.attachedTo # NoRecording => Silent(n) /\ n.src = NoRecording
<1>1. A!Applied(m, s) = A!Released(m)
  BY DEF A!Applied
<1>2. CASE m.attachedTo = NoRecording
  BY <1>1, <1>2 DEF A!Released
<1>3. CASE m.attachedTo # NoRecording
  <2> DEFINE l == A!Load(m, NoRecording)
  <2>1. l \in Elements /\ l.src = NoRecording /\ l.paused /\ l.events = <<>> /\ l.phase = "empty"
    BY LoadIs
  <2>2. A!Applied(m, s) = [l EXCEPT !.attachedTo = NoRecording, !.usingToken = FALSE]
    BY <1>1, <1>3 DEF A!Released
  <2> HIDE DEF l
  <2> QED
    BY <1>3, <2>1, <2>2 DEF Elements, Silent
<1> QED
  BY <1>2, <1>3

-----------------------------------------------------------------------------
(* The player *)

Pasts == [overtaken : BOOLEAN, unheard : BOOLEAN]

\* What audio.ts attached is what the store says, and the source is of it, but for a token that
\* came for another.
Attachment ==
    /\ media.attachedTo = store.recording
    /\ media.src = media.attachedTo \/ past.overtaken

\* A token on its way is for what is loaded, unless one was overtaken.
TokensAreForIt ==
    \A r \in Recordings : mints[r] > 0 =>
        past.overtaken \/ (r = store.recording /\ media.usingToken)

\* With nothing loaded the element has nothing to say.
NothingIsStill == store.recording = NoRecording /\ ~past.overtaken => Silent(media)

\* The place that is shown: where a seek goes, and never ahead of the element.
PlaceIsBehind ==
    /\ store.seeking # A!NoSeek => store.position = store.seeking
    /\ store.recording # NoRecording =>
           store.position <= media.at \/ media.usingToken \/ past.overtaken

\* What says it plays, plays, is at its end, or was refused and is about to say so.
PlaysOrSaysSo ==
    store.recording # NoRecording /\ store.status = "playing" =>
        ~media.paused \/ media.at = End \/ media.refused

\* What plays unasked has fired what tells the store.
SoundIsAnnounced ==
    connected /\ store.recording # NoRecording /\ ~media.paused =>
        \/ store.status \in Playings
        \/ \E i \in DOMAIN media.events : media.events[i] \in {"waiting", "playing"}

Typed ==
    /\ store \in Stores /\ media \in Elements
    /\ mints \in [Recordings -> 0..MaxMints]
    /\ connected \in BOOLEAN /\ errors \in 0..MaxErrors /\ past \in Pasts

PlayerInOrder ==
    /\ Typed
    /\ Attachment /\ TokensAreForIt /\ NothingIsStill
    /\ PlaceIsBehind /\ PlaysOrSaysSo /\ SoundIsAnnounced

\* A step gives no position up but for a cause.
HoldsItsPlace ==
    /\ store'.position < store.position =>
         \/ store'.seeking # A!NoSeek
         \/ store'.recording # store.recording
         \/ store'.status = "buffering"
         \/ media.usingToken \/ past.overtaken
    /\ A!Ended(media) /\ media'.at < End => store'.seeking # A!NoSeek \/ media'.phase # "ready"

\* An element m that can be made what a store s says, o telling that a token was overtaken.
Fits(m, s, o) ==
    /\ m.attachedTo = s.recording => m.src = s.recording \/ o
    /\ m.attachedTo = s.recording /\ s.recording = NoRecording => Silent(m) \/ o
    /\ s.seeking # A!NoSeek => s.position = s.seeking
    /\ s.seeking = A!NoSeek /\ s.recording # NoRecording =>
         IF m.attachedTo = s.recording THEN s.position <= m.at \/ m.usingToken \/ o
                                       ELSE s.position = 0
    /\ \A r \in Recordings : mints[r] > 0 =>
         o \/ (r = s.recording /\ m.attachedTo = r /\ m.usingToken)

\* Made what the store says, the player is in order.
LEMMA AppliedKeeps ==
  ASSUME NEW m \in Elements, NEW s \in Stores, Fits(m, s, past'.overtaken),
         store' = s, media' = A!Applied(m, s),
         mints \in [Recordings -> 0..MaxMints], mints' \in [Recordings -> 0..MaxMints],
         \A r \in Recordings : mints'[r] <= mints[r],
         connected' \in BOOLEAN, errors' \in 0..MaxErrors, past' \in Pasts
  PROVE  PlayerInOrder'
<1>1. CASE s.recording # NoRecording
  <2> DEFINE n == A!Applied(m, s)
  <2>1. /\ n \in Elements /\ n.attachedTo = s.recording
        /\ m.attachedTo = s.recording =>
             /\ n.src = m.src /\ n.usingToken = m.usingToken
             /\ s.seeking = A!NoSeek => n.at = m.at
        /\ m.attachedTo # s.recording =>
             /\ n.src = s.recording
             /\ s.seeking = A!NoSeek => n.at = 0
        /\ s.seeking # A!NoSeek => n.at = s.seeking
        /\ s.status \in Playings => ~n.paused \/ n.at = End \/ n.refused
        /\ s.status \notin Playings => n.paused
    BY <1>1, AppliedIs
  <2>2. media' = n
    OBVIOUS
  <2> HIDE DEF n
  <2>3. Typed'
    BY <2>1, <2>2 DEF Typed
  <2>4. Attachment'
    BY <2>1, <2>2 DEF Attachment, Fits
  <2>5. TokensAreForIt'
    <3> SUFFICES ASSUME NEW r \in Recordings, mints'[r] > 0
                 PROVE  past'.overtaken \/ (r = s.recording /\ n.usingToken)
      BY <2>2 DEF TokensAreForIt
    <3>1. mints[r] \in Nat /\ mints'[r] \in Nat /\ mints'[r] <= mints[r]
      BY PlayerAssumption
    <3> QED
      BY <2>1, <3>1 DEF Fits
  <2>6. NothingIsStill'
    BY <1>1 DEF NothingIsStill
  <2>7. PlaceIsBehind'
    <3>1. s.position \in Int /\ n.at \in Int /\ (s.seeking # A!NoSeek => s.seeking \in Int)
      BY <2>1, PlacesAreNumbers DEF Stores, Elements
    <3>2. CASE s.seeking # A!NoSeek
      BY <2>1, <2>2, <3>1, <3>2 DEF Fits, PlaceIsBehind
    <3>3. CASE s.seeking = A!NoSeek
      BY <1>1, <2>1, <2>2, <3>1, <3>3 DEF Fits, PlaceIsBehind
    <3> QED
      BY <3>2, <3>3
  <2>8. PlaysOrSaysSo'
    BY <2>1, <2>2 DEF PlaysOrSaysSo, Playings
  <2>9. SoundIsAnnounced'
    BY <2>1, <2>2 DEF SoundIsAnnounced
  <2> QED
    BY <2>3, <2>4, <2>5, <2>6, <2>7, <2>8, <2>9 DEF PlayerInOrder
<1>2. CASE s.recording = NoRecording
  <2> DEFINE n == A!Applied(m, s)
  <2>1. /\ n \in Elements /\ n.attachedTo = NoRecording
        /\ m.attachedTo = NoRecording => n = m
        /\ m.attachedTo # NoRecording => Silent(n) /\ n.src = NoRecording
    BY <1>2, ReleasedIs
  <2>2. media' = n
    OBVIOUS
  <2> HIDE DEF n
  <2>3. Typed'
    BY <2>1, <2>2 DEF Typed
  <2>4. Attachment' /\ NothingIsStill'
    BY <1>2, <2>1, <2>2 DEF Attachment, NothingIsStill, Fits
  <2>5. TokensAreForIt'
    <3> SUFFICES ASSUME NEW r \in Recordings, mints'[r] > 0
                 PROVE  past'.overtaken
      BY DEF TokensAreForIt
    <3>1. mints[r] \in Nat /\ mints'[r] \in Nat /\ mints'[r] <= mints[r]
      BY PlayerAssumption
    <3>2. r # s.recording
      BY <1>2, PlayerAssumption
    <3> QED
      BY <3>1, <3>2 DEF Fits
  <2>6. PlaceIsBehind' /\ PlaysOrSaysSo' /\ SoundIsAnnounced'
    BY <1>2 DEF PlaceIsBehind, PlaysOrSaysSo, SoundIsAnnounced, Fits
  <2> QED
    BY <2>3, <2>4, <2>5, <2>6 DEF PlayerInOrder
<1> QED
  BY <1>1, <1>2

\* A store of which nothing is ahead of the element.
WellPlaced(s) ==
    /\ s \in Stores
    /\ s.seeking # A!NoSeek => s.position = s.seeking
    /\ s.seeking = A!NoSeek /\ s.recording # NoRecording =>
         IF s.recording = store.recording
         THEN s.position <= media.at \/ media.usingToken \/ past.overtaken
         ELSE s.position = 0
    /\ s.position < store.position =>
         \/ s.seeking # A!NoSeek \/ s.recording # store.recording \/ s.status = "buffering"
         \/ media.usingToken \/ past.overtaken

\* An element of which nothing was changed but what it has to report.
SameBut(m) ==
    /\ m \in Elements
    /\ m.src = media.src /\ m.phase = media.phase /\ m.paused = media.paused /\ m.at = media.at
    /\ m.attachedTo = media.attachedTo /\ m.usingToken = media.usingToken
    /\ media.events = <<>> => m.events = <<>>

\* Whatever the store is made, nothing ends but for a cause.
LEMMA EndIsKept ==
  ASSUME NEW m \in Elements, m.at = media.at, NEW s \in Stores,
         store' = s, media' = A!Applied(m, s)
  PROVE  A!Ended(media) /\ media'.at < End => store'.seeking # A!NoSeek \/ media'.phase # "ready"
<1>1. CASE s.recording # NoRecording
  BY <1>1, AppliedIs, PlacesAreNumbers DEF A!Ended, Elements
<1>2. CASE s.recording = NoRecording
  BY <1>2, ReleasedIs, PlacesAreNumbers DEF A!Ended, Elements, Silent
<1> QED
  BY <1>1, <1>2

LEMMA StoreKeeps ==
  ASSUME PlayerInOrder, NEW m, SameBut(m), NEW s, WellPlaced(s),
         store' = s, media' = A!Applied(m, s),
         mints' \in [Recordings -> 0..MaxMints], \A r \in Recordings : mints'[r] <= mints[r],
         connected' \in BOOLEAN, errors' \in 0..MaxErrors, past' \in Pasts,
         past.overtaken => past'.overtaken,
         s.recording = store.recording \/ (A!Overtakes(s.recording) => past'.overtaken)
  PROVE  PlayerInOrder' /\ HoldsItsPlace
<1>1. m \in Elements /\ s \in Stores /\ mints \in [Recordings -> 0..MaxMints]
  BY DEF SameBut, WellPlaced, PlayerInOrder, Typed
<1>2. \A r \in Recordings : mints[r] > 0 =>
         past'.overtaken \/ (r = s.recording /\ m.attachedTo = r /\ m.usingToken)
  <2> SUFFICES ASSUME NEW r \in Recordings, mints[r] > 0, ~past'.overtaken
               PROVE  r = s.recording /\ m.attachedTo = r /\ m.usingToken
    OBVIOUS
  <2>1. r = store.recording /\ media.usingToken
    BY DEF PlayerInOrder, TokensAreForIt
  <2>2. r = s.recording
    BY <2>1 DEF A!Overtakes
  <2> QED
    BY <2>1, <2>2 DEF SameBut, PlayerInOrder, Attachment
<1>3. Fits(m, s, past'.overtaken)
  <2>1. m.attachedTo = s.recording => m.src = s.recording \/ past'.overtaken
    BY DEF PlayerInOrder, Attachment, SameBut
  <2>2. m.attachedTo = s.recording /\ s.recording = NoRecording => Silent(m) \/ past'.overtaken
    BY DEF PlayerInOrder, Attachment, NothingIsStill, Silent, SameBut
  <2>3. s.seeking = A!NoSeek /\ s.recording # NoRecording =>
          IF m.attachedTo = s.recording THEN s.position <= m.at \/ m.usingToken \/ past'.overtaken
                                        ELSE s.position = 0
    BY DEF PlayerInOrder, Attachment, SameBut, WellPlaced
  <2> QED
    BY <1>2, <2>1, <2>2, <2>3 DEF Fits, WellPlaced
<1>4. PlayerInOrder'
  BY <1>1, <1>3, AppliedKeeps
<1>5. HoldsItsPlace
  BY <1>1, EndIsKept DEF HoldsItsPlace, WellPlaced, SameBut
<1> QED
  BY <1>4, <1>5

LEMMA OwnElement ==
  ASSUME PlayerInOrder
  PROVE  /\ SameBut(media)
         /\ media.events # <<>> => SameBut(A!Handled)
         /\ SameBut([media EXCEPT !.refused = FALSE])
<1>1. media \in Elements
  BY DEF PlayerInOrder, Typed
<1>2. SameBut(media) /\ SameBut([media EXCEPT !.refused = FALSE])
  BY <1>1 DEF SameBut, Elements
<1>3. ASSUME media.events # <<>>
      PROVE  SameBut(A!Handled)
  <2>1. Tail(media.events) \in Seq(A!Events)
    BY <1>1, <1>3 DEF Elements
  <2>2. A!Handled = [media EXCEPT !.events = Tail(media.events)]
    BY DEF A!Handled
  <2> QED
    BY <1>1, <1>3, <2>1, <2>2 DEF SameBut, Elements
<1> QED
  BY <1>2, <1>3

\* What a surface may make of the store.
LEMMA ProposalsAreWellPlaced ==
  ASSUME PlayerInOrder
  PROVE  /\ WellPlaced(A!Toggled)
         /\ \A status \in A!Statuses : WellPlaced(A!Reported(store, status))
         /\ \A p \in A!Positions : WellPlaced(A!Seeking(store, p))
         /\ \A d \in {-1, 1} : WellPlaced(A!Nudged(d))
         /\ \A r \in Recordings : WellPlaced(A!Playing(r))
         /\ A!playerShowing => WellPlaced(A!EMPTY) /\ WellPlaced(A!Retried)
<1>1. /\ store \in Stores /\ media.at \in A!Positions
      /\ store.seeking # A!NoSeek => store.position = store.seeking
      /\ store.recording # NoRecording => store.position <= media.at \/ media.usingToken \/ past.overtaken
  BY DEF PlayerInOrder, Typed, Elements, PlaceIsBehind
<1>2. \A st \in A!Statuses : WellPlaced(A!Reported(store, st))
  <2> SUFFICES ASSUME NEW st \in A!Statuses PROVE WellPlaced(A!Reported(store, st))
    OBVIOUS
  <2>1. /\ A!Reported(store, st) \in Stores
        /\ A!Reported(store, st).seeking = store.seeking /\ A!Reported(store, st).position = store.position
        /\ A!Reported(store, st).recording = store.recording
    BY <1>1 DEF A!Reported, Stores
  <2>2. store.position \in Int
    BY <1>1, PlacesAreNumbers DEF Stores
  <2> QED
    BY <1>1, <2>1, <2>2 DEF WellPlaced
<1>3. \A p \in A!Positions : WellPlaced(A!Seeking(store, p))
  <2> SUFFICES ASSUME NEW p \in A!Positions PROVE WellPlaced(A!Seeking(store, p))
    OBVIOUS
  <2>1. /\ A!Seeking(store, p) \in Stores /\ A!Seeking(store, p).seeking = p
        /\ A!Seeking(store, p).position = p /\ p # A!NoSeek
    BY <1>1, PlacesAreNumbers DEF A!Seeking, Stores
  <2> QED
    BY <2>1 DEF WellPlaced
<1>4. \A d \in {-1, 1} : WellPlaced(A!Nudged(d))
  <2> SUFFICES ASSUME NEW d \in {-1, 1} PROVE WellPlaced(A!Nudged(d))
    OBVIOUS
  <2>1. A!Clamped(store.position + d) \in A!Positions
    BY <1>1, PlacesAreNumbers DEF A!Clamped, Stores
  <2> QED
    BY <1>3, <2>1 DEF A!Nudged
<1>5. WellPlaced(A!Resumed(store)) /\ WellPlaced(store)
  <2>1. A!Resumed(store) = A!Reported(store, "playing") /\ "playing" \in A!Statuses
    BY DEF A!Resumed, A!Reported, A!Statuses
  <2>2. store.position \in Int
    BY <1>1, PlacesAreNumbers DEF Stores
  <2> QED
    BY <1>1, <1>2, <2>1, <2>2 DEF WellPlaced
<1>6. \A r \in Recordings : WellPlaced(A!Playing(r))
  <2> SUFFICES ASSUME NEW r \in Recordings PROVE WellPlaced(A!Playing(r))
    OBVIOUS
  <2>1. CASE store.recording = r /\ store.status = "paused"
    BY <1>5, <2>1 DEF A!Playing
  <2>2. CASE ~(store.recording = r /\ store.status = "paused")
    <3>1. A!Playing(r) = [recording |-> r, status |-> "buffering", position |-> 0, seeking |-> A!NoSeek]
      BY <2>2 DEF A!Playing, A!EMPTY
    <3>2. A!Playing(r) \in Stores
      BY <3>1, PlacesAreNumbers DEF Stores, A!Statuses
    <3>3. 0 <= media.at
      BY <1>1, PlacesAreNumbers
    <3> HIDE DEF A!Playing
    <3> QED
      BY <3>1, <3>2, <3>3 DEF WellPlaced
  <2> QED
    BY <2>1, <2>2
<1>7. WellPlaced(A!Toggled)
  <2>1. A!Toggled \in {A!Reported(store, "paused"), A!Resumed(store), store} /\ "paused" \in A!Statuses
    BY DEF A!Toggled, A!Statuses
  <2> QED
    BY <1>2, <1>5, <2>1
<1>8. ASSUME A!playerShowing
      PROVE  WellPlaced(A!EMPTY) /\ WellPlaced(A!Retried)
  <2>1. store.recording # NoRecording /\ store.recording \in Recordings
    BY <1>1, <1>8 DEF A!playerShowing, Stores
  <2>2. A!EMPTY \in Stores /\ A!EMPTY.recording = NoRecording /\ A!EMPTY.seeking = A!NoSeek
    BY PlacesAreNumbers DEF A!EMPTY, Stores, A!Statuses
  <2>3. WellPlaced(A!EMPTY)
    BY <2>1, <2>2 DEF WellPlaced
  <2>4. A!Retried \in {A!Playing(store.recording), A!Toggled}
    BY DEF A!Retried
  <2> QED
    BY <1>6, <1>7, <2>1, <2>3, <2>4
<1> QED
  BY <1>2, <1>3, <1>4, <1>6, <1>7, <1>8

LEMMA PlacedIsWellPlaced ==
  ASSUME PlayerInOrder, media.events # <<>> \/ ~media.paused
  PROVE  WellPlaced(A!Placed(store))
<1>1. store \in Stores /\ media.at \in A!Positions
  BY DEF PlayerInOrder, Typed, Elements
<1>2. /\ A!Placed(store) \in Stores /\ A!Placed(store).seeking = A!NoSeek
      /\ A!Placed(store).position = media.at /\ A!Placed(store).recording = store.recording
  BY <1>1 DEF A!Placed, Stores
<1>3. store.position <= media.at \/ media.usingToken \/ past.overtaken
  BY DEF PlayerInOrder, PlaceIsBehind, NothingIsStill, Silent
<1>4. store.position \in Int /\ media.at \in Int
  BY <1>1, PlacesAreNumbers DEF Stores
<1> QED
  BY <1>2, <1>3, <1>4 DEF WellPlaced

\* A change of the store while the frame is mounted.
LEMMA SetKeeps ==
  ASSUME PlayerInOrder, connected, NEW s, WellPlaced(s), A!Set(s), UNCHANGED <<mints, connected, errors>>
  PROVE  PlayerInOrder' /\ HoldsItsPlace
<1>1. /\ store' = s /\ media' = A!Applied(media, s)
      /\ past' = [past EXCEPT !.overtaken = @ \/ A!Overtakes(s.recording)]
  BY DEF A!Set
<1>2. /\ mints \in [Recordings -> 0..MaxMints] /\ connected \in BOOLEAN /\ errors \in 0..MaxErrors
      /\ past \in Pasts
  BY DEF PlayerInOrder, Typed
<1>3. /\ past' \in Pasts /\ (past.overtaken => past'.overtaken)
      /\ (A!Overtakes(s.recording) => past'.overtaken)
  <2>1. A!Overtakes(s.recording) \in BOOLEAN
    BY DEF A!Overtakes
  <2> QED
    BY <1>1, <1>2, <2>1 DEF Pasts
<1>4. \A r \in Recordings : mints'[r] <= mints[r]
  BY <1>2, PlayerAssumption
<1> QED
  BY <1>1, <1>2, <1>3, <1>4, OwnElement, StoreKeeps

\* What is sought and is not loaded is loaded first.
LEMMA SeekToKeeps ==
  ASSUME PlayerInOrder, connected, NEW r \in Recordings, NEW p \in A!Positions, A!SeekTo(r, p),
         UNCHANGED <<mints, connected, errors>>
  PROVE  PlayerInOrder' /\ HoldsItsPlace
<1>1. CASE store.recording = r
  BY <1>1, ProposalsAreWellPlaced, SetKeeps DEF A!SeekTo
<1>2. CASE store.recording # r
  <2> DEFINE loaded1 == A!Playing(r)
             sought == A!Seeking(loaded1, p)
             m == A!Applied(media, loaded1)
  <2>1. /\ store' = sought /\ media' = A!Applied(m, sought)
        /\ past' = [past EXCEPT !.overtaken = @ \/ A!Overtakes(r)]
    BY <1>2 DEF A!SeekTo
  <2>2. loaded1 = [recording |-> r, status |-> "buffering", position |-> 0, seeking |-> A!NoSeek]
    BY <1>2 DEF A!Playing, A!EMPTY
  <2>3. loaded1 \in Stores /\ r # NoRecording
    BY <2>2, PlacesAreNumbers, PlayerAssumption DEF Stores, A!Statuses
  <2> HIDE DEF loaded1
  <2>4. /\ sought \in Stores /\ sought.recording = r /\ sought.seeking = p /\ sought.position = p
        /\ p # A!NoSeek
    BY <2>2, <2>3, PlacesAreNumbers DEF A!Seeking, Stores
  <2> HIDE DEF sought
  <2>5. /\ mints \in [Recordings -> 0..MaxMints] /\ connected \in BOOLEAN
        /\ errors \in 0..MaxErrors /\ past \in Pasts /\ media \in Elements
        /\ media.attachedTo = store.recording
    BY DEF PlayerInOrder, Typed, Attachment
  <2>6. m \in Elements /\ m.attachedTo = r /\ m.src = r
    BY <1>2, <2>2, <2>3, <2>5, AppliedIs
  <2>7. past' \in Pasts /\ (past.overtaken \/ A!Overtakes(r) => past'.overtaken)
    <3>1. A!Overtakes(r) \in BOOLEAN
      BY DEF A!Overtakes
    <3> QED
      BY <2>1, <2>5, <3>1 DEF Pasts
  <2> HIDE DEF m
  <2>8. \A q \in Recordings : mints[q] > 0 => past'.overtaken
    BY <1>2, <2>7 DEF PlayerInOrder, TokensAreForIt, A!Overtakes
  <2>9. Fits(m, sought, past'.overtaken)
    BY <2>3, <2>4, <2>6, <2>8 DEF Fits
  <2>10. \A q \in Recordings : mints'[q] <= mints[q]
    BY <2>5, PlayerAssumption
  <2>11. PlayerInOrder'
    BY <2>1, <2>4, <2>5, <2>6, <2>7, <2>9, <2>10, AppliedKeeps
  <2>12. HoldsItsPlace
    BY <2>1, <2>4 DEF HoldsItsPlace
  <2> QED
    BY <2>11, <2>12
<1> QED
  BY <1>1, <1>2

\* Whatever a person does, from whichever surface.
LEMMA SurfacesKeep ==
  ASSUME PlayerInOrder,
         \/ A!PlayerBar \/ A!PhonePlayer \/ A!Keyboard \/ A!MediaSession
         \/ \E r \in Recordings : A!Row(r) \/ A!RecordingPlayer(r) \/ A!Line(r)
  PROVE  PlayerInOrder' /\ HoldsItsPlace
<1>1. connected /\ UNCHANGED <<mints, connected, errors>>
  BY DEF A!PlayerBar, A!PhonePlayer, A!Keyboard, A!MediaSession, A!Row, A!RecordingPlayer, A!Line, A!Person
<1>2. /\ A!Skips => PlayerInOrder' /\ HoldsItsPlace
      /\ A!Places => PlayerInOrder' /\ HoldsItsPlace
      /\ A!Set(A!Toggled) => PlayerInOrder' /\ HoldsItsPlace
      /\ A!playerShowing /\ A!Transport => PlayerInOrder' /\ HoldsItsPlace
  BY <1>1, ProposalsAreWellPlaced, SetKeeps DEF A!Skips, A!Places, A!Transport
<1>3. CASE A!PlayerBar \/ A!PhonePlayer \/ A!Keyboard \/ A!MediaSession
  BY <1>2, <1>3 DEF A!PlayerBar, A!PhonePlayer, A!Keyboard, A!MediaSession, A!Expanded
<1>4. ASSUME NEW r \in Recordings, A!Row(r)
      PROVE  PlayerInOrder' /\ HoldsItsPlace
  BY <1>1, <1>4, ProposalsAreWellPlaced, SetKeeps DEF A!Row
<1>5. ASSUME NEW r \in Recordings, A!RecordingPlayer(r)
      PROVE  PlayerInOrder' /\ HoldsItsPlace
  <2>1. WellPlaced(A!Playing(r)) /\ (store.recording = r => WellPlaced(A!Retried))
    <3>1. A!Retried = A!Playing(store.recording) \/ A!Retried = A!Toggled
      BY DEF A!Retried
    <3> QED
      BY <3>1, ProposalsAreWellPlaced
  <2>2. CASE A!Set(IF store.recording = r THEN A!Retried ELSE A!Playing(r))
    BY <1>1, <2>1, <2>2, SetKeeps
  <2>3. CASE \E p \in A!Positions : A!SeekTo(r, p)
    BY <1>1, <2>3, SeekToKeeps
  <2> QED
    BY <1>5, <2>2, <2>3 DEF A!RecordingPlayer
<1>6. ASSUME NEW r \in Recordings, A!Line(r)
      PROVE  PlayerInOrder' /\ HoldsItsPlace
  BY <1>1, <1>6, SeekToKeeps DEF A!Line
<1> QED
  BY <1>3, <1>4, <1>5, <1>6

\* What the element does of itself: it goes on, says more, and pauses only at its end or refused.
LEMMA ElementKeeps ==
  ASSUME PlayerInOrder, UNCHANGED <<store, mints, connected, past>>, errors' \in 0..MaxErrors,
         media' \in Elements, media'.src = media.src, media'.attachedTo = media.attachedTo,
         media'.usingToken = media.usingToken, media.at <= media'.at,
         media.phase = "empty" => media'.phase = "empty" /\ media'.events = media.events,
         ~media'.paused => ~media.paused,
         media'.paused => media.paused \/ media'.at = End \/ media'.refused,
         media.refused => media'.refused,
         \A i \in DOMAIN media.events : i \in DOMAIN media'.events
                                        /\ media'.events[i] = media.events[i]
  PROVE  PlayerInOrder' /\ HoldsItsPlace
<1>1. media.at \in 0..End /\ media'.at \in 0..End /\ store.position \in Int /\ End \in Nat
  BY PlacesAreNumbers DEF PlayerInOrder, Typed, Elements, Stores
<1>2. Typed' /\ Attachment' /\ TokensAreForIt'
  BY DEF PlayerInOrder, Typed, Attachment, TokensAreForIt
<1>3. NothingIsStill'
  <2>1. media.paused \in BOOLEAN /\ media'.paused \in BOOLEAN
    BY DEF PlayerInOrder, Typed, Elements
  <2> QED
    BY <2>1 DEF PlayerInOrder, NothingIsStill, Silent
<1>4. PlaceIsBehind' /\ PlaysOrSaysSo'
  <2>1. PlaceIsBehind'
    BY <1>1 DEF PlayerInOrder, PlaceIsBehind
  <2>2. PlaysOrSaysSo'
    BY <1>1 DEF PlayerInOrder, PlaysOrSaysSo
  <2> QED
    BY <2>1, <2>2
<1>5. SoundIsAnnounced'
  BY DEF PlayerInOrder, SoundIsAnnounced
<1>6. HoldsItsPlace
  BY <1>1 DEF HoldsItsPlace, A!Ended
<1> QED
  BY <1>2, <1>3, <1>4, <1>5, <1>6 DEF PlayerInOrder

LEMMA ItselfKeeps ==
  ASSUME PlayerInOrder, A!CanPlay \/ A!Breaks \/ A!Forbids \/ A!Stalls \/ A!Sounds
  PROVE  PlayerInOrder' /\ HoldsItsPlace
<1>1. media \in Elements /\ errors \in 0..MaxErrors /\ media.at \in 0..End /\ End \in Nat
  BY PlacesAreNumbers DEF PlayerInOrder, Typed, Elements
<1>2. CASE A!CanPlay
  <2> DEFINE ready == [media EXCEPT !.phase = "ready", !.asked = FALSE]
  <2>1. /\ media.phase = "loading" /\ UNCHANGED <<store, mints, connected, past, errors>>
        /\ media' = A!Fire(ready, "tick") \/ media' = A!Fire(ready, "playing")
    BY <1>2 DEF A!CanPlay, A!Does
  <2>2. /\ ready \in Elements /\ ready.src = media.src /\ ready.at = media.at
        /\ ready.attachedTo = media.attachedTo /\ ready.usingToken = media.usingToken
        /\ ready.paused = media.paused /\ ready.refused = media.refused /\ ready.events = media.events
    BY <1>1 DEF Elements
  <2> HIDE DEF ready
  <2>3. {"tick", "playing"} \subseteq A!Events
    BY DEF A!Events
  <2>4. PICK e \in A!Events : media' = A!Fire(ready, e)
    BY <2>1, <2>3
  <2> HIDE DEF Elements
  <2>5. /\ media' \in Elements
        /\ \A i \in DOMAIN media.events : i \in DOMAIN media'.events
                                          /\ media'.events[i] = media.events[i]
        /\ media'.src = media.src /\ media'.paused = media.paused /\ media'.at = media.at
        /\ media'.refused = media.refused
        /\ media'.attachedTo = media.attachedTo /\ media'.usingToken = media.usingToken
    BY <2>2, <2>4, FireIs
  <2> QED
    BY <1>1, <2>1, <2>5, ElementKeeps
<1>3. CASE A!Breaks
  <2> DEFINE f == A!Fire(media, "error")
  <2>1. /\ media.phase \in {"loading", "ready"} /\ UNCHANGED <<store, mints, connected, past>>
        /\ errors < MaxErrors /\ errors' = errors + 1 /\ ~media.refused
        /\ media' = [f EXCEPT !.phase = "broken", !.asked = FALSE, !.refused = media.asked]
    BY <1>3 DEF A!Breaks, A!Does, A!Free, A!Settled
  <2>2. /\ f \in Elements
        /\ \A i \in DOMAIN media.events : i \in DOMAIN f.events
                                          /\ f.events[i] = media.events[i]
        /\ f.src = media.src /\ f.paused = media.paused /\ f.at = media.at
        /\ f.attachedTo = media.attachedTo /\ f.usingToken = media.usingToken
    BY <1>1, FireIs DEF A!Events
  <2> HIDE DEF f
  <2>3. media.asked \in BOOLEAN
    BY <1>1 DEF Elements
  <2>4. /\ media' \in Elements /\ media'.events = f.events
        /\ media'.src = media.src /\ media'.paused = media.paused /\ media'.at = media.at
        /\ media'.attachedTo = media.attachedTo /\ media'.usingToken = media.usingToken
    BY <2>1, <2>2, <2>3 DEF Elements
  <2>5. errors' \in 0..MaxErrors
    BY <1>1, <2>1, PlayerAssumption
  <2> QED
    BY <1>1, <2>1, <2>2, <2>4, <2>5, ElementKeeps
<1>4. CASE A!Forbids
  <2>1. /\ UNCHANGED <<store, mints, connected, past, errors>>
        /\ media' = [media EXCEPT !.paused = TRUE, !.asked = FALSE, !.refused = TRUE]
    BY <1>4 DEF A!Forbids, A!Does
  <2>2. /\ media' \in Elements /\ media'.events = media.events /\ media'.phase = media.phase
        /\ media'.src = media.src /\ media'.paused /\ media'.refused /\ media'.at = media.at
        /\ media'.attachedTo = media.attachedTo /\ media'.usingToken = media.usingToken
    BY <1>1, <2>1 DEF Elements
  <2> QED
    BY <1>1, <2>1, <2>2, ElementKeeps
<1>5. CASE A!Stalls
  <2> DEFINE f == A!Fire(media, "waiting")
  <2>1. /\ media.phase = "ready" /\ UNCHANGED <<store, mints, connected, past, errors>>
        /\ media' = [f EXCEPT !.phase = "loading"]
    BY <1>5 DEF A!Stalls, A!Does, A!Sounding
  <2>2. /\ f \in Elements
        /\ \A i \in DOMAIN media.events : i \in DOMAIN f.events
                                          /\ f.events[i] = media.events[i]
        /\ f.src = media.src /\ f.paused = media.paused /\ f.at = media.at
        /\ f.refused = media.refused
        /\ f.attachedTo = media.attachedTo /\ f.usingToken = media.usingToken
    BY <1>1, FireIs DEF A!Events
  <2> HIDE DEF f
  <2>3. /\ media' \in Elements /\ media'.events = f.events /\ media'.refused = media.refused
        /\ media'.src = media.src /\ media'.paused = media.paused /\ media'.at = media.at
        /\ media'.attachedTo = media.attachedTo /\ media'.usingToken = media.usingToken
    BY <2>1, <2>2 DEF Elements
  <2> QED
    BY <1>1, <2>1, <2>2, <2>3, ElementKeeps
<1>6. CASE A!Sounds
  <2> DEFINE on == [media EXCEPT !.at = IF media.at = End THEN End ELSE media.at + 1]
             stopped == [on EXCEPT !.paused = TRUE]
             f == A!Fire(stopped, "tick")
  <2>1. /\ media.phase = "ready" /\ ~media.paused
        /\ UNCHANGED <<store, mints, connected, past, errors>>
        /\ media' = IF on.at = End THEN A!Fire(f, "ended") ELSE on
    BY <1>6 DEF A!Sounds, A!Does, A!Sounding
  <2>2. /\ on \in Elements /\ on.events = media.events /\ on.refused = media.refused
        /\ on.src = media.src /\ on.paused = media.paused /\ media.at <= on.at
        /\ on.attachedTo = media.attachedTo /\ on.usingToken = media.usingToken
    BY <1>1, PlacesAreNumbers DEF Elements
  <2> HIDE DEF on
  <2>3. CASE on.at # End
    BY <1>1, <2>1, <2>2, <2>3, ElementKeeps
  <2>4. CASE on.at = End
    <3>1. /\ stopped \in Elements /\ stopped.events = media.events
          /\ stopped.refused = media.refused /\ stopped.paused
          /\ stopped.src = media.src /\ stopped.at = End
          /\ stopped.attachedTo = media.attachedTo /\ stopped.usingToken = media.usingToken
      BY <2>2, <2>4 DEF Elements
    <3> HIDE DEF stopped
    <3>2. /\ f \in Elements
          /\ \A i \in DOMAIN media.events : i \in DOMAIN f.events
                                            /\ f.events[i] = media.events[i]
          /\ f.src = media.src /\ f.paused /\ f.at = End /\ f.refused = media.refused
          /\ f.attachedTo = media.attachedTo /\ f.usingToken = media.usingToken
      BY <3>1, FireIs DEF A!Events
    <3> HIDE DEF f
    <3>3. /\ media' \in Elements
          /\ \A i \in DOMAIN media.events : i \in DOMAIN media'.events
                                            /\ media'.events[i] = media.events[i]
          /\ media'.src = media.src /\ media'.paused /\ media'.at = End
          /\ media'.refused = media.refused
          /\ media'.attachedTo = media.attachedTo /\ media'.usingToken = media.usingToken
      BY <2>1, <2>4, <3>2, FireIs DEF A!Events
    <3> QED
      BY <1>1, <2>1, <3>3, ElementKeeps
  <2> QED
    BY <2>3, <2>4
<1> QED
  BY <1>2, <1>3, <1>4, <1>5, <1>6

\* What is heard of an event: the store is told and the element made to agree.
LEMMA HearsKeeps ==
  ASSUME PlayerInOrder, media.events # <<>>, NEW s, WellPlaced(s), s.recording = store.recording,
         A!Hears(s), UNCHANGED <<connected, errors>>
  PROVE  PlayerInOrder' /\ HoldsItsPlace
<1>1. /\ mints \in [Recordings -> 0..MaxMints] /\ connected \in BOOLEAN /\ errors \in 0..MaxErrors
      /\ past \in Pasts
  BY DEF PlayerInOrder, Typed
<1>2. store' = s /\ media' = A!Applied(A!Handled, s) /\ UNCHANGED <<mints, past>>
  BY DEF A!Hears
<1>3. \A r \in Recordings : mints'[r] <= mints[r]
  BY <1>1, <1>2, PlayerAssumption
<1>4. SameBut(A!Handled)
  BY OwnElement
<1> QED
  BY <1>1, <1>2, <1>3, <1>4, StoreKeeps

\* A token is asked for: the place is not what counts until it has come.
LEMMA AskingKeeps ==
  ASSUME PlayerInOrder, connected, media.events # <<>>, A!First = "error",
         store.recording # NoRecording, mints[store.recording] < MaxMints,
         mints' = [mints EXCEPT ![store.recording] = @ + 1],
         media' = [A!Handled EXCEPT !.usingToken = TRUE],
         UNCHANGED <<store, past, connected, errors>>
  PROVE  PlayerInOrder' /\ HoldsItsPlace
<1>1. /\ store \in Stores /\ media \in Elements /\ mints \in [Recordings -> 0..MaxMints]
      /\ connected \in BOOLEAN /\ errors \in 0..MaxErrors /\ past \in Pasts
      /\ store.recording \in Recordings
  BY DEF PlayerInOrder, Typed, Stores
<1>2. Tail(media.events) \in Seq(A!Events)
  BY <1>1 DEF Elements
<1>3. media' = [media EXCEPT !.events = Tail(media.events), !.usingToken = TRUE]
  BY <1>1 DEF A!Handled, Elements
<1>4. /\ media' \in Elements /\ media'.events = Tail(media.events) /\ media'.usingToken
      /\ media'.src = media.src /\ media'.paused = media.paused /\ media'.at = media.at
      /\ media'.attachedTo = media.attachedTo /\ media'.refused = media.refused
      /\ media'.phase = media.phase
  BY <1>1, <1>2, <1>3 DEF Elements
<1>5. mints' \in [Recordings -> 0..MaxMints]
  BY <1>1, PlayerAssumption
<1>6. Typed'
  BY <1>1, <1>4, <1>5 DEF Typed
<1>7. Attachment' /\ NothingIsStill' /\ PlaceIsBehind' /\ PlaysOrSaysSo'
  BY <1>4 DEF PlayerInOrder, Attachment, NothingIsStill, PlaceIsBehind, PlaysOrSaysSo
<1>8. TokensAreForIt'
  <2> SUFFICES ASSUME NEW r \in Recordings, mints'[r] > 0, r # store.recording
               PROVE  past.overtaken
    BY <1>4 DEF TokensAreForIt
  <2>1. mints'[r] = mints[r]
    BY <1>1
  <2> QED
    BY <2>1 DEF PlayerInOrder, TokensAreForIt
<1>9. SoundIsAnnounced'
  <2> SUFFICES ASSUME ~media.paused, store.status \notin Playings
               PROVE  \E i \in DOMAIN media'.events : media'.events[i] \in {"waiting", "playing"}
    BY <1>4 DEF SoundIsAnnounced
  <2>1. PICK i \in DOMAIN media.events : media.events[i] \in {"waiting", "playing"}
    BY DEF PlayerInOrder, SoundIsAnnounced
  <2>2. media.events \in Seq(A!Events) /\ media.events[1] = "error"
    BY <1>1 DEF Elements, A!First
  <2>3. i \in 2..Len(media.events)
    BY <2>1, <2>2
  <2>4. i - 1 \in DOMAIN Tail(media.events) /\ Tail(media.events)[i - 1] = media.events[i]
    BY <2>2, <2>3
  <2> QED
    BY <1>4, <2>1, <2>4
<1>10. HoldsItsPlace
  <2>1. store.position \in Int /\ media.at \in Int
    BY <1>1, PlacesAreNumbers DEF Stores, Elements
  <2> QED
    BY <1>4, <2>1 DEF HoldsItsPlace, A!Ended
<1> QED
  BY <1>6, <1>7, <1>8, <1>9, <1>10 DEF PlayerInOrder

LEMMA TaskKeeps ==
  ASSUME PlayerInOrder, A!Task
  PROVE  PlayerInOrder' /\ HoldsItsPlace
<1>1. media.events # <<>> /\ UNCHANGED <<connected, errors>>
  BY DEF A!Task
<1>2. CASE ~connected
  <2>1. /\ media' = A!Handled /\ past' = [past EXCEPT !.unheard = TRUE] /\ UNCHANGED <<store, mints>>
    BY <1>2 DEF A!Task
  <2>2. Typed /\ media \in Elements /\ past \in Pasts /\ Tail(media.events) \in Seq(A!Events)
    BY <1>1 DEF PlayerInOrder, Typed, Elements
  <2>3. /\ media' \in Elements
        /\ media'.src = media.src /\ media'.paused = media.paused /\ media'.at = media.at
        /\ media'.attachedTo = media.attachedTo /\ media'.refused = media.refused
        /\ media'.usingToken = media.usingToken
    BY <2>1, <2>2 DEF A!Handled, Elements
  <2>4. past' \in Pasts /\ past'.overtaken = past.overtaken
    BY <2>1, <2>2 DEF Pasts
  <2>5. Typed'
    BY <1>1, <2>1, <2>2, <2>3, <2>4 DEF Typed
  <2>6. /\ Attachment' /\ TokensAreForIt' /\ NothingIsStill' /\ PlaceIsBehind' /\ PlaysOrSaysSo'
        /\ SoundIsAnnounced'
    BY <1>1, <1>2, <2>1, <2>3, <2>4 DEF PlayerInOrder, Attachment, TokensAreForIt, NothingIsStill,
       Silent, PlaceIsBehind, PlaysOrSaysSo, SoundIsAnnounced
  <2>7. HoldsItsPlace
    <3>1. store.position \in Int /\ media.at \in Int
      BY <2>2, PlacesAreNumbers DEF Typed, Stores, Elements
    <3> QED
      BY <2>1, <2>3, <3>1 DEF HoldsItsPlace, A!Ended
  <2> QED
    BY <2>5, <2>6, <2>7 DEF PlayerInOrder
<1>3. CASE connected
  <2>1. \/ A!First = "tick" /\ A!Hears(A!Placed(store))
        \/ \E status \in {"playing", "buffering", "paused"} : A!Hears(A!Reported(store, status))
        \/ A!First = "error" /\ A!Recover
    <3>1. A!First \in A!Events
      <4>1. media.events \in Seq(A!Events)
        BY DEF PlayerInOrder, Typed, Elements
      <4> QED
        BY <1>1, <4>1 DEF A!First
    <3>2. CASE A!First = "tick"
      BY <1>3, <3>2 DEF A!Task
    <3>3. CASE A!First = "playing"
      BY <1>3, <3>3 DEF A!Task
    <3>4. CASE A!First = "waiting"
      BY <1>3, <3>4 DEF A!Task
    <3>5. CASE A!First = "ended"
      BY <1>3, <3>5 DEF A!Task
    <3>6. CASE A!First = "error"
      BY <1>3, <3>6 DEF A!Task
    <3> QED
      BY <3>1, <3>2, <3>3, <3>4, <3>5, <3>6 DEF A!Events
  <2>2. store \in Stores
    BY DEF PlayerInOrder, Typed
  <2>3. CASE A!Hears(A!Placed(store))
    <3>1. A!Placed(store).recording = store.recording
      BY <2>2 DEF A!Placed, Stores
    <3> QED
      BY <1>1, <2>3, <3>1, PlacedIsWellPlaced, HearsKeeps
  <2>4. ASSUME NEW status \in A!Statuses, A!Hears(A!Reported(store, status))
        PROVE  PlayerInOrder' /\ HoldsItsPlace
    <3>1. A!Reported(store, status).recording = store.recording
      BY <2>2 DEF A!Reported, Stores
    <3> QED
      BY <1>1, <2>4, <3>1, ProposalsAreWellPlaced, HearsKeeps
  <2>5. CASE A!First = "error" /\ A!Recover
    <3>1. "failed" \in A!Statuses
      BY DEF A!Statuses
    <3>2. CASE store.recording = NoRecording \/ media.usingToken
      BY <2>4, <2>5, <3>1, <3>2 DEF A!Recover
    <3>3. CASE ~(store.recording = NoRecording \/ media.usingToken)
      BY <1>1, <1>3, <2>5, <3>3, AskingKeeps DEF A!Recover
    <3> QED
      BY <3>2, <3>3
  <2>6. {"playing", "buffering", "paused"} \subseteq A!Statuses
    BY DEF A!Statuses
  <2> QED
    BY <2>1, <2>3, <2>4, <2>5, <2>6
<1> QED
  BY <1>2, <1>3 DEF PlayerInOrder, Typed

LEMMA IntervalKeeps ==
  ASSUME PlayerInOrder, A!Interval
  PROVE  PlayerInOrder' /\ HoldsItsPlace
BY PlacedIsWellPlaced, SetKeeps DEF A!Interval

\* A change that reaches the store with the frame away: only that something failed.
LEMMA FailedAwayKeeps ==
  ASSUME PlayerInOrder, ~connected, NEW s, s = A!Reported(store, "failed"), store' = s,
         media' = media \/ media' = [media EXCEPT !.refused = FALSE],
         mints' \in [Recordings -> 0..MaxMints], \A r \in Recordings : mints'[r] <= mints[r],
         UNCHANGED <<connected, errors, past>>
  PROVE  PlayerInOrder' /\ HoldsItsPlace
<1>1. store \in Stores /\ media \in Elements /\ past \in Pasts /\ mints \in [Recordings -> 0..MaxMints]
  BY DEF PlayerInOrder, Typed
<1>2. /\ store' \in Stores /\ store'.status = "failed" /\ store'.recording = store.recording
      /\ store'.position = store.position /\ store'.seeking = store.seeking
  BY <1>1 DEF A!Reported, Stores, A!Statuses
<1>3. /\ media' \in Elements /\ media'.events = media.events /\ media'.phase = media.phase
      /\ media'.src = media.src /\ media'.paused = media.paused /\ media'.at = media.at
      /\ media'.attachedTo = media.attachedTo /\ media'.usingToken = media.usingToken
  BY <1>1 DEF Elements
<1>4. Typed'
  BY <1>2, <1>3 DEF PlayerInOrder, Typed
<1>5. Attachment' /\ NothingIsStill' /\ PlaceIsBehind' /\ PlaysOrSaysSo' /\ SoundIsAnnounced'
  BY <1>2, <1>3 DEF PlayerInOrder, Attachment, NothingIsStill, Silent, PlaceIsBehind,
     PlaysOrSaysSo, SoundIsAnnounced
<1>6. TokensAreForIt'
  <2> SUFFICES ASSUME NEW r \in Recordings, mints'[r] > 0
               PROVE  past.overtaken \/ (r = store.recording /\ media.usingToken)
    BY <1>2, <1>3 DEF TokensAreForIt
  <2>1. mints[r] \in Nat /\ mints'[r] \in Nat /\ mints'[r] <= mints[r]
    BY <1>1, PlayerAssumption
  <2> QED
    BY <2>1 DEF PlayerInOrder, TokensAreForIt
<1>7. HoldsItsPlace
  <2>1. store.position \in Int /\ media.at \in Int
    BY <1>1, PlacesAreNumbers DEF Stores, Elements
  <2> QED
    BY <1>2, <1>3, <2>1 DEF HoldsItsPlace, A!Ended
<1> QED
  BY <1>4, <1>5, <1>6, <1>7 DEF PlayerInOrder

LEMMA RefusalKeeps ==
  ASSUME PlayerInOrder, A!Refusal
  PROVE  PlayerInOrder' /\ HoldsItsPlace
<1> DEFINE told == [media EXCEPT !.refused = FALSE]
           failed == A!Reported(store, "failed")
<1>1. /\ store' = failed /\ media' = (IF connected THEN A!Applied(told, failed) ELSE told)
      /\ UNCHANGED <<mints, connected, errors, past>>
  BY DEF A!Refusal
<1>2. Typed
  BY DEF PlayerInOrder
<1>3. \A r \in Recordings : mints'[r] <= mints[r]
  BY <1>1, <1>2, PlayerAssumption DEF Typed
<1>4. WellPlaced(failed) /\ failed.recording = store.recording /\ SameBut(told)
  <2>1. "failed" \in A!Statuses
    BY DEF A!Statuses
  <2> QED
    BY <1>2, <2>1, ProposalsAreWellPlaced, OwnElement DEF Typed, A!Reported, Stores
<1> HIDE DEF failed, told
<1>5. CASE connected
  BY <1>1, <1>2, <1>3, <1>4, <1>5, StoreKeeps DEF Typed
<1>6. CASE ~connected
  BY <1>1, <1>2, <1>3, <1>6, FailedAwayKeeps DEF Typed, failed, told
<1> QED
  BY <1>5, <1>6

LEMMA TokenRefusedKeeps ==
  ASSUME PlayerInOrder, NEW r \in Recordings, A!TokenRefused(r)
  PROVE  PlayerInOrder' /\ HoldsItsPlace
<1> DEFINE failed == A!Reported(store, "failed")
<1>1. /\ mints[r] > 0 /\ mints' = [mints EXCEPT ![r] = @ - 1]
      /\ store' = failed /\ media' = (IF connected THEN A!Applied(media, failed) ELSE media)
      /\ UNCHANGED <<connected, errors, past>>
  BY DEF A!TokenRefused
<1>2. Typed
  BY DEF PlayerInOrder
<1>3. mints' \in [Recordings -> 0..MaxMints] /\ \A q \in Recordings : mints'[q] <= mints[q]
  BY <1>1, <1>2, PlayerAssumption DEF Typed
<1>4. WellPlaced(failed) /\ failed.recording = store.recording /\ SameBut(media)
  <2>1. "failed" \in A!Statuses
    BY DEF A!Statuses
  <2> QED
    BY <1>2, <2>1, ProposalsAreWellPlaced, OwnElement DEF Typed, A!Reported, Stores
<1> HIDE DEF failed
<1>5. CASE connected
  BY <1>1, <1>2, <1>3, <1>4, <1>5, StoreKeeps DEF Typed
<1>6. CASE ~connected
  BY <1>1, <1>2, <1>3, <1>6, FailedAwayKeeps DEF Typed, failed
<1> QED
  BY <1>5, <1>6

\* A token that came is the source, whatever is loaded; for another it was overtaken.
LEMMA TokenComesKeeps ==
  ASSUME PlayerInOrder, NEW r \in Recordings, A!TokenComes(r)
  PROVE  PlayerInOrder' /\ HoldsItsPlace
<1> DEFINE l == A!Load(media, r)
<1>1. /\ mints[r] > 0 /\ mints' = [mints EXCEPT ![r] = @ - 1] /\ media' = A!Started(l)
      /\ UNCHANGED <<store, connected, errors, past>>
  BY DEF A!TokenComes
<1>2. Typed /\ store \in Stores /\ media \in Elements
  BY DEF PlayerInOrder, Typed
<1>3. r # NoRecording
  BY PlayerAssumption
<1>4. /\ l \in Elements /\ l.src = r /\ l.at = 0 /\ l.phase = "loading" /\ l.events = <<>>
      /\ l.attachedTo = media.attachedTo /\ l.usingToken = media.usingToken
  BY <1>2, <1>3, LoadIs
<1>5. A!Started(l).events = Append(l.events, "waiting")
  BY <1>4 DEF A!Started, A!Fire, Elements
<1> HIDE DEF l
<1>6. /\ media' \in Elements /\ media'.src = r /\ ~media'.paused /\ media'.phase = "loading"
      /\ media'.attachedTo = media.attachedTo /\ media'.usingToken = media.usingToken
      /\ media'.events = <<"waiting">>
  BY <1>1, <1>4, <1>5, StartedIs
<1>7. past.overtaken \/ (r = store.recording /\ media.usingToken)
  BY <1>1 DEF PlayerInOrder, TokensAreForIt
<1>8. mints' \in [Recordings -> 0..MaxMints] /\ \A q \in Recordings : mints'[q] <= mints[q]
  BY <1>1, <1>2, PlayerAssumption DEF Typed
<1>9. Typed'
  BY <1>1, <1>2, <1>6, <1>8 DEF Typed
<1>10. Attachment' /\ NothingIsStill' /\ PlaceIsBehind' /\ PlaysOrSaysSo'
  BY <1>1, <1>3, <1>6, <1>7 DEF PlayerInOrder, Attachment, NothingIsStill, PlaceIsBehind, PlaysOrSaysSo
<1>11. TokensAreForIt'
  <2> SUFFICES ASSUME NEW q \in Recordings, mints'[q] > 0
               PROVE  past.overtaken \/ (q = store.recording /\ media.usingToken)
    BY <1>1, <1>6 DEF TokensAreForIt
  <2>1. mints[q] \in Nat /\ mints'[q] \in Nat /\ mints'[q] <= mints[q]
    BY <1>2, <1>8, PlayerAssumption DEF Typed
  <2> QED
    BY <2>1 DEF PlayerInOrder, TokensAreForIt
<1>12. SoundIsAnnounced'
  <2>1. 1 \in DOMAIN media'.events /\ media'.events[1] = "waiting"
    BY <1>6
  <2> QED
    BY <2>1 DEF SoundIsAnnounced
<1>13. HoldsItsPlace
  <2>1. store.position \in Int
    BY <1>2, PlacesAreNumbers DEF Stores
  <2> QED
    BY <1>1, <1>6, <2>1 DEF HoldsItsPlace
<1> QED
  BY <1>9, <1>10, <1>11, <1>12, <1>13 DEF PlayerInOrder

\* Signing out unmounts the frame; when one is mounted again the element is made to agree.
LEMMA MountingKeeps ==
  ASSUME PlayerInOrder, A!Disconnect \/ A!Connect
  PROVE  PlayerInOrder' /\ HoldsItsPlace
<1>1. Typed /\ store \in Stores /\ media \in Elements
  BY DEF PlayerInOrder, Typed
<1>2. store.position \in Int /\ media.at \in Int
  BY <1>1, PlacesAreNumbers DEF Stores, Elements
<1>3. CASE A!Disconnect
  <2>1. connected' = FALSE /\ UNCHANGED <<store, media, mints, errors, past>>
    BY <1>3 DEF A!Disconnect
  <2>2. HoldsItsPlace
    BY <1>2, <2>1 DEF HoldsItsPlace, A!Ended
  <2> QED
    BY <2>1, <2>2 DEF PlayerInOrder, Typed, Attachment, TokensAreForIt, NothingIsStill, Silent,
       PlaceIsBehind, PlaysOrSaysSo, SoundIsAnnounced
<1>4. CASE A!Connect
  <2>1. /\ connected' = TRUE /\ media' = A!Applied(media, store)
        /\ UNCHANGED <<store, mints, errors, past>>
    BY <1>4 DEF A!Connect
  <2>2. SameBut(media)
    BY OwnElement
  <2>3. WellPlaced(store)
    BY <1>1, <1>2 DEF WellPlaced, PlayerInOrder, PlaceIsBehind
  <2>4. \A r \in Recordings : mints'[r] <= mints[r]
    BY <1>1, <2>1, PlayerAssumption DEF Typed
  <2> QED
    BY <1>1, <2>1, <2>2, <2>3, <2>4, StoreKeeps DEF Typed
<1> QED
  BY <1>3, <1>4

LEMMA PlayerStep ==
  ASSUME PlayerInOrder, [A!Next]_(A!vars)
  PROVE  PlayerInOrder' /\ (HoldsItsPlace \/ UNCHANGED A!vars)
<1>1. CASE UNCHANGED A!vars
  BY <1>1 DEF A!vars, PlayerInOrder, Typed, Attachment, TokensAreForIt, NothingIsStill, Silent,
     PlaceIsBehind, PlaysOrSaysSo, SoundIsAnnounced
<1>2. CASE A!Next
  BY <1>2, SurfacesKeep, ItselfKeeps, TaskKeeps, IntervalKeeps, RefusalKeeps, TokenComesKeeps,
     TokenRefusedKeeps, MountingKeeps DEF A!Next
<1> QED
  BY <1>1, <1>2

LEMMA PlayerInit ==
  ASSUME A!Init
  PROVE  PlayerInOrder
<1>1. store \in Stores /\ store.recording = NoRecording /\ store.seeking = A!NoSeek
  BY PlacesAreNumbers DEF A!Init, A!EMPTY, Stores, A!Statuses
<1>2. media \in Elements /\ media.attachedTo = NoRecording /\ media.src = NoRecording /\ Silent(media)
  <2>1. <<>> \in Seq(A!Events)
    OBVIOUS
  <2> QED
    BY <2>1, PlacesAreNumbers DEF A!Init, A!Unloaded, Elements, Silent
<1>3. mints \in [Recordings -> 0..MaxMints] /\ \A r \in Recordings : mints[r] = 0
  BY PlayerAssumption DEF A!Init
<1>4. connected \in BOOLEAN /\ past \in Pasts /\ errors \in 0..MaxErrors
  BY PlayerAssumption DEF A!Init, Pasts
<1> QED
  BY <1>1, <1>2, <1>3, <1>4 DEF PlayerInOrder, Typed, Attachment, TokensAreForIt, NothingIsStill,
     PlaceIsBehind, PlaysOrSaysSo, SoundIsAnnounced

\* What the player says of itself follows.
LEMMA PlayerFollows ==
  ASSUME PlayerInOrder
  PROVE  A!PlayerInv
<1>1. A!TypeOK
  BY DEF PlayerInOrder, Typed, Stores, Elements, Pasts, A!TypeOK
<1>2. A!SoundIsTheBars
  BY DEF PlayerInOrder, Attachment, A!SoundIsTheBars
<1>3. A!InStepWithIt
  <2> SUFFICES ASSUME A!Quiet, store.recording # NoRecording
               PROVE  /\ store.status = "playing" => ~media.paused \/ media.at = End
                      /\ A!Sounding(media) => store.status \in {"playing", "buffering"}
    BY DEF A!InStepWithIt
  <2>1. connected /\ ~media.refused /\ media.events = <<>>
    BY DEF A!Quiet, A!Settled
  <2>2. DOMAIN media.events = {}
    BY <2>1
  <2> QED
    BY <2>1, <2>2 DEF PlayerInOrder, PlaysOrSaysSo, SoundIsAnnounced, Playings, A!Sounding
<1> QED
  BY <1>1, <1>2, <1>3 DEF A!PlayerInv

-----------------------------------------------------------------------------
(* The two of them *)

LEMMA PlaybackStep ==
  ASSUME PlayerInOrder, PageInOrder, [Played \/ Shown]_all
  PROVE  /\ PlayerInOrder' /\ PageInOrder'
         /\ HoldsItsPlace \/ UNCHANGED A!vars
         /\ following /\ ~following' => column.theirs \/ column'.theirs
<1>1. [A!Next]_(A!vars) /\ [P!Next]_onPage
  BY DEF Played, Shown, all, A!vars, inPlayer
<1> QED
  BY <1>1, PlayerStep, PageStep

LEMMA PlaybackIsInOrder == PlaybackSpec => [](PlayerInOrder /\ PageInOrder)
<1>1. PlaybackInit => PlayerInOrder /\ PageInOrder
  BY PlayerInit, PageInit DEF PlaybackInit
<1>2. PlayerInOrder /\ PageInOrder /\ [Played \/ Shown]_all => (PlayerInOrder /\ PageInOrder)'
  BY PlaybackStep
<1> QED
  BY <1>1, <1>2, PTL DEF PlaybackSpec

\* What sounds is what the bar says, and what says it plays, plays (audio.ts); one surface draws
\* the picture of it, and a page that was released scrolls nothing (use-waveform-fade.ts,
\* use-follow.ts).
THEOREM PlaybackHoldsTogether == PlaybackSpec => []PlaybackInv
<1>1. PlayerInOrder /\ PageInOrder => PlaybackInv
  BY PlayerFollows, PageFollows DEF PlaybackInv
<1> QED
  BY <1>1, PlaybackIsInOrder, PTL

\* The position that is shown goes back only for a cause, and what played to its end starts over
\* for nobody (audio.ts).
THEOREM PositionsStand == PlaybackSpec => PositionStands
<1>1. PlayerInOrder /\ PageInOrder /\ [Played \/ Shown]_all =>
        /\ [store'.position < store.position =>
              \/ store'.seeking # A!NoSeek
              \/ store'.recording # store.recording
              \/ store'.status = "buffering"
              \/ media.usingToken \/ past.overtaken]_(A!vars)
        /\ [A!Ended(media) /\ media'.at < End =>
              store'.seeking # A!NoSeek \/ media'.phase # "ready"]_(A!vars)
  <2> SUFFICES ASSUME PlayerInOrder, PageInOrder, [Played \/ Shown]_all
               PROVE  HoldsItsPlace \/ UNCHANGED A!vars
    BY DEF HoldsItsPlace
  <2> QED
    BY PlaybackStep
<1> QED
  BY <1>1, PlaybackIsInOrder, PTL DEF PlaybackSpec, PositionStands, A!PositionStands, A!NoBounce, A!NeverStartsOver

\* The transcript stops following because somebody scrolled, and for nothing the page did itself
\* (use-follow.ts).
THEOREM APersonReleases == PlaybackSpec => OnlyAPersonReleases
<1>1. PlayerInOrder /\ PageInOrder /\ [Played \/ Shown]_all =>
        [following /\ ~following' => column.theirs \/ column'.theirs]_(P!vars)
  BY PlaybackStep
<1> QED
  BY <1>1, PlaybackIsInOrder, PTL DEF PlaybackSpec, OnlyAPersonReleases, P!OnlyAPersonReleases
=============================================================================
