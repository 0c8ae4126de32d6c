-------------------------------- MODULE Changes --------------------------------
(***************************************************************************)
(* How an open page learns that a job has settled: the worker announces it *)
(* (jobs/worker.py, core/changes.py), a stream of server-sent events       *)
(* carries which recording it was (api/routes/events.py), and the page     *)
(* fetches the recording again (frontend/src/app/events.tsx).  While the   *)
(* stream is open the page has stopped asking by itself, so whatever is    *)
(* lost between the commit and the fetch is lost for good.                 *)
(*                                                                         *)
(* Abstractions.  Of a recording only how many of its jobs have settled is *)
(* kept; a page draws every recording it may read, from one query each,    *)
(* whose requests are answered.  Heartbeats and what a page asks for when  *)
(* its window is looked at again change nothing a property is about.       *)
(***************************************************************************)
EXTENDS Naturals, FiniteSets, Sequences

CONSTANTS
    Recordings,
    Threads,        \* of the worker
    Pages,          \* open in somebody's browser
    Readable,       \* the recordings each page's account may read
    Jobs,           \* how many jobs each recording has to settle
    QUEUE_DEPTH,
    MaxMishaps,     \* bound on broken streams, crashes and changes nobody announces
    Nothing, RESYNC,
    ASKED           \* a request the instance has not read the database for

ASSUME ChangesAssumption ==
    /\ Readable \in [Pages -> SUBSET Recordings]
    /\ Jobs \in [Recordings -> Nat] /\ QUEUE_DEPTH \in Nat \ {0}
    /\ MaxMishaps \in Nat
    /\ Nothing \notin Recordings \cup Nat /\ RESYNC \notin Recordings
    /\ ASKED \notin Nat \cup {Nothing}

VARIABLES
    settled,    \* how many jobs of each recording have settled, as committed
    saying,     \* what each thread has committed and not announced yet
    stream,     \* each page's connection, as far as the page knows
    opened,     \* whether it has been open before
    soon,       \* _enqueue calls the event loop has still to make
    queue,      \* each subscription's queue
    missed,     \* its overflow flag
    reading,    \* where next() is
    wire,       \* events sent and not received
    gathered,   \* events received, for the next flush
    fetch,      \* the request each page has out for each recording
    shown,      \* what the page shows of it
    mishaps,
    unheard     \* history: what a page had no way to hear of

subscription == <<soon, queue, missed, reading>>
browser == <<gathered, fetch, shown>>
vars == <<settled, saying, stream, opened, subscription, wire, browser, mishaps, unheard>>

-----------------------------------------------------------------------------
\* "closed" was refused outright: an EventSource does not try again.
Streams == {"connecting", "accepted", "open", "cut", "closed"}

\* The instance holds a subscription from when it accepts the request.
Subscribed(c) == stream[c] \in {"accepted", "open"}

\* While it believes its stream open, a page does not poll.
Live(c) == stream[c] \in {"open", "cut"}

Init ==
    /\ settled = [r \in Recordings |-> 0]
    /\ saying = [t \in Threads |-> Nothing]
    /\ stream = [c \in Pages |-> "connecting"]
    /\ opened = [c \in Pages |-> FALSE]
    /\ soon = [c \in Pages |-> <<>>]
    /\ queue = [c \in Pages |-> <<>>]
    /\ missed = [c \in Pages |-> FALSE]
    /\ reading = [c \in Pages |-> "top"]
    /\ wire = [c \in Pages |-> <<>>]
    /\ gathered = [c \in Pages |-> {}]
    /\ fetch = [c \in Pages |-> [r \in Recordings |-> IF r \in Readable[c] THEN ASKED ELSE Nothing]]
    /\ shown = [c \in Pages |-> [r \in Recordings |-> Nothing]]
    /\ mishaps = 0
    /\ unheard = [c \in Pages |-> {}]

-----------------------------------------------------------------------------
(* The worker *)

\* A page that is not listening yet, or whose first answer has not come.
TooEarly(c, r) == ~opened[c] \/ shown[c][r] = Nothing

Commits(r) ==
    /\ settled[r] < Jobs[r]
    /\ settled' = [settled EXCEPT ![r] = @ + 1]

Settle(t, r) ==
    /\ saying[t] = Nothing
    /\ Commits(r)
    /\ saying' = [saying EXCEPT ![t] = r]
    /\ unheard' = [c \in Pages |->
         IF r \in Readable[c] /\ TooEarly(c, r) THEN unheard[c] \cup {r} ELSE unheard[c]]
    /\ UNCHANGED <<stream, opened, subscription, wire, browser, mishaps>>

Mishap == mishaps < MaxMishaps /\ mishaps' = mishaps + 1

\* One call_soon_threadsafe for each subscriber there is.
Publish(t) ==
    /\ saying[t] # Nothing
    /\ soon' = [c \in Pages |-> IF Subscribed(c) THEN Append(soon[c], saying[t]) ELSE soon[c]]
    /\ saying' = [saying EXCEPT ![t] = Nothing]
    /\ UNCHANGED <<settled, stream, opened, queue, missed, reading, wire, browser, mishaps,
                   unheard>>

Unannounced(r) ==
    /\ Mishap
    /\ unheard' = [c \in Pages |-> unheard[c] \cup ({r} \cap Readable[c])]

\* Looking the uuid up raises, after the outcome was committed.
AnnounceFails(t) ==
    /\ saying[t] # Nothing
    /\ Unannounced(saying[t])
    /\ saying' = [saying EXCEPT ![t] = Nothing]
    /\ UNCHANGED <<settled, stream, opened, subscription, wire, browser>>

\* A request that settles a job tells the page that made it, and nobody else;
\* nor does the worker, when the handler of a cancelled job returns.
CancelTranscription(r) ==
    /\ Commits(r)
    /\ Unannounced(r)
    /\ UNCHANGED <<saying, stream, opened, subscription, wire, browser>>

-----------------------------------------------------------------------------
(* The subscription, on the event loop *)

EnqueueVariant(c) ==   \* what does not fit is dropped in silence
    /\ soon[c] # <<>>
    /\ soon' = [soon EXCEPT ![c] = Tail(@)]
    /\ queue' = IF Len(queue[c]) < QUEUE_DEPTH
                THEN [queue EXCEPT ![c] = Append(@, Head(soon[c]))] ELSE queue
    /\ UNCHANGED <<settled, saying, stream, opened, missed, reading, wire, browser, mishaps,
                   unheard>>

Enqueue(c) ==
    /\ soon[c] # <<>>
    /\ soon' = [soon EXCEPT ![c] = Tail(@)]
    /\ IF Len(queue[c]) < QUEUE_DEPTH
       THEN queue' = [queue EXCEPT ![c] = Append(@, Head(soon[c]))] /\ UNCHANGED missed
       ELSE missed' = [missed EXCEPT ![c] = TRUE] /\ UNCHANGED queue
    /\ UNCHANGED <<settled, saying, stream, opened, reading, wire, browser, mishaps, unheard>>

\* The stream passes on what its account may read.
PassOn(c) ==
    /\ queue[c] # <<>>
    /\ queue' = [queue EXCEPT ![c] = Tail(@)]
    /\ wire' = IF Head(queue[c]) \in Readable[c]
               THEN [wire EXCEPT ![c] = Append(@, Head(queue[c]))] ELSE wire

\* next() asks about the flag, then takes what is queued, or waits for it.
Ask(c) ==
    /\ Subscribed(c) /\ reading[c] = "top"
    /\ \/ /\ missed[c]
          /\ missed' = [missed EXCEPT ![c] = FALSE]
          /\ wire' = [wire EXCEPT ![c] = Append(@, RESYNC)]
          /\ UNCHANGED <<reading, queue>>
       \/ ~missed[c] /\ PassOn(c) /\ UNCHANGED <<reading, missed>>
       \/ /\ ~missed[c] /\ queue[c] = <<>>
          /\ reading' = [reading EXCEPT ![c] = "waiting"]
          /\ UNCHANGED <<queue, missed, wire>>
    /\ UNCHANGED <<settled, saying, stream, opened, soon, browser, mishaps, unheard>>

\* Woken, next() takes what is queued whatever the flag says by now.
Wake(c) ==
    /\ Subscribed(c) /\ reading[c] = "waiting"
    /\ PassOn(c)
    /\ reading' = [reading EXCEPT ![c] = "top"]
    /\ UNCHANGED <<settled, saying, stream, opened, soon, missed, browser, mishaps, unheard>>

-----------------------------------------------------------------------------
(* The connection *)

\* The request is accepted and the subscription made in one turn of the loop.
Accept(c) ==
    /\ stream[c] = "connecting"
    /\ stream' = [stream EXCEPT ![c] = "accepted"]
    /\ UNCHANGED <<settled, saying, opened, subscription, wire, browser, mishaps, unheard>>

Refuse(c) ==
    /\ stream[c] = "connecting"
    /\ stream' = [stream EXCEPT ![c] = "closed"]
    /\ UNCHANGED <<settled, saying, opened, subscription, wire, browser, mishaps, unheard>>

InvalidatedVariant(c, rs) ==   \* a request that is out is as good as a new one
    fetch' = [fetch EXCEPT ![c] = [r \in Recordings |->
                 IF r \in rs /\ fetch[c][r] = Nothing THEN ASKED ELSE fetch[c][r]]]

\* Queries told that their answer is stale ask again, dropping the request they
\* have out, except that a first answer still on its way is let come.
Invalidated(c, rs) ==
    fetch' = [fetch EXCEPT ![c] = [r \in Recordings |->
                 IF r \in rs /\ shown[c][r] # Nothing THEN ASKED ELSE fetch[c][r]]]

\* onopen: reconnecting refetches everything; connecting does not.
Open(c) ==
    /\ stream[c] = "accepted"
    /\ stream' = [stream EXCEPT ![c] = "open"]
    /\ opened' = [opened EXCEPT ![c] = TRUE]
    /\ IF opened[c] THEN Invalidated(c, Readable[c]) ELSE UNCHANGED fetch
    /\ UNCHANGED <<settled, saying, subscription, wire, gathered, shown, mishaps, unheard>>

\* What a broken stream held is nobody's any more.
Unsubscribed(cs) ==
    /\ soon' = [c \in Pages |-> IF c \in cs THEN <<>> ELSE soon[c]]
    /\ queue' = [c \in Pages |-> IF c \in cs THEN <<>> ELSE queue[c]]
    /\ missed' = [c \in Pages |-> IF c \in cs THEN FALSE ELSE missed[c]]
    /\ reading' = [c \in Pages |-> IF c \in cs THEN "top" ELSE reading[c]]
    /\ wire' = [c \in Pages |-> IF c \in cs THEN <<>> ELSE wire[c]]
    /\ stream' = [c \in Pages |->
         IF c \in cs THEN IF stream[c] = "open" THEN "cut" ELSE "connecting" ELSE stream[c]]

Break(cs) ==
    /\ Mishap
    /\ Unsubscribed(cs)
    /\ UNCHANGED <<settled, opened, browser, unheard>>

Cut(c) ==
    /\ Subscribed(c)
    /\ Break({c})
    /\ UNCHANGED saying

\* With the process go the announcements its threads had still to make.
Crash ==
    /\ Break({c \in Pages : Subscribed(c)})
    /\ saying' = [t \in Threads |-> Nothing]

\* onerror: the polling comes back until an onopen says otherwise.
Notice(c) ==
    /\ stream[c] = "cut"
    /\ stream' = [stream EXCEPT ![c] = "connecting"]
    /\ UNCHANGED <<settled, saying, opened, subscription, wire, browser, mishaps, unheard>>

-----------------------------------------------------------------------------
(* The page *)

Receive(c) ==
    /\ stream[c] = "open" /\ wire[c] # <<>>
    /\ wire' = [wire EXCEPT ![c] = Tail(@)]
    /\ IF Head(wire[c]) = RESYNC
       THEN Invalidated(c, Readable[c]) /\ UNCHANGED gathered
       ELSE gathered' = [gathered EXCEPT ![c] = @ \cup {Head(wire[c])}] /\ UNCHANGED fetch
    /\ UNCHANGED <<settled, saying, stream, opened, subscription, shown, mishaps, unheard>>

\* The 200 ms are up.
Flush(c) ==
    /\ gathered[c] # {}
    /\ gathered' = [gathered EXCEPT ![c] = {}]
    /\ Invalidated(c, gathered[c])
    /\ UNCHANGED <<settled, saying, stream, opened, subscription, wire, shown, mishaps, unheard>>

\* The interval, while the stream is not open and something is still being made.
Poll(c, r) ==
    /\ ~Live(c)
    /\ fetch[c][r] = Nothing /\ shown[c][r] < Jobs[r]
    /\ fetch' = [fetch EXCEPT ![c][r] = ASKED]
    /\ UNCHANGED <<settled, saying, stream, opened, subscription, wire, gathered, shown,
                   mishaps, unheard>>

\* The instance reads the database for a request, and its answer arrives.
Read(c, r) ==
    /\ fetch[c][r] = ASKED
    /\ fetch' = [fetch EXCEPT ![c][r] = settled[r]]
    /\ UNCHANGED <<settled, saying, stream, opened, subscription, wire, gathered, shown,
                   mishaps, unheard>>

Arrive(c, r) ==
    /\ fetch[c][r] \notin {Nothing, ASKED}
    /\ shown' = [shown EXCEPT ![c][r] = fetch[c][r]]
    /\ fetch' = [fetch EXCEPT ![c][r] = Nothing]
    /\ unheard' = IF fetch[c][r] = settled[r]
                  THEN [unheard EXCEPT ![c] = @ \ {r}] ELSE unheard
    /\ UNCHANGED <<settled, saying, stream, opened, subscription, wire, gathered, mishaps>>

-----------------------------------------------------------------------------
Worker(t) == (\E r \in Recordings : Settle(t, r)) \/ Publish(t) \/ AnnounceFails(t)

Subscription(c) == Enqueue(c) \/ Ask(c) \/ Wake(c)

Connection(c) == Accept(c) \/ Refuse(c) \/ Open(c) \/ Cut(c) \/ Notice(c)

Page(c) == \/ Receive(c) \/ Flush(c)
           \/ \E r \in Readable[c] : Poll(c, r) \/ Read(c, r) \/ Arrive(c, r)

Next ==
    \/ \E t \in Threads : Worker(t)
    \/ \E r \in Recordings : CancelTranscription(r)
    \/ \E c \in Pages : Subscription(c) \/ Connection(c) \/ Page(c)
    \/ Crash

Spec == Init /\ [][Next]_vars

\* Threads announce what they have committed, the event loop runs what is
\* queued on it, a browser reconnects and its timers fire, requests are answered.
Fairness ==
    /\ \A t \in Threads : WF_vars(Publish(t) \/ AnnounceFails(t))
    /\ \A c \in Pages :
         /\ WF_vars(Enqueue(c)) /\ WF_vars(Ask(c)) /\ WF_vars(Wake(c))
         /\ WF_vars(Accept(c) \/ Refuse(c)) /\ WF_vars(Open(c)) /\ WF_vars(Notice(c))
         /\ WF_vars(Receive(c)) /\ WF_vars(Flush(c))
         /\ \A r \in Readable[c] :
              WF_vars(Poll(c, r)) /\ WF_vars(Read(c, r)) /\ WF_vars(Arrive(c, r))

FairSpec == Spec /\ Fairness

-----------------------------------------------------------------------------
(* Properties *)

\* Every variable has the values the code can give it.
WorkerTypes ==
    /\ settled \in [Recordings -> Nat] /\ \A r \in Recordings : settled[r] <= Jobs[r]
    /\ saying \in [Threads -> Recordings \cup {Nothing}]
    /\ mishaps \in 0..MaxMishaps
StreamTypes ==
    /\ stream \in [Pages -> Streams] /\ opened \in [Pages -> BOOLEAN]
    /\ soon \in [Pages -> Seq(Recordings)] /\ queue \in [Pages -> Seq(Recordings)]
    /\ \A c \in Pages : Len(queue[c]) <= QUEUE_DEPTH
    /\ missed \in [Pages -> BOOLEAN] /\ reading \in [Pages -> {"top", "waiting"}]
    /\ wire \in [Pages -> Seq(Recordings \cup {RESYNC})]
PageTypes ==
    /\ gathered \in [Pages -> SUBSET Recordings]
    /\ fetch \in [Pages -> [Recordings -> Nat \cup {Nothing, ASKED}]]
    /\ shown \in [Pages -> [Recordings -> Nat \cup {Nothing}]]
    /\ unheard \in [Pages -> SUBSET Recordings]
TypeOK == WorkerTypes /\ StreamTypes /\ PageTypes

\* What a page shows is behind what is committed, and a first answer that was
\* read too soon is about to be.
Behind(c, r) ==
    \/ shown[c][r] # Nothing /\ shown[c][r] # settled[r]
    \/ shown[c][r] = Nothing /\ fetch[c][r] \notin {ASKED, settled[r]}

\* Something is on its way that will have the page ask again.
InQueue(s, e) == \E i \in 1..Len(s) : s[i] = e
OnItsWay(c, r) ==
    \/ \E t \in Threads : saying[t] = r
    \/ InQueue(soon[c], r) \/ InQueue(queue[c], r) \/ missed[c]
    \/ InQueue(wire[c], r) \/ InQueue(wire[c], RESYNC)
    \/ r \in gathered[c]
    \/ fetch[c][r] \in {ASKED, settled[r]}

\* A page that listens instead of asking hears of everything, whatever
\* overflowed, broke or was answered late in between: what it shows is current,
\* or the news is on its way, or nobody announced it where the page could hear.
ListensToEverything ==
    \A c \in Pages : stream[c] = "open" =>
        \A r \in Readable[c] : Behind(c, r) => OnItsWay(c, r) \/ r \in unheard[c]

\* What makes it inductive: answers come in the order they were read in, and
\* until a page has been open, or a first answer has come, whatever it is
\* behind on was unheard of.
AnswersInOrder ==
    \A c \in Pages : \A r \in Recordings :
        /\ shown[c][r] # Nothing => shown[c][r] <= settled[r]
        /\ fetch[c][r] \notin {Nothing, ASKED} => fetch[c][r] <= settled[r]
        /\ shown[c][r] # Nothing /\ fetch[c][r] \notin {Nothing, ASKED}
             => shown[c][r] <= fetch[c][r]
        /\ shown[c][r] = Nothing /\ r \in Readable[c] => fetch[c][r] # Nothing

EarlyIsUnheard ==
    \A c \in Pages : \A r \in Readable[c] :
        Behind(c, r) /\ TooEarly(c, r) => r \in unheard[c]

HeardInv == AnswersInOrder /\ EarlyIsUnheard /\ ListensToEverything

\* Once jobs have stopped settling and streams breaking, every page is current
\* and stays so, whether it listens or asks.
CatchesUp ==
    <>[](\A c \in Pages : \A r \in Readable[c] : ~Behind(c, r) \/ r \in unheard[c])

-----------------------------------------------------------------------------
(* What the documentation says, and the code does not do *)

\* A page is never one that has quietly stopped both asking and listening
\* (events.test.tsx:6): if everything is announced, it hears of everything.
NeverQuietlyBehind ==
    \A c \in Pages : stream[c] = "open" /\ mishaps = 0 =>
        \A r \in Readable[c] : Behind(c, r) => OnItsWay(c, r)
=============================================================================
