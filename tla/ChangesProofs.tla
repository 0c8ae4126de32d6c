----------------------------- MODULE ChangesProofs -----------------------------
(***************************************************************************)
(* Proofs about Changes, for any number of recordings, threads and pages,  *)
(* any depth of queue, and any number of breaks and crashes.               *)
(***************************************************************************)
EXTENDS Changes, SequenceTheorems, TLAPS

\* What is appended is in the sequence, with all that was.
LEMMA AppendIn ==
  ASSUME NEW S, NEW s \in Seq(S), NEW e \in S
  PROVE  /\ InQueue(Append(s, e), e)
         /\ \A x : InQueue(s, x) => InQueue(Append(s, e), x)
<1>1. /\ Len(s) \in Nat /\ Len(Append(s, e)) = Len(s) + 1
      /\ \A i \in 1..Len(s) : Append(s, e)[i] = s[i]
      /\ Append(s, e)[Len(s) + 1] = e
  BY AppendProperties
<1> QED
  BY <1>1 DEF InQueue

\* Taking the head leaves the rest.
LEMMA TailIn ==
  ASSUME NEW S, NEW s \in Seq(S), s # <<>>
  PROVE  /\ Head(s) \in S /\ Tail(s) \in Seq(S) /\ Len(Tail(s)) = Len(s) - 1
         /\ \A x : InQueue(s, x) => x = Head(s) \/ InQueue(Tail(s), x)
<1>1. /\ Len(s) \in Nat \ {0} /\ Tail(s) \in Seq(S) /\ Len(Tail(s)) = Len(s) - 1
      /\ \A i \in 1..Len(Tail(s)) : Tail(s)[i] = s[i + 1]
      /\ Head(s) = s[1] /\ Head(s) \in S
  BY HeadTailProperties
<1>2. ASSUME NEW x, NEW i \in 1..Len(s), s[i] = x, i # 1
      PROVE  InQueue(Tail(s), x)
  <2>1. i - 1 \in 1..Len(Tail(s)) /\ Tail(s)[i - 1] = x
    BY <1>1, <1>2
  <2> QED
    BY <2>1 DEF InQueue
<1> QED
  BY <1>1, <1>2 DEF InQueue

\* The steps there are, one action at a time.
LEMMA NextCases ==
  ASSUME Next
  PROVE  \/ \E t \in Threads, r \in Recordings : Settle(t, r)
         \/ \E t \in Threads : Publish(t) \/ AnnounceFails(t)
         \/ \E r \in Recordings : CancelTranscription(r)
         \/ \E c \in Pages : \/ Enqueue(c) \/ Ask(c) \/ Wake(c)
                            \/ Accept(c) \/ Refuse(c) \/ Open(c) \/ Cut(c) \/ Notice(c)
                            \/ Receive(c) \/ Flush(c)
         \/ \E c \in Pages, r \in Recordings : Poll(c, r) \/ Read(c, r) \/ Arrive(c, r)
         \/ Crash
BY ChangesAssumption DEF Next, Worker, Subscription, Connection, Page

\* A job that settles is one there was to settle.
LEMMA CommitsTyped ==
  ASSUME WorkerTypes, NEW r \in Recordings, Commits(r)
  PROVE  /\ settled' \in [Recordings -> Nat] /\ \A o \in Recordings : settled'[o] <= Jobs[o]
<1>1. settled \in [Recordings -> Nat] /\ Jobs \in [Recordings -> Nat]
  BY ChangesAssumption DEF WorkerTypes
<1>2. settled' = [settled EXCEPT ![r] = settled[r] + 1] /\ settled[r] < Jobs[r]
  BY DEF Commits
<1>3. settled[r] + 1 \in Nat /\ settled[r] + 1 <= Jobs[r]
  BY <1>1, <1>2
<1>4. settled' \in [Recordings -> Nat]
  BY <1>1, <1>2, <1>3
<1>5. ASSUME NEW o \in Recordings
      PROVE  settled'[o] <= Jobs[o]
  BY <1>1, <1>2, <1>3 DEF WorkerTypes
<1> QED
  BY <1>4, <1>5

\* Queries that ask again are requests like the others.
LEMMA InvalidatedTyped ==
  ASSUME PageTypes, NEW c \in Pages, NEW rs, Invalidated(c, rs)
  PROVE  fetch' \in [Pages -> [Recordings -> Nat \cup {Nothing, ASKED}]]
<1>1. [r \in Recordings |-> IF r \in rs /\ shown[c][r] # Nothing THEN ASKED ELSE fetch[c][r]]
        \in [Recordings -> Nat \cup {Nothing, ASKED}]
  BY DEF PageTypes
<1> QED
  BY <1>1 DEF PageTypes, Invalidated

\* Nothing is left of a broken stream.
LEMMA UnsubscribedTyped ==
  ASSUME StreamTypes, NEW cs, Unsubscribed(cs)
  PROVE  /\ stream' \in [Pages -> Streams]
         /\ soon' \in [Pages -> Seq(Recordings)] /\ queue' \in [Pages -> Seq(Recordings)]
         /\ \A o \in Pages : Len(queue'[o]) <= QUEUE_DEPTH
         /\ missed' \in [Pages -> BOOLEAN] /\ reading' \in [Pages -> {"top", "waiting"}]
         /\ wire' \in [Pages -> Seq(Recordings \cup {RESYNC})]
<1>1. <<>> \in Seq(Recordings) /\ <<>> \in Seq(Recordings \cup {RESYNC}) /\ Len(<<>>) = 0
  OBVIOUS
<1>2. stream' \in [Pages -> Streams]
  BY DEF StreamTypes, Unsubscribed, Streams
<1>3. soon' \in [Pages -> Seq(Recordings)]
  BY <1>1 DEF StreamTypes, Unsubscribed
<1>4. queue' \in [Pages -> Seq(Recordings)] /\ \A o \in Pages : Len(queue'[o]) <= QUEUE_DEPTH
  BY <1>1, ChangesAssumption DEF StreamTypes, Unsubscribed
<1>5. missed' \in [Pages -> BOOLEAN] /\ reading' \in [Pages -> {"top", "waiting"}]
  BY DEF StreamTypes, Unsubscribed
<1>6. wire' \in [Pages -> Seq(Recordings \cup {RESYNC})]
  BY <1>1 DEF StreamTypes, Unsubscribed
<1> QED
  BY <1>2, <1>3, <1>4, <1>5, <1>6

\* A step keeps the types of what the worker has.
LEMMA WorkerTyped ==
  ASSUME WorkerTypes, Next
  PROVE  WorkerTypes'
<1>1. ASSUME NEW t \in Threads, NEW r \in Recordings, Settle(t, r)
      PROVE  WorkerTypes'
  BY <1>1, CommitsTyped, ChangesAssumption DEF WorkerTypes, Settle, Unannounced, Mishap
<1>2. ASSUME NEW t \in Threads, Publish(t)
      PROVE  WorkerTypes'
  BY <1>2, ChangesAssumption DEF WorkerTypes, Publish, subscription, browser
<1>3. ASSUME NEW t \in Threads, AnnounceFails(t)
      PROVE  WorkerTypes'
  BY <1>3, ChangesAssumption DEF WorkerTypes, AnnounceFails, Unannounced, Mishap, subscription,
     browser
<1>4. ASSUME NEW r \in Recordings, CancelTranscription(r)
      PROVE  WorkerTypes'
  BY <1>4, CommitsTyped, ChangesAssumption DEF WorkerTypes, CancelTranscription, Unannounced,
     Mishap
<1>5. ASSUME NEW c \in Pages, Enqueue(c) \/ Ask(c) \/ Wake(c)
      PROVE  WorkerTypes'
  BY <1>5, ChangesAssumption DEF WorkerTypes, Enqueue, Ask, PassOn, Wake, subscription, browser
<1>6. ASSUME NEW c \in Pages, Accept(c) \/ Refuse(c) \/ Open(c) \/ Notice(c)
      PROVE  WorkerTypes'
  BY <1>6, ChangesAssumption DEF WorkerTypes, Accept, Refuse, Open, Invalidated, Notice,
     subscription, browser
<1>7. ASSUME NEW c \in Pages, Cut(c)
      PROVE  WorkerTypes'
  BY <1>7, ChangesAssumption DEF WorkerTypes, Cut, Break, Unsubscribed, Mishap, subscription,
     browser
<1>8. ASSUME NEW c \in Pages, Receive(c) \/ Flush(c)
      PROVE  WorkerTypes'
  BY <1>8, ChangesAssumption DEF WorkerTypes, Receive, Invalidated, Flush, subscription, browser
<1>9. ASSUME NEW c \in Pages, NEW r \in Recordings, Poll(c, r) \/ Read(c, r) \/ Arrive(c, r)
      PROVE  WorkerTypes'
  BY <1>9, ChangesAssumption DEF WorkerTypes, Poll, Read, Arrive, subscription, browser
<1>10. ASSUME Crash
      PROVE  WorkerTypes'
  BY <1>10, ChangesAssumption DEF WorkerTypes, Crash, Break, Unsubscribed, Mishap,
     subscription, browser
<1> HIDE DEF WorkerTypes
<1> QED
  BY <1>1, <1>2, <1>3, <1>4, <1>5, <1>6, <1>7, <1>8, <1>9, <1>10, NextCases

\* A step keeps the types of the streams.
LEMMA StreamTyped ==
  ASSUME WorkerTypes, StreamTypes, Next
  PROVE  StreamTypes'
<1>1. ASSUME NEW t \in Threads, NEW r \in Recordings, Settle(t, r)
      PROVE  StreamTypes'
  BY <1>1 DEF StreamTypes, Streams, Settle, Commits, subscription, browser
<1>2. ASSUME NEW t \in Threads, Publish(t)
      PROVE  StreamTypes'
  <2>1. PICK r \in Recordings : saying[t] = r
    BY <1>2 DEF Publish, WorkerTypes
  <2>2. \A c \in Pages : Append(soon[c], r) \in Seq(Recordings)
    BY DEF StreamTypes
  <2> QED
    BY <1>2, <2>1, <2>2 DEF StreamTypes, Publish
<1>3. ASSUME NEW t \in Threads, AnnounceFails(t)
      PROVE  StreamTypes'
  BY <1>3 DEF StreamTypes, Streams, AnnounceFails, Unannounced, Mishap, subscription, browser
<1>4. ASSUME NEW r \in Recordings, CancelTranscription(r)
      PROVE  StreamTypes'
  BY <1>4 DEF StreamTypes, Streams, CancelTranscription, Commits, Unannounced, Mishap,
     subscription, browser
<1>5. ASSUME NEW c \in Pages, Enqueue(c)
      PROVE  StreamTypes'
  <2>1. /\ Tail(soon[c]) \in Seq(Recordings) /\ Head(soon[c]) \in Recordings
        /\ Append(queue[c], Head(soon[c])) \in Seq(Recordings)
        /\ Len(Append(queue[c], Head(soon[c]))) = Len(queue[c]) + 1 /\ Len(queue[c]) \in Nat
    BY <1>5, TailIn, AppendProperties DEF StreamTypes, Enqueue
  <2>2. CASE Len(queue[c]) < QUEUE_DEPTH
    <3>1. /\ queue' = [queue EXCEPT ![c] = Append(queue[c], Head(soon[c]))] /\ UNCHANGED missed
          /\ soon' = [soon EXCEPT ![c] = Tail(soon[c])]
      BY <1>5, <2>2 DEF Enqueue
    <3>2. queue' \in [Pages -> Seq(Recordings)]
      BY <2>1, <3>1 DEF StreamTypes
    <3>3. \A o \in Pages : Len(queue'[o]) <= QUEUE_DEPTH
      BY <2>1, <2>2, <3>1, ChangesAssumption DEF StreamTypes
    <3> QED
      BY <1>5, <2>1, <3>1, <3>2, <3>3 DEF StreamTypes, Enqueue
  <2>3. CASE ~(Len(queue[c]) < QUEUE_DEPTH)
    BY <1>5, <2>1, <2>3 DEF StreamTypes, Enqueue
  <2> QED
    BY <2>2, <2>3
<1>6. ASSUME NEW c \in Pages, Ask(c)
      PROVE  StreamTypes'
  <2>1. ASSUME PassOn(c)
        PROVE  /\ queue' \in [Pages -> Seq(Recordings)] /\ wire' \in [Pages -> Seq(Recordings \cup {RESYNC})]
               /\ \A o \in Pages : Len(queue'[o]) <= QUEUE_DEPTH
    <3>1. /\ Tail(queue[c]) \in Seq(Recordings) /\ Head(queue[c]) \in Recordings
          /\ Len(Tail(queue[c])) = Len(queue[c]) - 1 /\ Len(queue[c]) \in Nat
      BY <2>1, TailIn DEF StreamTypes, PassOn
    <3>2. Append(wire[c], Head(queue[c])) \in Seq(Recordings \cup {RESYNC})
      BY <3>1 DEF StreamTypes
    <3> QED
      BY <2>1, <3>1, <3>2, ChangesAssumption DEF StreamTypes, PassOn
  <2>2. Append(wire[c], RESYNC) \in Seq(Recordings \cup {RESYNC})
    BY DEF StreamTypes
  <2> QED
    BY <1>6, <2>1, <2>2 DEF StreamTypes, Ask
<1>7. ASSUME NEW c \in Pages, Wake(c)
      PROVE  StreamTypes'
  <2>1. ASSUME PassOn(c)
        PROVE  /\ queue' \in [Pages -> Seq(Recordings)] /\ wire' \in [Pages -> Seq(Recordings \cup {RESYNC})]
               /\ \A o \in Pages : Len(queue'[o]) <= QUEUE_DEPTH
    <3>1. /\ Tail(queue[c]) \in Seq(Recordings) /\ Head(queue[c]) \in Recordings
          /\ Len(Tail(queue[c])) = Len(queue[c]) - 1 /\ Len(queue[c]) \in Nat
      BY <2>1, TailIn DEF StreamTypes, PassOn
    <3>2. Append(wire[c], Head(queue[c])) \in Seq(Recordings \cup {RESYNC})
      BY <3>1 DEF StreamTypes
    <3> QED
      BY <2>1, <3>1, <3>2, ChangesAssumption DEF StreamTypes, PassOn
  <2>2. Append(wire[c], RESYNC) \in Seq(Recordings \cup {RESYNC})
    BY DEF StreamTypes
  <2> QED
    BY <1>7, <2>1, <2>2 DEF StreamTypes, Wake
<1>8. ASSUME NEW c \in Pages, Accept(c) \/ Refuse(c) \/ Open(c) \/ Notice(c)
      PROVE  StreamTypes'
  BY <1>8 DEF StreamTypes, Streams, Accept, Refuse, Open, Invalidated, Notice, subscription,
     browser
<1>9. ASSUME NEW c \in Pages, Cut(c)
      PROVE  StreamTypes'
  BY <1>9, UnsubscribedTyped DEF StreamTypes, Cut, Break
<1>10. ASSUME NEW c \in Pages, Receive(c)
      PROVE  StreamTypes'
  <2>1. Tail(wire[c]) \in Seq(Recordings \cup {RESYNC})
    BY <1>10, TailIn DEF StreamTypes, Receive
  <2> QED
    BY <1>10, <2>1 DEF StreamTypes, Receive, subscription
<1>11. ASSUME NEW c \in Pages, Flush(c)
      PROVE  StreamTypes'
  BY <1>11 DEF StreamTypes, Streams, Flush, Invalidated, subscription, browser
<1>12. ASSUME NEW c \in Pages, NEW r \in Recordings, Poll(c, r) \/ Read(c, r) \/ Arrive(c, r)
      PROVE  StreamTypes'
  BY <1>12 DEF StreamTypes, Streams, Poll, Read, Arrive, subscription, browser
<1>13. ASSUME Crash
      PROVE  StreamTypes'
  BY <1>13, UnsubscribedTyped DEF StreamTypes, Crash, Break
<1> HIDE DEF StreamTypes
<1> QED
  BY <1>1, <1>2, <1>3, <1>4, <1>5, <1>6, <1>7, <1>8, <1>9, <1>10, <1>11, <1>12, <1>13, NextCases

\* A step keeps the types of what the pages have.
LEMMA PageTyped ==
  ASSUME WorkerTypes, StreamTypes, PageTypes, Next
  PROVE  PageTypes'
<1>1. ASSUME NEW t \in Threads, NEW r \in Recordings, Settle(t, r)
      PROVE  PageTypes'
  BY <1>1 DEF PageTypes, WorkerTypes, Settle, Commits, subscription, browser
<1>2. ASSUME NEW t \in Threads, Publish(t)
      PROVE  PageTypes'
  BY <1>2 DEF PageTypes, WorkerTypes, Publish, subscription, browser
<1>3. ASSUME NEW t \in Threads, AnnounceFails(t)
      PROVE  PageTypes'
  BY <1>3 DEF PageTypes, WorkerTypes, AnnounceFails, Unannounced, Mishap, subscription, browser
<1>4. ASSUME NEW r \in Recordings, CancelTranscription(r)
      PROVE  PageTypes'
  BY <1>4 DEF PageTypes, WorkerTypes, CancelTranscription, Commits, Unannounced, Mishap,
     subscription, browser
<1>5. ASSUME NEW c \in Pages, Enqueue(c) \/ Ask(c) \/ Wake(c)
      PROVE  PageTypes'
  BY <1>5 DEF PageTypes, WorkerTypes, Enqueue, Ask, PassOn, Wake, subscription, browser
<1>6. ASSUME NEW c \in Pages, Accept(c) \/ Refuse(c) \/ Notice(c)
      PROVE  PageTypes'
  BY <1>6 DEF PageTypes, WorkerTypes, Accept, Refuse, Notice, subscription, browser
<1>7. ASSUME NEW c \in Pages, Open(c)
      PROVE  PageTypes'
  BY <1>7, InvalidatedTyped DEF PageTypes, Open
<1>8. ASSUME NEW c \in Pages, Cut(c)
      PROVE  PageTypes'
  BY <1>8 DEF PageTypes, WorkerTypes, Cut, Break, Unsubscribed, Mishap, subscription, browser
<1>9. ASSUME NEW c \in Pages, Receive(c)
      PROVE  PageTypes'
  <2>1. Head(wire[c]) \in Recordings \cup {RESYNC}
    BY <1>9, TailIn DEF StreamTypes, Receive
  <2> QED
    BY <1>9, <2>1, InvalidatedTyped DEF PageTypes, Receive
<1>10. ASSUME NEW c \in Pages, Flush(c)
      PROVE  PageTypes'
  BY <1>10, InvalidatedTyped DEF PageTypes, Flush
<1>11. ASSUME NEW c \in Pages, NEW r \in Recordings, Poll(c, r)
      PROVE  PageTypes'
  BY <1>11 DEF PageTypes, WorkerTypes, Poll, subscription, browser
<1>12. ASSUME NEW c \in Pages, NEW r \in Recordings, Read(c, r)
      PROVE  PageTypes'
  BY <1>12 DEF PageTypes, WorkerTypes, Read, subscription, browser
<1>13. ASSUME NEW c \in Pages, NEW r \in Recordings, Arrive(c, r)
      PROVE  PageTypes'
  BY <1>13 DEF PageTypes, WorkerTypes, Arrive, subscription, browser
<1>14. ASSUME Crash
      PROVE  PageTypes'
  BY <1>14 DEF PageTypes, WorkerTypes, Crash, Break, Unsubscribed, Mishap, subscription, browser
<1> HIDE DEF PageTypes
<1> QED
  BY <1>1, <1>2, <1>3, <1>4, <1>5, <1>6, <1>7, <1>8, <1>9, <1>10, <1>11, <1>12, <1>13, <1>14,
     NextCases

\* Every variable keeps its type.
THEOREM TypeCorrect == Spec => []TypeOK
<1>1. Init => TypeOK
  <2> SUFFICES ASSUME Init PROVE TypeOK
    OBVIOUS
  <2>1. WorkerTypes
    BY ChangesAssumption DEF Init, WorkerTypes
  <2>2. StreamTypes
    BY ChangesAssumption DEF Init, StreamTypes, Streams
  <2>3. PageTypes
    BY DEF Init, PageTypes
  <2> QED
    BY <2>1, <2>2, <2>3 DEF TypeOK
<1>2. TypeOK /\ [Next]_vars => TypeOK'
  <2>1. TypeOK /\ Next => TypeOK'
    BY WorkerTyped, StreamTyped, PageTyped DEF TypeOK
  <2>2. TypeOK /\ UNCHANGED vars => TypeOK'
    BY DEF TypeOK, WorkerTypes, StreamTypes, PageTypes, vars, subscription, browser
  <2> QED
    BY <2>1, <2>2
<1> QED
  BY <1>1, <1>2, PTL DEF Spec

\* An answer on its way that was read too soon: its page is behind.
LEMMA LateAnswer ==
  ASSUME WorkerTypes, PageTypes, AnswersInOrder, NEW c \in Pages, NEW r \in Recordings,
         fetch[c][r] \notin {Nothing, ASKED, settled[r]}
  PROVE  Behind(c, r)
<1>a. fetch[c][r] \in Nat /\ settled[r] \in Nat
  BY DEF PageTypes, WorkerTypes
<1>b. fetch[c][r] <= settled[r]
  BY DEF AnswersInOrder
<1>1. fetch[c][r] \in Nat /\ settled[r] \in Nat /\ fetch[c][r] < settled[r]
  BY <1>a, <1>b
<1>2. CASE shown[c][r] # Nothing
  BY <1>1, <1>2 DEF AnswersInOrder, PageTypes, Behind
<1> QED
  BY <1>2 DEF Behind

\* Asking again puts nobody behind.
LEMMA AskingAgain ==
  ASSUME PageTypes, NEW c \in Pages, NEW rs, Invalidated(c, rs) \/ UNCHANGED fetch,
         UNCHANGED <<shown, settled>>, NEW o \in Pages, NEW r \in Recordings
  PROVE  /\ Behind(o, r)' => Behind(o, r)
         /\ o = c /\ r \in rs /\ shown[c][r] # Nothing /\ Invalidated(c, rs) => fetch'[c][r] = ASKED
         /\ fetch[o][r] = ASKED => fetch'[o][r] = ASKED
         /\ o # c \/ r \notin rs => fetch'[o][r] = fetch[o][r]
BY DEF PageTypes, Invalidated, Behind

\* Answers in order stay so when more settles.
LEMMA RisesInOrder ==
  ASSUME WorkerTypes, WorkerTypes', PageTypes, AnswersInOrder, UNCHANGED <<fetch, shown>>,
         \A o \in Recordings : settled[o] <= settled'[o]
  PROVE  AnswersInOrder'
BY DEF AnswersInOrder, PageTypes, WorkerTypes

\* Asking again keeps them so.
LEMMA InvalidatedInOrder ==
  ASSUME PageTypes, AnswersInOrder, NEW c \in Pages, NEW rs, Invalidated(c, rs) \/ UNCHANGED fetch,
         UNCHANGED <<shown, settled>>
  PROVE  AnswersInOrder'
<1>1. ASSUME NEW o \in Pages, NEW r \in Recordings
      PROVE  fetch'[o][r] \in {ASKED, fetch[o][r]} /\ (shown[o][r] = Nothing => fetch'[o][r] = fetch[o][r])
  BY DEF PageTypes, Invalidated
<1> QED
  BY <1>1, ChangesAssumption DEF AnswersInOrder

\* Answers go on coming in order.
LEMMA OrderKept ==
  ASSUME WorkerTypes, PageTypes, AnswersInOrder, Next
  PROVE  AnswersInOrder'
<1>1. ASSUME NEW t \in Threads, NEW r \in Recordings, Settle(t, r)
      PROVE  AnswersInOrder'
  <2>1. \A o \in Recordings : settled[o] <= settled'[o]
    BY <1>1 DEF Settle, Commits, WorkerTypes
  <2> QED
    BY <1>1, <2>1, RisesInOrder, WorkerTyped DEF Settle, browser
<1>2. ASSUME NEW r \in Recordings, CancelTranscription(r)
      PROVE  AnswersInOrder'
  <2>1. \A o \in Recordings : settled[o] <= settled'[o]
    BY <1>2 DEF CancelTranscription, Commits, WorkerTypes
  <2> QED
    BY <1>2, <2>1, RisesInOrder, WorkerTyped DEF CancelTranscription, browser
<1>3. ASSUME NEW t \in Threads, Publish(t) \/ AnnounceFails(t)
      PROVE  AnswersInOrder'
  BY <1>3, ChangesAssumption DEF AnswersInOrder, PageTypes, WorkerTypes, Publish,
     AnnounceFails, Unannounced, Mishap, subscription, browser
<1>4. ASSUME NEW c \in Pages, Enqueue(c) \/ Ask(c) \/ Wake(c) \/ Accept(c) \/ Refuse(c) \/ Cut(c) \/ Notice(c)
      PROVE  AnswersInOrder'
  BY <1>4, ChangesAssumption DEF AnswersInOrder, PageTypes, WorkerTypes, Enqueue, Ask, PassOn,
     Wake, Accept, Refuse, Cut, Break, Unsubscribed, Mishap, Notice, subscription, browser
<1>5. ASSUME NEW c \in Pages, Open(c)
      PROVE  AnswersInOrder'
  BY <1>5, InvalidatedInOrder DEF AnswersInOrder, Open
<1>6. ASSUME NEW c \in Pages, Receive(c)
      PROVE  AnswersInOrder'
  BY <1>6, InvalidatedInOrder DEF AnswersInOrder, Receive
<1>7. ASSUME NEW c \in Pages, Flush(c)
      PROVE  AnswersInOrder'
  BY <1>7, InvalidatedInOrder DEF AnswersInOrder, Flush
<1>8. ASSUME NEW c \in Pages, NEW r \in Recordings, Poll(c, r)
      PROVE  AnswersInOrder'
  BY <1>8, ChangesAssumption DEF AnswersInOrder, PageTypes, WorkerTypes, Poll, subscription,
     browser
<1>9. ASSUME NEW c \in Pages, NEW r \in Recordings, Read(c, r)
      PROVE  AnswersInOrder'
  BY <1>9, ChangesAssumption DEF AnswersInOrder, PageTypes, WorkerTypes, Read, subscription,
     browser
<1>10. ASSUME NEW c \in Pages, NEW r \in Recordings, Arrive(c, r)
      PROVE  AnswersInOrder'
  BY <1>10, ChangesAssumption DEF AnswersInOrder, PageTypes, WorkerTypes, Arrive, subscription,
     browser
<1>11. ASSUME Crash
      PROVE  AnswersInOrder'
  BY <1>11, ChangesAssumption DEF AnswersInOrder, PageTypes, WorkerTypes, Crash, Break,
     Unsubscribed, Mishap, subscription, browser
<1> HIDE DEF AnswersInOrder
<1> QED
  BY <1>1, <1>2, <1>3, <1>4, <1>5, <1>6, <1>7, <1>8, <1>9, <1>10, <1>11, NextCases

\* Asking again makes nothing unheard that was heard of.
LEMMA EarlyAsked ==
  ASSUME PageTypes, EarlyIsUnheard, UNCHANGED <<shown, settled, unheard>>,
         \A o \in Pages : opened[o] => opened'[o], NEW c \in Pages,
         UNCHANGED fetch \/ \E rs \in SUBSET Recordings : Invalidated(c, rs)
  PROVE  EarlyIsUnheard'
<1>1. ASSUME NEW o \in Pages, NEW q \in Readable[o], Behind(o, q)', TooEarly(o, q)'
      PROVE  q \in unheard'[o]
  <2>1. q \in Recordings
    BY ChangesAssumption
  <2>2. PICK rs \in SUBSET Recordings : Invalidated(c, rs) \/ UNCHANGED fetch
    OBVIOUS
  <2>3. Behind(o, q)
    BY <1>1, <2>1, <2>2, AskingAgain
  <2>4. TooEarly(o, q)
    BY <1>1 DEF TooEarly
  <2> QED
    BY <2>3, <2>4 DEF EarlyIsUnheard
<1> QED
  BY <1>1 DEF EarlyIsUnheard

\* What a page could not hear of stays unheard.
LEMMA EarlyKept ==
  ASSUME TypeOK, AnswersInOrder, EarlyIsUnheard, Next
  PROVE  EarlyIsUnheard'
<1>1. ASSUME NEW t \in Threads, NEW r \in Recordings, Settle(t, r)
      PROVE  EarlyIsUnheard'
  <2>1. \A o \in Recordings : o # r => settled'[o] = settled[o]
    BY <1>1 DEF Settle, Commits, TypeOK, WorkerTypes
  <2>2. \A c \in Pages : unheard[c] \subseteq unheard'[c]
    BY <1>1 DEF Settle, TypeOK, PageTypes
  <2>5. \A c \in Pages : r \in Readable[c] /\ (~opened[c] \/ shown[c][r] = Nothing) => r \in unheard'[c]
    BY <1>1 DEF Settle, TypeOK, PageTypes, TooEarly
  <2>3. UNCHANGED <<fetch, shown, opened>>
    BY <1>1 DEF Settle, browser
  <2>4. ASSUME NEW o \in Pages, NEW q \in Readable[o], Behind(o, q)', TooEarly(o, q)'
        PROVE  q \in unheard'[o]
    <3>1. CASE q = r
      BY <2>5, <2>3, <2>4, <3>1 DEF TooEarly
    <3>2. CASE q # r
      <4>1. settled'[q] = settled[q]
        BY <2>1, <3>2, ChangesAssumption
      <4>2. Behind(o, q) /\ TooEarly(o, q)
        BY <2>3, <2>4, <4>1 DEF Behind, TooEarly
      <4> QED
        BY <2>2, <4>2 DEF EarlyIsUnheard
    <3> QED
      BY <3>1, <3>2
  <2> QED
    BY <2>4 DEF EarlyIsUnheard
<1>2. ASSUME NEW r \in Recordings, CancelTranscription(r)
      PROVE  EarlyIsUnheard'
  <2>1. \A o \in Recordings : o # r => settled'[o] = settled[o]
    BY <1>2 DEF CancelTranscription, Commits, TypeOK, WorkerTypes
  <2>2. \A c \in Pages : unheard[c] \subseteq unheard'[c] /\ (r \in Readable[c] => r \in unheard'[c])
    BY <1>2 DEF CancelTranscription, Unannounced, TypeOK, PageTypes
  <2>3. UNCHANGED <<fetch, shown, opened>>
    BY <1>2 DEF CancelTranscription, browser
  <2>4. ASSUME NEW o \in Pages, NEW q \in Readable[o], Behind(o, q)', TooEarly(o, q)'
        PROVE  q \in unheard'[o]
    <3>1. CASE q = r
      BY <2>2, <2>3, <2>4, <3>1 DEF TooEarly
    <3>2. CASE q # r
      <4>1. settled'[q] = settled[q]
        BY <2>1, <3>2, ChangesAssumption
      <4>2. Behind(o, q) /\ TooEarly(o, q)
        BY <2>3, <2>4, <4>1 DEF Behind, TooEarly
      <4> QED
        BY <2>2, <4>2 DEF EarlyIsUnheard
    <3> QED
      BY <3>1, <3>2
  <2> QED
    BY <2>4 DEF EarlyIsUnheard
<1>3. ASSUME NEW t \in Threads, Publish(t)
      PROVE  EarlyIsUnheard'
  BY <1>3, ChangesAssumption DEF EarlyIsUnheard, TypeOK, PageTypes, WorkerTypes, StreamTypes,
     Behind, TooEarly, Publish, subscription, browser
<1>4. ASSUME NEW t \in Threads, AnnounceFails(t)
      PROVE  EarlyIsUnheard'
  BY <1>4, ChangesAssumption DEF EarlyIsUnheard, TypeOK, PageTypes, WorkerTypes, StreamTypes,
     Behind, TooEarly, AnnounceFails, Unannounced, Mishap, subscription, browser
<1>5. ASSUME NEW c \in Pages, Enqueue(c) \/ Ask(c) \/ Wake(c) \/ Accept(c) \/ Refuse(c) \/ Cut(c) \/ Notice(c)
      PROVE  EarlyIsUnheard'
  BY <1>5, ChangesAssumption DEF EarlyIsUnheard, TypeOK, PageTypes, WorkerTypes, StreamTypes,
     Behind, TooEarly, Enqueue, Ask, PassOn, Wake, Accept, Refuse, Cut, Break, Unsubscribed,
     Mishap, Notice, subscription, browser
<1>6. ASSUME NEW c \in Pages, Open(c)
      PROVE  EarlyIsUnheard'
  <2>1. UNCHANGED <<shown, settled, unheard>> 
        /\ \A o \in Pages : opened[o] => opened'[o]
    BY <1>6 DEF Open, TypeOK, StreamTypes, subscription
  <2>2. UNCHANGED fetch \/ \E rs \in SUBSET Recordings : Invalidated(c, rs)
    BY <1>6, ChangesAssumption DEF Open, TypeOK, PageTypes
  <2> QED
    BY <2>1, <2>2, EarlyAsked DEF TypeOK
<1>7. ASSUME NEW c \in Pages, Receive(c)
      PROVE  EarlyIsUnheard'
  <2>1. UNCHANGED <<shown, settled, unheard>> 
        /\ \A o \in Pages : opened[o] => opened'[o]
    BY <1>7 DEF Receive, TypeOK, StreamTypes, subscription
  <2>2. UNCHANGED fetch \/ \E rs \in SUBSET Recordings : Invalidated(c, rs)
    BY <1>7, ChangesAssumption DEF Receive, TypeOK, PageTypes
  <2> QED
    BY <2>1, <2>2, EarlyAsked DEF TypeOK
<1>8. ASSUME NEW c \in Pages, Flush(c)
      PROVE  EarlyIsUnheard'
  <2>1. UNCHANGED <<shown, settled, unheard>> 
        /\ \A o \in Pages : opened[o] => opened'[o]
    BY <1>8 DEF Flush, TypeOK, StreamTypes, subscription
  <2>2. UNCHANGED fetch \/ \E rs \in SUBSET Recordings : Invalidated(c, rs)
    BY <1>8, ChangesAssumption DEF Flush, TypeOK, PageTypes
  <2> QED
    BY <2>1, <2>2, EarlyAsked DEF TypeOK
<1>9. ASSUME NEW c \in Pages, NEW r \in Recordings, Poll(c, r)
      PROVE  EarlyIsUnheard'
  BY <1>9, ChangesAssumption DEF EarlyIsUnheard, TypeOK, PageTypes, WorkerTypes, StreamTypes,
     Behind, TooEarly, Poll, subscription, browser
<1>10. ASSUME NEW c \in Pages, NEW r \in Recordings, Read(c, r)
      PROVE  EarlyIsUnheard'
  BY <1>10, ChangesAssumption DEF EarlyIsUnheard, TypeOK, PageTypes, WorkerTypes, StreamTypes,
     Behind, TooEarly, Read, subscription, browser
<1>11. ASSUME NEW c \in Pages, NEW r \in Recordings, Arrive(c, r)
      PROVE  EarlyIsUnheard'
  <2>1. /\ \A o \in Pages, q \in Recordings : o # c \/ q # r =>
               /\ shown'[o][q] = shown[o][q] /\ fetch'[o][q] = fetch[o][q]
               /\ q \in unheard[o] => q \in unheard'[o]
        /\ shown'[c][r] = fetch[c][r] /\ fetch[c][r] \notin {Nothing, ASKED}
        /\ UNCHANGED <<settled, opened>>
    BY <1>11 DEF Arrive, TypeOK, PageTypes
  <2>2. CASE fetch[c][r] = settled[r]
    BY <2>1, <2>2, ChangesAssumption DEF EarlyIsUnheard, Behind, TooEarly
  <2>3. CASE fetch[c][r] # settled[r]
    <3>1. Behind(c, r)
      BY <2>1, <2>3, LateAnswer DEF TypeOK
    <3>2. UNCHANGED unheard
      BY <1>11, <2>3 DEF Arrive
    <3> QED
      BY <2>1, <3>1, <3>2, ChangesAssumption DEF EarlyIsUnheard, Behind, TooEarly
  <2> QED
    BY <2>2, <2>3
<1>12. ASSUME Crash
      PROVE  EarlyIsUnheard'
  BY <1>12, ChangesAssumption DEF EarlyIsUnheard, TypeOK, PageTypes, WorkerTypes, StreamTypes,
     Behind, TooEarly, Crash, Break, Unsubscribed, Mishap, subscription, browser
<1> HIDE DEF EarlyIsUnheard
<1> QED
  BY <1>1, <1>2, <1>3, <1>4, <1>5, <1>6, <1>7, <1>8, <1>9, <1>10, <1>11, <1>12, NextCases

\* Passing a change on keeps it on its way.
LEMMA PassedOn ==
  ASSUME TypeOK, NEW c \in Pages, PassOn(c), NEW q \in Readable[c],
         InQueue(queue[c], q) \/ InQueue(wire[c], q) \/ InQueue(wire[c], RESYNC)
  PROVE  InQueue(queue'[c], q) \/ InQueue(wire'[c], q) \/ InQueue(wire'[c], RESYNC)
<1> DEFINE h == Head(queue[c])
<1>1. /\ queue[c] \in Seq(Recordings) /\ queue[c] # <<>> /\ wire[c] \in Seq(Recordings \cup {RESYNC})
      /\ queue'[c] = Tail(queue[c])
      /\ wire'[c] = IF h \in Readable[c] THEN Append(wire[c], h) ELSE wire[c]
  BY DEF PassOn, TypeOK, StreamTypes
<1>2. h \in Recordings /\ \A x : InQueue(queue[c], x) => x = h \/ InQueue(queue'[c], x)
  BY <1>1, TailIn
<1>3. /\ InQueue(Append(wire[c], h), h)
      /\ \A x : InQueue(wire[c], x) => InQueue(Append(wire[c], h), x)
  BY <1>1, <1>2, AppendIn
<1> HIDE DEF h
<1> QED
  BY <1>1, <1>2, <1>3

\* Of a page that is told that its answers are stale, every query asks again,
\* or is behind on what it had no way to hear of.
LEMMA ToldIsEnough ==
  ASSUME TypeOK, EarlyIsUnheard, NEW c \in Pages, NEW rs, Invalidated(c, rs),
         UNCHANGED <<shown, settled, unheard>>,
         NEW q \in Readable[c], q \in rs, Behind(c, q)'
  PROVE  OnItsWay(c, q)' \/ q \in unheard'[c]
<1>1. q \in Recordings
  BY ChangesAssumption
<1>2. Behind(c, q) /\ (shown[c][q] # Nothing => fetch'[c][q] = ASKED)
  BY <1>1, AskingAgain DEF TypeOK
<1>3. CASE shown[c][q] = Nothing
  BY <1>2, <1>3 DEF EarlyIsUnheard, TooEarly
<1> QED
  BY <1>2, <1>3 DEF OnItsWay

\* A page that listens goes on hearing of everything.
LEMMA HearingKept ==
  ASSUME TypeOK, HeardInv, Next, NEW o \in Pages, NEW q \in Readable[o],
         stream'[o] = "open", Behind(o, q)'
  PROVE  OnItsWay(o, q)' \/ q \in unheard'[o]
<1> DEFINE Kept == OnItsWay(o, q)' \/ q \in unheard'[o]
<1>a. q \in Recordings /\ q # Nothing /\ q # RESYNC
  BY ChangesAssumption
<1>b. stream[o] = "open" /\ Behind(o, q) => OnItsWay(o, q) \/ q \in unheard[o]
  BY DEF HeardInv, ListensToEverything
<1>c. /\ soon[o] \in Seq(Recordings) /\ queue[o] \in Seq(Recordings)
      /\ wire[o] \in Seq(Recordings \cup {RESYNC})
  BY DEF TypeOK, StreamTypes
<1>d. \* what a step of another page, or of the worker, leaves to this one
  ASSUME stream'[o] = stream[o], soon'[o] = soon[o], queue'[o] = queue[o], missed'[o] = missed[o],
         wire'[o] = wire[o], gathered'[o] = gathered[o], fetch'[o][q] = fetch[o][q],
         shown'[o][q] = shown[o][q], settled'[q] = settled[q], unheard[o] \subseteq unheard'[o],
         \A t \in Threads : saying[t] = q => saying'[t] = q
  PROVE  Kept
  BY <1>b, <1>d DEF OnItsWay, Behind
<1>1. ASSUME NEW t \in Threads, NEW r \in Recordings, Settle(t, r)
      PROVE  Kept
  <2>1. CASE r = q
    <3>1. saying'[t] = q
      BY <1>1, <2>1 DEF Settle, TypeOK, WorkerTypes
    <3> QED
      BY <3>1 DEF OnItsWay
  <2>2. CASE r # q
    <3>1. settled'[q] = settled[q] /\ unheard[o] \subseteq unheard'[o]
      BY <1>1, <1>a, <2>2 DEF Settle, Commits, TypeOK, WorkerTypes, PageTypes
    <3>2. \A u \in Threads : saying[u] = q => saying'[u] = q
      BY <1>1, <1>a DEF Settle, TypeOK, WorkerTypes
    <3> QED
      BY <1>1, <1>d, <3>1, <3>2 DEF Settle, subscription, browser
  <2> QED
    BY <2>1, <2>2
<1>2. ASSUME NEW t \in Threads, Publish(t)
      PROVE  Kept
  <2>1. PICK p \in Recordings : saying[t] = p
    BY <1>2 DEF Publish, TypeOK, WorkerTypes
  <2>2. stream[o] = "open" /\ Behind(o, q) /\ soon'[o] = Append(soon[o], p)
    BY <1>2, <2>1 DEF Publish, Subscribed, Behind, browser
  <2>3. InQueue(soon'[o], p) /\ \A x : InQueue(soon[o], x) => InQueue(soon'[o], x)
    BY <1>c, <2>2, AppendIn
  <2>4. \A u \in Threads : saying[u] = q => saying'[u] = q \/ p = q
    BY <1>2, <2>1 DEF Publish, TypeOK, WorkerTypes
  <2>5. UNCHANGED <<settled, queue, missed, wire, gathered, fetch, unheard>>
    BY <1>2 DEF Publish, browser
  <2> QED
    BY <1>b, <2>2, <2>3, <2>4, <2>5 DEF OnItsWay
<1>3. ASSUME NEW t \in Threads, AnnounceFails(t)
      PROVE  Kept
  <2>1. CASE saying[t] = q
    BY <1>3, <2>1 DEF AnnounceFails, Unannounced
  <2>2. CASE saying[t] # q
    <3>1. /\ \A u \in Threads : saying[u] = q => saying'[u] = q
          /\ unheard[o] \subseteq unheard'[o]
      BY <1>3, <2>2 DEF AnnounceFails, Unannounced, TypeOK, WorkerTypes
    <3> QED
      BY <1>3, <1>d, <3>1 DEF AnnounceFails, subscription, browser
  <2> QED
    BY <2>1, <2>2
<1>4. ASSUME NEW r \in Recordings, CancelTranscription(r)
      PROVE  Kept
  <2>1. CASE r = q
    BY <1>4, <2>1 DEF CancelTranscription, Unannounced
  <2>2. CASE r # q
    <3>1. settled'[q] = settled[q] /\ unheard[o] \subseteq unheard'[o]
      BY <1>4, <1>a, <2>2 DEF CancelTranscription, Unannounced, Commits, TypeOK, WorkerTypes
    <3> QED
      BY <1>4, <1>d, <3>1 DEF CancelTranscription, subscription, browser
  <2> QED
    BY <2>1, <2>2
<1>5. ASSUME NEW c \in Pages, Enqueue(c)
      PROVE  Kept
  <2>1. CASE c = o
    <3> DEFINE h == Head(soon[o])
    <3>1. /\ soon[o] # <<>> /\ soon'[o] = Tail(soon[o])
          /\ \/ queue'[o] = Append(queue[o], h) /\ missed'[o] = missed[o]
             \/ queue'[o] = queue[o] /\ missed'[o]
      BY <1>5, <2>1 DEF Enqueue, TypeOK, StreamTypes
    <3>2. h \in Recordings /\ \A x : InQueue(soon[o], x) => x = h \/ InQueue(soon'[o], x)
      BY <1>c, <3>1, TailIn
    <3>3. /\ InQueue(Append(queue[o], h), h)
          /\ \A x : InQueue(queue[o], x) => InQueue(Append(queue[o], h), x)
      BY <1>c, <3>2, AppendIn
    <3>4. UNCHANGED <<settled, saying, stream, wire, gathered, fetch, shown, unheard>>
      BY <1>5 DEF Enqueue, browser
    <3>5. Behind(o, q)
      BY <3>4 DEF Behind
    <3> HIDE DEF h
    <3> QED
      BY <1>b, <3>1, <3>2, <3>3, <3>4, <3>5 DEF OnItsWay
  <2>2. CASE c # o
    BY <1>5, <1>d, <2>2 DEF Enqueue, TypeOK, StreamTypes, browser
  <2> QED
    BY <2>1, <2>2
<1>6. ASSUME NEW c \in Pages, Ask(c) \/ Wake(c)
      PROVE  Kept
  <2>1. CASE c = o /\ PassOn(o) /\ missed' = missed
    <3>1. UNCHANGED <<settled, saying, stream, soon, gathered, fetch, shown, unheard>>
      BY <1>6 DEF Ask, Wake, browser
    <3>2. Behind(o, q)
      BY <3>1 DEF Behind
    <3> QED
      BY <1>b, <2>1, <3>1, <3>2, PassedOn DEF OnItsWay
  <2>2. CASE c = o /\ wire' = [wire EXCEPT ![c] = Append(@, RESYNC)]
    <3>1. InQueue(wire'[o], RESYNC)
      BY <1>c, <2>2, AppendIn DEF TypeOK, StreamTypes
    <3> QED
      BY <3>1 DEF OnItsWay
  <2>3. CASE c = o /\ UNCHANGED <<queue, missed, wire>>
    BY <1>6, <1>d, <2>3 DEF Ask, Wake, browser
  <2>4. CASE c # o
    BY <1>6, <1>d, <2>4 DEF Ask, Wake, PassOn, TypeOK, StreamTypes, browser
  <2> QED
    BY <1>6, <2>1, <2>2, <2>3, <2>4 DEF Ask, Wake
<1>7. ASSUME NEW c \in Pages, Accept(c) \/ Refuse(c) \/ Notice(c)
      PROVE  Kept
  <2>1. stream'[o] = stream[o]
    BY <1>7 DEF Accept, Refuse, Notice, TypeOK, StreamTypes
  <2> QED
    BY <1>7, <1>d, <2>1 DEF Accept, Refuse, Notice, subscription, browser
<1>8. ASSUME NEW c \in Pages, Open(c)
      PROVE  Kept
  <2>1. CASE c = o /\ opened[o]
    BY <1>8, <2>1, ToldIsEnough DEF Open, HeardInv
  <2>2. CASE c = o /\ ~opened[o]
    <3>1. Behind(o, q) /\ unheard' = unheard
      BY <1>8, <2>2 DEF Open, Behind
    <3> QED
      BY <2>2, <3>1 DEF HeardInv, EarlyIsUnheard, TooEarly
  <2>3. CASE c # o
    <3>1. stream'[o] = stream[o] /\ fetch'[o][q] = fetch[o][q]
      BY <1>8, <2>3 DEF Open, Invalidated, TypeOK, StreamTypes, PageTypes
    <3> QED
      BY <1>8, <1>d, <3>1 DEF Open, subscription
  <2> QED
    BY <2>1, <2>2, <2>3
<1>9. ASSUME NEW c \in Pages, Cut(c)
      PROVE  Kept
  <2>1. c # o
    BY <1>9 DEF Cut, Break, Unsubscribed
  <2> QED
    BY <1>9, <1>d, <2>1 DEF Cut, Break, Unsubscribed, browser
<1>10. ASSUME NEW c \in Pages, Receive(c)
      PROVE  Kept
  <2>1. CASE c = o /\ Head(wire[o]) = RESYNC
    BY <1>10, <2>1, ToldIsEnough DEF Receive, HeardInv
  <2>2. CASE c = o /\ Head(wire[o]) # RESYNC
    <3> DEFINE h == Head(wire[o])
    <3>1. /\ wire[o] # <<>> /\ wire'[o] = Tail(wire[o])
          /\ gathered'[o] = gathered[o] \cup {h}
      BY <1>10, <2>2 DEF Receive, TypeOK, StreamTypes, PageTypes
    <3>2. \A x : InQueue(wire[o], x) => x = h \/ InQueue(wire'[o], x)
      BY <1>c, <3>1, TailIn
    <3>3. UNCHANGED <<settled, saying, stream, soon, queue, missed, fetch, shown, unheard>>
      BY <1>10, <2>2 DEF Receive, subscription
    <3>4. Behind(o, q)
      BY <3>3 DEF Behind
    <3>5. h # RESYNC
      BY <2>2
    <3> HIDE DEF h
    <3> QED
      BY <1>b, <3>1, <3>2, <3>3, <3>4, <3>5 DEF OnItsWay
  <2>3. CASE c # o
    <3>1. wire'[o] = wire[o] /\ gathered'[o] = gathered[o] /\ fetch'[o][q] = fetch[o][q]
      BY <1>10, <2>3 DEF Receive, Invalidated, TypeOK, StreamTypes, PageTypes
    <3> QED
      BY <1>10, <1>d, <3>1 DEF Receive, subscription
  <2> QED
    BY <2>1, <2>2, <2>3
<1>11. ASSUME NEW c \in Pages, Flush(c)
      PROVE  Kept
  <2>1. CASE c = o /\ q \in gathered[o]
    BY <1>11, <2>1, ToldIsEnough DEF Flush, HeardInv
  <2>2. CASE c = o /\ q \notin gathered[o]
    <3>1. fetch'[o][q] = fetch[o][q]
      BY <1>11, <1>a, <2>2 DEF Flush, Invalidated, TypeOK, PageTypes
    <3>2. UNCHANGED <<settled, saying, stream, soon, queue, missed, wire, shown, unheard>>
      BY <1>11 DEF Flush, subscription
    <3>3. Behind(o, q)
      BY <3>1, <3>2 DEF Behind
    <3> QED
      BY <1>b, <2>2, <3>1, <3>2, <3>3 DEF OnItsWay
  <2>3. CASE c # o
    <3>1. gathered'[o] = gathered[o] /\ fetch'[o][q] = fetch[o][q]
      BY <1>11, <2>3 DEF Flush, Invalidated, TypeOK, PageTypes
    <3> QED
      BY <1>11, <1>d, <3>1 DEF Flush, subscription
  <2> QED
    BY <2>1, <2>2, <2>3
<1>12. ASSUME NEW c \in Pages, NEW r \in Recordings, Poll(c, r) \/ Read(c, r)
      PROVE  Kept
  <2>1. CASE c = o /\ r = q
    <3>1. fetch'[o][q] \in {ASKED, settled'[q]}
      BY <1>12, <2>1 DEF Poll, Read, TypeOK, PageTypes
    <3> QED
      BY <3>1 DEF OnItsWay
  <2>2. CASE c # o \/ r # q
    <3>1. fetch'[o][q] = fetch[o][q]
      BY <1>12, <1>a, <2>2 DEF Poll, Read, TypeOK, PageTypes
    <3> QED
      BY <1>12, <1>d, <3>1 DEF Poll, Read, subscription
  <2> QED
    BY <2>1, <2>2
<1>13. ASSUME NEW c \in Pages, NEW r \in Recordings, Arrive(c, r)
      PROVE  Kept
  <2>1. CASE c = o /\ r = q
    <3>1. /\ fetch[o][q] \notin {Nothing, ASKED} /\ shown'[o][q] = fetch[o][q]
          /\ UNCHANGED <<settled, saying, stream, soon, queue, missed, wire, gathered>>
          /\ fetch[o][q] # settled[q] => UNCHANGED unheard
          /\ fetch'[o][q] = Nothing
      BY <1>13, <1>a, <2>1 DEF Arrive, subscription, TypeOK, PageTypes
    <3>2. fetch[o][q] # settled[q]
      BY <3>1 DEF Behind
    <3>3. Behind(o, q)
      BY <1>a, <3>1, <3>2, LateAnswer DEF TypeOK, HeardInv
    <3> QED
      BY <1>b, <3>1, <3>2, <3>3 DEF OnItsWay
  <2>2. CASE c # o \/ r # q
    <3>1. /\ fetch'[o][q] = fetch[o][q] /\ shown'[o][q] = shown[o][q]
          /\ q \in unheard[o] => q \in unheard'[o]
          /\ UNCHANGED <<settled, saying, stream, soon, queue, missed, wire, gathered>>
      BY <1>13, <1>a, <2>2 DEF Arrive, subscription, TypeOK, PageTypes
    <3>2. Behind(o, q)
      BY <3>1 DEF Behind
    <3> QED
      BY <1>b, <3>1, <3>2 DEF OnItsWay
  <2> QED
    BY <2>1, <2>2
<1>14. ASSUME Crash
      PROVE  Kept
  BY <1>14 DEF Crash, Break, Unsubscribed, Subscribed
<1> HIDE DEF Kept
<1>15. Kept
  BY <1>1, <1>2, <1>3, <1>4, <1>5, <1>6, <1>7, <1>8, <1>9, <1>10, <1>11, <1>12, <1>13, <1>14,
     NextCases
<1> QED
  BY <1>15 DEF Kept

\* Answers come in order, what could not be heard of is known, and a page that
\* listens hears of everything: together they are kept by every step.
THEOREM HeardInvariant == Spec => []HeardInv
<1>1. Init => HeardInv
  <2> SUFFICES ASSUME Init PROVE HeardInv
    OBVIOUS
  <2>1. AnswersInOrder
    BY ChangesAssumption DEF Init, AnswersInOrder
  <2>2. \A c \in Pages : \A r \in Readable[c] : ~Behind(c, r)
    BY ChangesAssumption DEF Init, Behind
  <2> QED
    BY <2>1, <2>2 DEF HeardInv, EarlyIsUnheard, ListensToEverything
<1>2. TypeOK /\ HeardInv /\ [Next]_vars => HeardInv'
  <2>1. ASSUME TypeOK, HeardInv, Next
        PROVE  HeardInv'
    <3>1. AnswersInOrder' /\ EarlyIsUnheard'
      BY <2>1, OrderKept, EarlyKept DEF HeardInv, TypeOK
    <3>2. ListensToEverything'
      <4>1. ASSUME NEW c \in Pages, NEW r \in Readable[c], stream'[c] = "open", Behind(c, r)'
            PROVE  OnItsWay(c, r)' \/ r \in unheard'[c]
        BY <2>1, <4>1, HearingKept
      <4> QED
        BY <4>1 DEF ListensToEverything
    <3> QED
      BY <3>1, <3>2 DEF HeardInv
  <2>2. ASSUME HeardInv, UNCHANGED vars
        PROVE  HeardInv'
    BY <2>2 DEF HeardInv, AnswersInOrder, EarlyIsUnheard, ListensToEverything, Behind, OnItsWay,
                TooEarly, InQueue, vars, subscription, browser
  <2> QED
    BY <2>1, <2>2
<1> QED
  BY <1>1, <1>2, TypeCorrect, PTL DEF Spec

\* A page that listens instead of asking hears of everything, whatever overflowed,
\* broke or was answered late (events.tsx LiveArchive, core/changes.py Subscription).
THEOREM HearsOfEverything == Spec => []ListensToEverything
<1>1. HeardInv => ListensToEverything
  BY DEF HeardInv
<1> QED
  BY <1>1, HeardInvariant, PTL

================================================================================
