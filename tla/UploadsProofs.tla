---------------------------- MODULE UploadsProofs ----------------------------
(***************************************************************************)
(* Proofs about Uploads, for any number of files, any contents, any sizes  *)
(* and any number of attempts; and, at the end, about UploadDialog (D!),   *)
(* for any files, libraries and categories and however often what is       *)
(* around the dialog changes.                                              *)
(***************************************************************************)
EXTENDS MCUploads, SequenceTheorems, FiniteSetTheorems, WellFoundedInduction, TLAPS

\* What a queue is made of, and what drain() has in hand.
Entries == [file : Files, anyway : BOOLEAN]
Hands == [step : Steps, file : Files]

\* A queue p that fits the rows st: what waits is in it, once.
Fits(p, st) ==
    /\ p \in Seq(Entries)
    /\ st \in [Files -> Statuses]
    /\ \A i, j \in 1..Len(p) : p[i].file = p[j].file => i = j
    /\ \A f \in Files : st[f] = "waiting" <=> \E i \in 1..Len(p) : p[i].file = f

\* What is being checked or sent is in hand.
InHand(st, ds) ==
    /\ \A d \in ds : st[d.file] \in
         IF d.step \in {"checking", "nothing", "here", "trashed"}
         THEN {"checking"} ELSE {"uploading", "storing"}
    /\ \A f \in Files : st[f] \in Awaited => \E d \in ds : d.file = f

\* The part of the invariant that drain() has to keep.
QueueInv ==
    /\ Fits(pending, status)
    /\ running \in BOOLEAN
    /\ drains \subseteq Hands
    /\ OneAtATime
    /\ pending # <<>> => running
    /\ InHand(status, drains)

\* The types of the rest.
RestTypes ==
    /\ held \subseteq Files
    /\ restoring \in [Files -> {"no", "offered", "asked", "done"}]
    /\ archive \in [Contents -> SUBSET {"here", "trashed"}]
    /\ late \subseteq abandoned
    /\ again \in Nat
    /\ unasked \subseteq Files /\ abandoned \subseteq Files /\ twice \subseteq Files

\* The tray's invariant, taken apart: now, and after a step.
LEMMA TrayParts ==
  /\ TrayInv <=> QueueInv /\ RestTypes /\ BytesKept
  /\ TrayInv' <=> QueueInv' /\ RestTypes' /\ BytesKept'
<1>1. TrayInv <=> QueueInv /\ RestTypes /\ BytesKept
  BY DEF TrayInv, TypeOK, NothingStranded, QueueInv, RestTypes, Fits, InHand, Entries, Hands
<1>2. TrayInv' <=> QueueInv' /\ RestTypes' /\ BytesKept'
  BY DEF TrayInv, TypeOK, NothingStranded, QueueInv, RestTypes, Fits, InHand, Entries, Hands
<1> QED
  BY <1>1, <1>2

\* With every entry's row there, drain() takes the first entry or ends.
LEMMA LoopTakes ==
  ASSUME NEW p, NEW st, NEW ds, Fits(p, st), Loop(p, st, ds)
  PROVE  \/ /\ p = <<>> /\ pending' = <<>> /\ status' = st /\ drains' = ds /\ running' = FALSE
         \/ /\ p # <<>> /\ pending' = SubSeq(p, 2, Len(p)) /\ running' = TRUE
            /\ status' = [st EXCEPT ![p[1].file] = IF p[1].anyway THEN "uploading" ELSE "checking"]
            /\ drains' = ds \cup {[step |-> IF p[1].anyway THEN "sending" ELSE "checking",
                                   file |-> p[1].file]}
<1>1. Len(p) \in Nat /\ \A i \in 1..Len(p) : p[i] \in Entries
  BY LenProperties, ElementOfSeq DEF Fits
<1>2. \A i \in 1..Len(p) : HasRow(st, p[i].file)
  <2> TAKE i \in 1..Len(p)
  <2>1. p[i].file \in Files
    BY <1>1 DEF Entries
  <2>2. st[p[i].file] = "waiting"
    BY <2>1 DEF Fits
  <2> QED
    BY <2>2 DEF HasRow, NoRow
<1>3. CASE \A i \in 1..Len(p) : ~HasRow(st, p[i].file)
  <2>1. Len(p) = 0
    BY <1>1, <1>2, <1>3
  <2>2. p = <<>>
    BY <2>1, EmptySeq DEF Fits
  <2>3. ~(\E i \in 1..Len(p) : HasRow(st, p[i].file))
    BY <1>3
  <2> QED
    BY <2>2, <2>3 DEF Loop
<1>4. CASE ~(\A i \in 1..Len(p) : ~HasRow(st, p[i].file))
  <2>1. PICK i \in 1..Len(p) :
          /\ \A k \in 1..(i - 1) : ~HasRow(st, p[k].file)
          /\ pending' = SubSeq(p, i + 1, Len(p))
          /\ status' = [st EXCEPT ![p[i].file] = IF p[i].anyway THEN "uploading" ELSE "checking"]
          /\ drains' = ds \cup {[step |-> IF p[i].anyway THEN "sending" ELSE "checking",
                                 file |-> p[i].file]}
          /\ running' = TRUE
    BY <1>4 DEF Loop
  <2>2. i = 1
    <3>1. ASSUME i # 1 PROVE FALSE
      <4>1. 1 \in 1..(i - 1) /\ 1 \in 1..Len(p)
        BY <1>1, <3>1
      <4> QED
        BY <4>1, <2>1, <1>2
    <3> QED
      BY <3>1
  <2>3. p # <<>>
    BY <1>1, <2>1
  <2> QED
    BY <2>1, <2>2, <2>3
<1> QED
  BY <1>3, <1>4

\* What is left of a queue fits what is left of the rows.
LEMMA RestFits ==
  ASSUME NEW p, NEW st, Fits(p, st), p # <<>>, NEW v \in {"checking", "uploading"}
  PROVE  /\ p[1] \in Entries /\ st[p[1].file] = "waiting"
         /\ Fits(SubSeq(p, 2, Len(p)), [st EXCEPT ![p[1].file] = v])
         /\ \A i \in 1..Len(SubSeq(p, 2, Len(p))) :
              \E j \in 1..Len(p) : SubSeq(p, 2, Len(p))[i] = p[j]
<1> DEFINE q == SubSeq(p, 2, Len(p))
           su == [st EXCEPT ![p[1].file] = v]
<1>1. Len(p) \in Nat \ {0} /\ \A i \in 1..Len(p) : p[i] \in Entries
  BY LenProperties, ElementOfSeq, EmptySeq DEF Fits
<1>2. /\ q \in Seq(Entries) /\ Len(q) = Len(p) - 1
      /\ \A i \in 1..Len(q) : i + 1 \in 1..Len(p) /\ q[i] = p[i + 1]
  <2>1. q = Tail(p)
    BY <1>1, TailIsSubSeq DEF Fits
  <2>2. p \in Seq(Entries)
    BY DEF Fits
  <2>3. /\ Tail(p) \in Seq(Entries) /\ Len(Tail(p)) = Len(p) - 1
        /\ \A i \in 1..Len(Tail(p)) : Tail(p)[i] = p[i + 1]
    BY <2>2, HeadTailProperties
  <2> HIDE DEF q
  <2> QED
    BY <2>1, <2>3, <1>1
<1>3. p[1] \in Entries /\ p[1].file \in Files /\ st[p[1].file] = "waiting" /\ 1 \in 1..Len(p)
  BY <1>1 DEF Entries, Fits
<1>4. su \in [Files -> Statuses]
  BY DEF Fits, Statuses, InFlight
<1>5. \A i, j \in 1..Len(q) : q[i].file = q[j].file => i = j
  <2> TAKE i, j \in 1..Len(q)
  <2> HAVE q[i].file = q[j].file
  <2>1. i + 1 \in 1..Len(p) /\ j + 1 \in 1..Len(p) /\ p[i + 1].file = p[j + 1].file
    BY <1>2
  <2>2. i + 1 = j + 1
    BY <2>1 DEF Fits
  <2> QED
    BY <2>2, <1>2
<1>6. ASSUME NEW f \in Files
      PROVE  su[f] = "waiting" <=> \E i \in 1..Len(q) : q[i].file = f
  <2>1. CASE f = p[1].file
    <3>1. su[f] = v
      BY <2>1, <1>3 DEF Fits
    <3>2. ASSUME NEW i \in 1..Len(q), q[i].file = f PROVE FALSE
      <4>1. i + 1 \in 1..Len(p) /\ p[i + 1].file = p[1].file
        BY <3>2, <2>1, <1>2
      <4>2. i + 1 = 1
        BY <4>1, <1>3 DEF Fits
      <4> QED
        BY <4>2, <1>2
    <3> QED
      BY <3>1, <3>2
  <2>2. CASE f # p[1].file
    <3>1. su[f] = st[f]
      BY <2>2 DEF Fits
    <3>2. ASSUME NEW j \in 1..Len(p), p[j].file = f
          PROVE  \E i \in 1..Len(q) : q[i].file = f
      <4>1. j # 1
        BY <3>2, <2>2
      <4>2. j - 1 \in 1..Len(q) /\ (j - 1) + 1 = j
        BY <4>1, <1>1, <1>2
      <4>3. q[j - 1] = p[j]
        BY <4>2, <1>2
      <4> QED
        BY <4>2, <4>3, <3>2
    <3>3. ASSUME NEW i \in 1..Len(q), q[i].file = f
          PROVE  \E j \in 1..Len(p) : p[j].file = f
      BY <3>3, <1>2
    <3> QED
      BY <3>1, <3>2, <3>3 DEF Fits
  <2> QED
    BY <2>1, <2>2
<1>7. Fits(q, su)
  BY <1>2, <1>4, <1>5, <1>6 DEF Fits
<1>8. \A i \in 1..Len(q) : \E j \in 1..Len(p) : q[i] = p[j]
  BY <1>2
<1> QED
  BY <1>3, <1>7, <1>8

\* A queue p whose waved-through entries are all in u.
Waved(p, u) == \A i \in 1..Len(p) : p[i].anyway => p[i].file \in u

\* The next file is taken up, or the queue is empty and drain() ends: either way
\* nothing is stranded, no row offers anything else, and what is sent unchecked
\* was waved through.
LEMMA LoopKept ==
  ASSUME NEW p, NEW st, NEW u, Fits(p, st), Waved(p, u), Loop(p, st, {}),
         \A f \in Files : st[f] \notin Awaited
  PROVE  /\ QueueInv' /\ Waved(pending', u)
         /\ \A d \in drains' : d.step # "nothing" /\ (d.step = "sending" => d.file \in u)
         /\ \A f \in Files : status'[f] = st[f] \/ {status'[f], st[f]} \subseteq InFlight
<1>1. CASE /\ p = <<>> /\ pending' = <<>> /\ status' = st /\ drains' = {} /\ running' = FALSE
  <2>1. OneAtATime' /\ InHand(status, drains)' /\ Fits(pending, status)'
    BY <1>1 DEF OneAtATime, InHand
  <2>2. QueueInv'
    BY <1>1, <2>1 DEF QueueInv
  <2> QED
    BY <1>1, <2>2
<1>2. CASE /\ p # <<>> /\ pending' = SubSeq(p, 2, Len(p)) /\ running' = TRUE
           /\ status' = [st EXCEPT ![p[1].file] = IF p[1].anyway THEN "uploading" ELSE "checking"]
           /\ drains' = {} \cup {[step |-> IF p[1].anyway THEN "sending" ELSE "checking",
                                  file |-> p[1].file]}
  <2> DEFINE v == IF p[1].anyway THEN "uploading" ELSE "checking"
             s == IF p[1].anyway THEN "sending" ELSE "checking"
             d == [step |-> s, file |-> p[1].file]
  <2>1. v \in {"checking", "uploading"} /\ s \in {"sending", "checking"}
    OBVIOUS
  <2>2. /\ p[1] \in Entries /\ st[p[1].file] = "waiting" /\ Fits(pending, status)'
        /\ \A i \in 1..Len(pending') : \E j \in 1..Len(p) : pending'[i] = p[j]
    BY <1>2, <2>1, RestFits
  <2>3. p[1].file \in Files /\ st \in [Files -> Statuses]
    BY <2>2 DEF Entries, Fits
  <2>4. drains' = {d} /\ d \in Hands /\ d.step = s /\ d.file = p[1].file
    BY <1>2, <2>1, <2>3 DEF Hands, Steps
  <2>5. OneAtATime'
    BY <1>2, <2>4 DEF OneAtATime
  <2>6. status'[p[1].file] = v /\ \A f \in Files : f # p[1].file => status'[f] = st[f]
    BY <1>2, <2>3
  <2>7. status'[d.file] \in
          IF d.step \in {"checking", "nothing", "here", "trashed"}
          THEN {"checking"} ELSE {"uploading", "storing"}
    BY <2>4, <2>6
  <2>8. InHand(status, drains)'
    <3>1. \A f \in Files : status'[f] \in Awaited => f = d.file
      BY <2>4, <2>6
    <3> HIDE DEF d
    <3> QED
      BY <2>4, <2>7, <3>1 DEF InHand
  <2>9. QueueInv'
    BY <1>2, <2>2, <2>4, <2>5, <2>8 DEF QueueInv
  <2>10. Waved(pending', u)
    BY <2>2 DEF Waved
  <2>11. p[1].anyway => p[1].file \in u
    <3>1. 1 \in 1..Len(p)
      BY <1>2, LenProperties, EmptySeq DEF Fits
    <3> QED
      BY <3>1 DEF Waved
  <2>12. d.step # "nothing" /\ (d.step = "sending" => d.file \in u)
    BY <2>4, <2>11
  <2>13. \A e \in drains' : e.step # "nothing" /\ (e.step = "sending" => e.file \in u)
    <3> HIDE DEF d
    <3> QED
      BY <2>4, <2>12
  <2>14. \A f \in Files : status'[f] = st[f] \/ {status'[f], st[f]} \subseteq InFlight
    BY <2>1, <2>2, <2>6 DEF InFlight
  <2> QED
    BY <2>9, <2>10, <2>13, <2>14
<1> QED
  BY <1>1, <1>2, LoopTakes

\* What somebody adds or waves through is taken up now or when drain() comes to
\* it.
LEMMA DrainKept ==
  ASSUME QueueInv, NEW p, NEW st, NEW u, Fits(p, st), Waved(p, u), Drain(p, st),
         \A f \in Files : st[f] = status[f] \/ (st[f] \notin Awaited /\ status[f] \notin Awaited)
  PROVE  /\ QueueInv' /\ Waved(pending', u)
         /\ \A d \in drains' : \/ d \in drains
                               \/ d.step # "nothing" /\ (d.step = "sending" => d.file \in u)
         /\ \A f \in Files : status'[f] = st[f] \/ {status'[f], st[f]} \subseteq InFlight
<1>1. CASE running
  <2>1. pending' = p /\ status' = st /\ running' = running /\ drains' = drains
    BY <1>1 DEF Drain
  <2>2. InHand(status, drains)'
    <3>1. \A d \in drains : d.file \in Files
      BY DEF QueueInv, Hands
    <3>2. \A d \in drains : status[d.file] \in Awaited
      BY DEF QueueInv, InHand, Awaited
    <3>3. \A d \in drains : st[d.file] = status[d.file]
      BY <3>1, <3>2
    <3>4. \A f \in Files : st[f] \in Awaited => status[f] \in Awaited
      OBVIOUS
    <3> QED
      BY <2>1, <3>3, <3>4 DEF QueueInv, InHand
  <2> QED
    BY <1>1, <2>1, <2>2 DEF QueueInv, OneAtATime
<1>2. CASE ~running
  <2>1. drains = {}
    BY <1>2 DEF QueueInv, OneAtATime
  <2>2. \A f \in Files : status[f] \notin Awaited
    BY <2>1 DEF QueueInv, InHand
  <2>3. Loop(p, st, {}) /\ \A f \in Files : st[f] \notin Awaited
    BY <1>2, <2>1, <2>2 DEF Drain
  <2> QED
    BY <2>3, LoopKept
<1> QED
  BY <1>1, <1>2

-----------------------------------------------------------------------------
(* From one await to the next *)

\* There is one run of drain(): what goes on is all there is in hand.
LEMMA GoesOnKept ==
  ASSUME QueueInv, NEW d \in drains, NEW s \in Steps, GoesOn(d, s), UNCHANGED <<pending, running>>,
         \/ UNCHANGED status
         \/ status' = [status EXCEPT ![d.file] = "uploading"]
         \/ status' = [status EXCEPT ![d.file] = "storing"],
         status'[d.file] \in IF s \in {"checking", "nothing", "here", "trashed"}
                             THEN {"checking"} ELSE {"uploading", "storing"}
  PROVE  /\ QueueInv' /\ drains' = {[step |-> s, file |-> d.file]}
         /\ \A f \in Files : status'[f] = status[f] \/ {status'[f], status[f]} \subseteq InFlight
<1> DEFINE e == [step |-> s, file |-> d.file]
<1>1. d \in Hands /\ d.file \in Files /\ drains = {d} /\ running
  BY DEF QueueInv, OneAtATime, Hands
<1>2. drains' = {e} /\ e \in Hands /\ e.file = d.file /\ e.step = s
  BY <1>1 DEF GoesOn, Hands
<1>3. status[d.file] \in Awaited /\ status'[d.file] \in Awaited
  BY DEF QueueInv, InHand, Awaited
<1>4. \A f \in Files : f # d.file => status'[f] = status[f]
  BY DEF QueueInv, Fits
<1>5. Fits(pending, status)'
  <2>1. status' \in [Files -> Statuses]
    BY <1>1 DEF QueueInv, Fits, Statuses, InFlight
  <2>2. \A f \in Files : status'[f] = "waiting" <=> status[f] = "waiting"
    BY <1>3, <1>4 DEF Awaited
  <2> QED
    BY <2>1, <2>2 DEF QueueInv, Fits
<1>6. InHand(status, drains)'
  <2>1. \A f \in Files : status'[f] \in Awaited => f = d.file
    BY <1>1, <1>4 DEF QueueInv, InHand
  <2> HIDE DEF e
  <2> QED
    BY <1>2, <2>1 DEF InHand
<1>7. OneAtATime'
  BY <1>1, <1>2 DEF OneAtATime
<1>8. QueueInv'
  BY <1>1, <1>2, <1>5, <1>6, <1>7 DEF QueueInv
<1>9. \A f \in Files : status'[f] = status[f] \/ {status'[f], status[f]} \subseteq InFlight
  BY <1>3, <1>4 DEF Awaited, InFlight
<1> QED
  BY <1>2, <1>8, <1>9

\* A file is dealt with, and the queue goes on.
LEMMA EndsKept ==
  ASSUME QueueInv, Waved(pending, unasked),
         NEW d \in drains, NEW v \in Statuses \ InFlight, Ends(d, v)
  PROVE  /\ QueueInv' /\ Waved(pending', unasked)
         /\ \A e \in drains' : e.step # "nothing" /\ (e.step = "sending" => e.file \in unasked)
         /\ \A f \in Files :
              LET was == IF f = d.file THEN v ELSE status[f]
              IN  status'[f] = was \/ {status'[f], was} \subseteq InFlight
<1> DEFINE st == [status EXCEPT ![d.file] = v]
<1>1. d.file \in Files /\ drains = {d} /\ running /\ status[d.file] \in Awaited
  BY DEF QueueInv, OneAtATime, Hands, InHand, Awaited
<1>2. Loop(pending, st, {})
  <2>1. drains \ {d} = {}
    BY <1>1
  <2> QED
    BY <2>1 DEF Ends
<1>3. /\ st \in [Files -> Statuses] /\ st[d.file] = v
      /\ \A f \in Files : f # d.file => st[f] = status[f]
  BY <1>1 DEF QueueInv, Fits
<1>4. \A f \in Files : st[f] = "waiting" <=> status[f] = "waiting"
  BY <1>1, <1>3 DEF InFlight, Awaited
<1>5. Fits(pending, st)
  <2> HIDE DEF st
  <2> QED
    BY <1>3, <1>4 DEF QueueInv, Fits
<1>6. \A f \in Files : st[f] \notin Awaited
  <2>1. \A f \in Files : status[f] \in Awaited => f = d.file
    BY <1>1 DEF QueueInv, InHand
  <2>2. v \notin Awaited
    BY DEF InFlight, Awaited
  <2> QED
    BY <1>3, <2>1, <2>2
<1>7. \A f \in Files : st[f] = IF f = d.file THEN v ELSE status[f]
  BY <1>3
<1> HIDE DEF st
<1> QED
  BY <1>2, <1>5, <1>6, <1>7, LoopKept
-----------------------------------------------------------------------------
(* The invariant *)

\* What is about to be sent was not there when it was asked for, and is not now.
HandsSound ==
    \A d \in drains :
      d.step \in {"nothing", "sending"} => archive[ContentOf[d.file]] = {} \/ Excused(d.file)

\* The whole invariant, taken apart.
LEMMA InvParts ==
  /\ UploadsInv <=> /\ QueueInv /\ RestTypes /\ BytesKept
                    /\ TwiceForACause /\ Waved(pending, unasked) /\ HandsSound
  /\ UploadsInv' <=> /\ QueueInv' /\ RestTypes' /\ BytesKept'
                     /\ TwiceForACause' /\ Waved(pending, unasked)' /\ HandsSound'
<1>1. StillNothing <=> Waved(pending, unasked) /\ HandsSound
  BY DEF StillNothing, Waved, HandsSound
<1>2. StillNothing' <=> Waved(pending, unasked)' /\ HandsSound'
  BY DEF StillNothing, Waved, HandsSound
<1> QED
  BY <1>1, <1>2, TrayParts DEF UploadsInv

\* An excuse stays one, and nothing is stored without being counted.
LEMMA ExcusesStay ==
  ASSUME unasked \subseteq unasked', abandoned \subseteq abandoned'
  PROVE  /\ \A f : Excused(f) => Excused(f)'
         /\ TwiceForACause /\ twice' = twice => TwiceForACause'
BY DEF Excused, TwiceForACause

\* What the row offers follows what is kept, whatever is in flight.
LEMMA BytesFollow ==
  ASSUME NEW st, \A f \in Files : f \in held' <=> st[f] \in {"duplicate", "failed"},
         \A f \in Files : status'[f] = st[f] \/ {status'[f], st[f]} \subseteq InFlight
  PROVE  BytesKept'
BY DEF BytesKept, InFlight

\* Whatever drain() does, it keeps the invariant.
LEMMA DrivesKept ==
  ASSUME UploadsInv, NEW d \in drains, Drives(d)
  PROVE  UploadsInv'
<1>1. /\ QueueInv /\ RestTypes /\ BytesKept /\ TwiceForACause /\ HandsSound
      /\ Waved(pending, unasked)
  BY InvParts
<1>2. /\ d \in Hands /\ d.file \in Files /\ drains = {d}
      /\ status[d.file] \in IF d.step \in {"checking", "nothing", "here", "trashed"}
                            THEN {"checking"} ELSE {"uploading", "storing"}
      /\ status \in [Files -> Statuses]
  BY <1>1 DEF QueueInv, OneAtATime, Hands, InHand, Fits
<1>3. ASSUME NEW s \in Steps, GoesOn(d, s), UNCHANGED <<status, pending, held, running, restoring>>,
             s \in {"checking", "nothing", "here", "trashed"} <=>
               d.step \in {"checking", "nothing", "here", "trashed"}
      PROVE  QueueInv' /\ BytesKept' /\ drains' = {[step |-> s, file |-> d.file]}
  <2>1. QueueInv' /\ drains' = {[step |-> s, file |-> d.file]}
    BY <1>1, <1>2, <1>3, GoesOnKept
  <2>2. BytesKept'
    BY <1>1, <1>3 DEF BytesKept
  <2> QED
    BY <2>1, <2>2
<1>4. ASSUME NEW v \in {"duplicate", "failed"}, Ends(d, v), held' = held \cup {d.file}
      PROVE  BytesKept'
  <2> DEFINE st == [f \in Files |-> IF f = d.file THEN v ELSE status[f]]
  <2>1. \A f \in Files : f \in held' <=> st[f] \in {"duplicate", "failed"}
    BY <1>1, <1>4 DEF BytesKept
  <2>2. v \in Statuses \ InFlight
    BY DEF Statuses, InFlight
  <2>3. \A f \in Files : status'[f] = st[f] \/ {status'[f], st[f]} \subseteq InFlight
    BY <1>1, <1>4, <2>2, EndsKept
  <2> HIDE DEF st
  <2> QED
    BY <2>1, <2>3, BytesFollow
<1>5. CASE Looks(d)
  <2>1. PICK s \in {"nothing", "here", "trashed"} :
           GoesOn(d, s) /\ (s = "nothing" => archive[ContentOf[d.file]] = {})
    <3>1. archive[ContentOf[d.file]] \subseteq {"here", "trashed"}
      BY <1>1, <1>2, UploadsAssumption DEF RestTypes
    <3> QED
      BY <1>5, <3>1 DEF Looks
  <2>2. UNCHANGED <<status, pending, held, running, restoring, archive, late, again, unasked,
                    abandoned, twice>> /\ d.step = "checking" /\ s \in Steps
    BY <1>5 DEF Looks, history, Steps
  <2>3. QueueInv' /\ BytesKept' /\ drains' = {[step |-> s, file |-> d.file]}
    BY <1>3, <2>1, <2>2
  <2>4. RestTypes' /\ TwiceForACause' /\ Waved(pending, unasked)'
    BY <1>1, <2>2, ExcusesStay DEF RestTypes, Waved
  <2>5. HandsSound'
    BY <2>1, <2>2, <2>3 DEF HandsSound
  <2> QED
    BY <2>3, <2>4, <2>5, InvParts
<1>6. CASE Warns(d)
  <2>1. /\ Ends(d, "duplicate") /\ held' = held \cup {d.file}
        /\ UNCHANGED <<archive, late, again, unasked, abandoned, twice>>
        /\ restoring' = [restoring EXCEPT ![d.file] =
                           IF d.step = "trashed" THEN "offered" ELSE "no"]
    BY <1>6 DEF Warns, history
  <2>2. /\ QueueInv' /\ Waved(pending', unasked)
        /\ \A e \in drains' : e.step # "nothing" /\ (e.step = "sending" => e.file \in unasked)
    <3>1. "duplicate" \in Statuses \ InFlight
      BY DEF Statuses, InFlight
    <3> QED
      BY <1>1, <2>1, <3>1, EndsKept
  <2>3. RestTypes' /\ TwiceForACause'
    BY <1>1, <1>2, <2>1, ExcusesStay DEF RestTypes
  <2>4. HandsSound' /\ Waved(pending, unasked)'
    BY <2>1, <2>2 DEF HandsSound, Excused, Waved
  <2> QED
    BY <1>4, <2>1, <2>2, <2>3, <2>4, InvParts
<1>7. ASSUME StartsSending(d), d.step \in {"checking", "nothing", "here", "trashed"},
             unasked' = unasked \/ unasked' = unasked \cup {d.file},
             UNCHANGED <<again, abandoned, twice>>,
             d.step = "nothing" \/ d.file \in unasked'
      PROVE  UploadsInv'
  <2>1. /\ GoesOn(d, "sending") /\ status' = [status EXCEPT ![d.file] = "uploading"]
        /\ UNCHANGED <<pending, held, running, restoring, archive, late>>
    BY <1>7 DEF StartsSending
  <2>2. /\ "sending" \in Steps
        /\ status'[d.file] \in IF "sending" \in {"checking", "nothing", "here", "trashed"}
                               THEN {"checking"} ELSE {"uploading", "storing"}
    BY <1>2, <2>1 DEF Steps
  <2>3. /\ QueueInv' /\ drains' = {[step |-> "sending", file |-> d.file]}
        /\ \A f \in Files : status'[f] = status[f] \/ {status'[f], status[f]} \subseteq InFlight
    BY <1>1, <2>1, <2>2, GoesOnKept
  <2>4. BytesKept'
    BY <1>1, <2>1, <2>3, BytesFollow DEF BytesKept
  <2>5. RestTypes' /\ TwiceForACause' /\ Waved(pending, unasked)'
    BY <1>1, <1>2, <1>7, <2>1, ExcusesStay DEF RestTypes, Waved
  <2>6. HandsSound'
    <3>1. archive[ContentOf[d.file]] = {} \/ Excused(d.file)'
      BY <1>1, <1>7, ExcusesStay DEF HandsSound, Excused
    <3> QED
      BY <2>1, <2>3, <3>1 DEF HandsSound
  <2> QED
    BY <2>3, <2>4, <2>5, <2>6, InvParts
<1>8. CASE FindsNothing(d)
  BY <1>7, <1>8 DEF FindsNothing, history
<1>9. CASE CheckFails(d)
  BY <1>7, <1>9 DEF CheckFails
<1>10. CASE Progress(d)
  <2>1. /\ status' = [status EXCEPT ![d.file] = "storing"] /\ status[d.file] = "uploading"
        /\ d.step \in {"sending", "stored"} /\ UNCHANGED drains
        /\ UNCHANGED <<pending, held, running, restoring, archive, late, again, unasked,
                       abandoned, twice>>
    BY <1>10 DEF Progress, history
  <2>2. GoesOn(d, d.step) /\ d.step \in Steps
    <3>1. [d EXCEPT !.step = d.step] = d
      BY <1>2 DEF Hands
    <3> QED
      BY <1>2, <2>1, <3>1 DEF GoesOn, Hands
  <2>3. status'[d.file] \in IF d.step \in {"checking", "nothing", "here", "trashed"}
                            THEN {"checking"} ELSE {"uploading", "storing"}
    BY <1>2, <2>1
  <2>4. /\ QueueInv'
        /\ \A f \in Files : status'[f] = status[f] \/ {status'[f], status[f]} \subseteq InFlight
    BY <1>1, <2>1, <2>2, <2>3, GoesOnKept
  <2>5. BytesKept'
    BY <1>1, <2>1, <2>4, BytesFollow DEF BytesKept
  <2>6. RestTypes' /\ TwiceForACause' /\ Waved(pending, unasked)' /\ HandsSound'
    BY <1>1, <2>1, ExcusesStay DEF RestTypes, Waved, HandsSound
  <2> QED
    BY <2>4, <2>5, <2>6, InvParts
<1>11. CASE Stores(d)
  <2>1. /\ d.step = "sending" /\ GoesOn(d, "stored") /\ "stored" \in Steps
        /\ archive' = [archive EXCEPT ![ContentOf[d.file]] = @ \cup {"here"}]
        /\ twice' = IF archive[ContentOf[d.file]] = {} THEN twice ELSE twice \cup {d.file}
        /\ UNCHANGED <<status, pending, held, running, restoring, again, unasked, abandoned, late>>
    BY <1>11 DEF Stores, Stored, Steps
  <2>2. QueueInv' /\ BytesKept' /\ drains' = {[step |-> "stored", file |-> d.file]}
    BY <1>3, <2>1
  <2>3. RestTypes'
    BY <1>1, <1>2, <2>1, UploadsAssumption DEF RestTypes
  <2>4. TwiceForACause'
    <3>1. archive[ContentOf[d.file]] = {} \/ Excused(d.file)
      BY <1>1, <2>1 DEF HandsSound
    <3>2. \A f \in twice' : Excused(f)
      BY <1>1, <2>1, <3>1 DEF TwiceForACause
    <3> QED
      BY <2>1, <3>2 DEF TwiceForACause, Excused
  <2>5. Waved(pending, unasked)' /\ HandsSound'
    BY <1>1, <2>1, <2>2 DEF Waved, HandsSound
  <2> QED
    BY <2>2, <2>3, <2>4, <2>5, InvParts
<1>12. CASE Fails(d)
  <2>1. /\ Ends(d, "failed") /\ held' = held \cup {d.file}
        /\ UNCHANGED <<restoring, archive, again, unasked, twice>>
        /\ \/ UNCHANGED <<late, abandoned>>
           \/ late' = late \cup {d.file} /\ abandoned' = abandoned \cup {d.file}
    BY <1>12 DEF Fails
  <2>2. /\ QueueInv' /\ Waved(pending', unasked)
        /\ \A e \in drains' : e.step # "nothing" /\ (e.step = "sending" => e.file \in unasked)
    <3>1. "failed" \in Statuses \ InFlight
      BY DEF Statuses, InFlight
    <3> QED
      BY <1>1, <2>1, <3>1, EndsKept
  <2>3. RestTypes' /\ TwiceForACause'
    BY <1>1, <1>2, <2>1, ExcusesStay DEF RestTypes
  <2>4. HandsSound' /\ Waved(pending, unasked)'
    BY <2>1, <2>2 DEF HandsSound, Excused, Waved
  <2> QED
    BY <1>4, <2>1, <2>2, <2>3, <2>4, InvParts
<1>13. CASE Unreadable(d) \/ Answered(d)
  <2>1. PICK s \in {"lost", "filing"} : GoesOn(d, s)
    BY <1>13 DEF Unreadable, Answered
  <2>2. UNCHANGED <<status, pending, held, running, restoring, archive, late, again, unasked,
                    abandoned, twice>> /\ d.step \in {"sending", "stored"} /\ s \in Steps
    BY <1>13 DEF Unreadable, Answered, history, Steps
  <2>3. QueueInv' /\ BytesKept' /\ drains' = {[step |-> s, file |-> d.file]}
    BY <1>3, <2>1, <2>2
  <2>4. RestTypes' /\ TwiceForACause' /\ Waved(pending, unasked)' /\ HandsSound'
    BY <1>1, <2>2, <2>3, ExcusesStay DEF RestTypes, Waved, HandsSound
  <2> QED
    BY <2>3, <2>4, InvParts
<1>14. CASE Filed(d)
  <2>1. /\ Ends(d, "done") /\ d.step = "filing"
        /\ UNCHANGED <<held, restoring, archive, late, again, unasked, abandoned, twice>>
    BY <1>14 DEF Filed, history
  <2> DEFINE st == [f \in Files |-> IF f = d.file THEN "done" ELSE status[f]]
  <2>2. /\ QueueInv' /\ Waved(pending', unasked)
        /\ \A e \in drains' : e.step # "nothing" /\ (e.step = "sending" => e.file \in unasked)
        /\ \A f \in Files : status'[f] = st[f] \/ {status'[f], st[f]} \subseteq InFlight
    <3>1. "done" \in Statuses \ InFlight
      BY DEF Statuses, InFlight
    <3> QED
      BY <1>1, <2>1, <3>1, EndsKept
  <2>3. BytesKept'
    <3>1. status[d.file] \notin {"duplicate", "failed"}
      BY <1>2, <2>1
    <3>2. \A f \in Files : f \in held' <=> st[f] \in {"duplicate", "failed"}
      BY <1>1, <2>1, <3>1 DEF BytesKept
    <3> HIDE DEF st
    <3> QED
      BY <2>2, <3>2, BytesFollow
  <2>4. RestTypes' /\ TwiceForACause'
    BY <1>1, <2>1, ExcusesStay DEF RestTypes
  <2>5. HandsSound' /\ Waved(pending, unasked)'
    BY <2>1, <2>2 DEF HandsSound, Excused, Waved
  <2> QED
    BY <2>2, <2>3, <2>4, <2>5, InvParts
<1> QED
  BY <1>5, <1>6, <1>8, <1>9, <1>10, <1>11, <1>12, <1>13, <1>14 DEF Drives
\* A file that joins a queue it is not in, its row waiting.
LEMMA Joins ==
  ASSUME QueueInv, NEW f \in Files, status[f] # "waiting", NEW w \in BOOLEAN, NEW u,
         Waved(pending, unasked), unasked \subseteq u, w => f \in u
  PROVE  /\ Fits(Append(pending, Entry(f, w)), [status EXCEPT ![f] = "waiting"])
         /\ Waved(Append(pending, Entry(f, w)), u)
<1> DEFINE p == Append(pending, Entry(f, w))
           st == [status EXCEPT ![f] = "waiting"]
<1>1. Entry(f, w) \in Entries /\ Entry(f, w).file = f /\ Entry(f, w).anyway = w
  BY DEF Entry, Entries
<1>2. /\ p \in Seq(Entries) /\ Len(pending) \in Nat /\ Len(p) = Len(pending) + 1
      /\ \A i \in 1..Len(pending) : p[i] = pending[i]
      /\ p[Len(pending) + 1] = Entry(f, w)
  BY <1>1, AppendProperties, LenProperties DEF QueueInv, Fits
<1>3. /\ st \in [Files -> Statuses] /\ st[f] = "waiting"
      /\ \A g \in Files : g # f => st[g] = status[g]
  BY DEF QueueInv, Fits, Statuses, InFlight
<1>4. \A i \in 1..Len(pending) : pending[i].file # f
  BY DEF QueueInv, Fits
<1> HIDE DEF p, st
<1>5. \A i, j \in 1..Len(p) : p[i].file = p[j].file => i = j
  <2> TAKE i, j \in 1..Len(p)
  <2> HAVE p[i].file = p[j].file
  <2>1. CASE i \in 1..Len(pending) /\ j \in 1..Len(pending)
    BY <2>1, <1>2 DEF QueueInv, Fits
  <2>2. CASE i = Len(pending) + 1 /\ j \in 1..Len(pending)
    BY <2>2, <1>1, <1>2, <1>4
  <2>3. CASE j = Len(pending) + 1 /\ i \in 1..Len(pending)
    BY <2>3, <1>1, <1>2, <1>4
  <2>4. CASE i = Len(pending) + 1 /\ j = Len(pending) + 1
    BY <2>4
  <2> QED
    BY <2>1, <2>2, <2>3, <2>4, <1>2
<1>6. ASSUME NEW g \in Files
      PROVE  st[g] = "waiting" <=> \E i \in 1..Len(p) : p[i].file = g
  <2>1. CASE g = f
    BY <2>1, <1>1, <1>2, <1>3
  <2>2. CASE g # f
    <3>1. ASSUME NEW i \in 1..Len(p), p[i].file = g
          PROVE  \E k \in 1..Len(pending) : pending[k].file = g
      <4>1. i \in 1..Len(pending) \/ i = Len(pending) + 1
        BY <1>2
      <4> QED
        BY <4>1, <3>1, <2>2, <1>1, <1>2
    <3>2. ASSUME NEW k \in 1..Len(pending), pending[k].file = g
          PROVE  \E i \in 1..Len(p) : p[i].file = g
      BY <3>2, <1>2
    <3>3. status[g] = "waiting" <=> \E k \in 1..Len(pending) : pending[k].file = g
      BY DEF QueueInv, Fits
    <3> QED
      BY <3>1, <3>2, <3>3, <2>2, <1>3
  <2> QED
    BY <2>1, <2>2
<1>7. Waved(p, u)
  <2> SUFFICES ASSUME NEW i \in 1..Len(p), p[i].anyway PROVE p[i].file \in u
    BY DEF Waved
  <2>1. CASE i \in 1..Len(pending)
    BY <2>1, <1>2 DEF Waved
  <2>2. CASE i = Len(pending) + 1
    BY <2>2, <1>1, <1>2
  <2> QED
    BY <2>1, <2>2, <1>2
<1> QED
  BY <1>2, <1>3, <1>5, <1>6, <1>7 DEF Fits, p, st

\* What drain() has in hand after somebody queued something is as it was, or was
\* waved through, or is being checked.
LEMMA SoundAfter ==
  ASSUME HandsSound, archive' = archive, unasked \subseteq unasked', abandoned' = abandoned,
         \A d \in drains' : \/ d \in drains
                            \/ d.step # "nothing" /\ (d.step = "sending" => d.file \in unasked')
  PROVE  HandsSound'
<1>1. \A f : Excused(f) => Excused(f)'
  BY ExcusesStay
<1> QED
  BY <1>1 DEF HandsSound, Excused

\* Whatever somebody presses, it keeps the invariant.
LEMMA PeopleKept ==
  ASSUME UploadsInv, NEW f \in Files, People(f)
  PROVE  UploadsInv'
<1>1. /\ QueueInv /\ RestTypes /\ BytesKept /\ TwiceForACause /\ HandsSound
      /\ Waved(pending, unasked) /\ status \in [Files -> Statuses]
  BY InvParts DEF QueueInv, Fits
<1>2. CASE Add(f) /\ f \notin Oversized
  <2> DEFINE st == [status EXCEPT ![f] = "waiting"]
             p == Append(pending, Entry(f, FALSE))
  <2>1. /\ status[f] = "unchosen" /\ Drain(p, st)
        /\ UNCHANGED <<held, restoring, archive, late, again, unasked, abandoned, twice>>
    BY <1>2 DEF Add, history
  <2>2. Fits(p, st) /\ Waved(p, unasked)
    BY <1>1, <2>1, Joins
  <2>3. st[f] = "waiting" /\ \A g \in Files : g # f => st[g] = status[g]
    BY <1>1
  <2> HIDE DEF st, p
  <2>4. \A g \in Files : st[g] = status[g] \/ (st[g] \notin Awaited /\ status[g] \notin Awaited)
    BY <2>1, <2>3 DEF Awaited
  <2>5. /\ QueueInv' /\ Waved(pending', unasked)
        /\ \A d \in drains' : \/ d \in drains
                              \/ d.step # "nothing" /\ (d.step = "sending" => d.file \in unasked)
        /\ \A g \in Files : status'[g] = st[g] \/ {status'[g], st[g]} \subseteq InFlight
    BY <1>1, <2>1, <2>2, <2>4, DrainKept
  <2>6. BytesKept'
    <3>1. \A g \in Files : g \in held' <=> st[g] \in {"duplicate", "failed"}
      BY <1>1, <2>1, <2>3 DEF BytesKept
    <3> QED
      BY <2>5, <3>1, BytesFollow
  <2>7. RestTypes' /\ TwiceForACause' /\ Waved(pending, unasked)'
    BY <1>1, <2>1, <2>5, ExcusesStay DEF RestTypes, Waved
  <2>8. HandsSound'
    BY <1>1, <2>1, <2>5, SoundAfter
  <2> QED
    BY <2>5, <2>6, <2>7, <2>8, InvParts
<1>3. CASE Add(f) /\ f \in Oversized
  <2> DEFINE st == [status EXCEPT ![f] = "too-large"]
  <2>1. /\ status[f] = "unchosen" /\ Drain(pending, st)
        /\ UNCHANGED <<held, restoring, archive, late, again, unasked, abandoned, twice>>
    BY <1>3 DEF Add, history
  <2>2. /\ st[f] = "too-large" /\ \A g \in Files : g # f => st[g] = status[g]
        /\ st \in [Files -> Statuses]
    BY <1>1 DEF Statuses
  <2> HIDE DEF st
  <2>3. Fits(pending, st)
    <3>1. \A g \in Files : st[g] = "waiting" <=> status[g] = "waiting"
      BY <2>1, <2>2
    <3> QED
      BY <1>1, <2>2, <3>1 DEF QueueInv, Fits
  <2>4. \A g \in Files : st[g] = status[g] \/ (st[g] \notin Awaited /\ status[g] \notin Awaited)
    BY <2>1, <2>2 DEF Awaited
  <2>5. /\ QueueInv' /\ Waved(pending', unasked)
        /\ \A d \in drains' : \/ d \in drains
                              \/ d.step # "nothing" /\ (d.step = "sending" => d.file \in unasked)
        /\ \A g \in Files : status'[g] = st[g] \/ {status'[g], st[g]} \subseteq InFlight
    BY <1>1, <2>1, <2>3, <2>4, DrainKept
  <2>6. BytesKept'
    <3>1. \A g \in Files : g \in held' <=> st[g] \in {"duplicate", "failed"}
      BY <1>1, <2>1, <2>2 DEF BytesKept
    <3> QED
      BY <2>5, <3>1, BytesFollow
  <2>7. RestTypes' /\ TwiceForACause' /\ Waved(pending, unasked)'
    BY <1>1, <2>1, <2>5, ExcusesStay DEF RestTypes, Waved
  <2>8. HandsSound'
    BY <1>1, <2>1, <2>5, SoundAfter
  <2> QED
    BY <2>5, <2>6, <2>7, <2>8, InvParts
<1>4. CASE SendAnyway(f) \/ SendAgain(f)
  <2> DEFINE st == [status EXCEPT ![f] = "waiting"]
             p == Append(pending, Entry(f, TRUE))
  <2>1. /\ status[f] \in {"duplicate", "failed"} /\ Drain(p, st)
        /\ held' = held \ {f} /\ unasked' = unasked \cup {f} /\ again' \in {again, again + 1}
        /\ UNCHANGED <<restoring, archive, late, abandoned, twice>>
    BY <1>4 DEF SendAnyway, SendAgain, Requeue
  <2>2. Fits(p, st) /\ Waved(p, unasked')
    <3>1. status[f] # "waiting" /\ unasked \subseteq unasked' /\ f \in unasked'
      BY <2>1
    <3> HIDE DEF Entry
    <3> QED
      BY <1>1, <3>1, Joins, Zenon
  <2>3. st[f] = "waiting" /\ \A g \in Files : g # f => st[g] = status[g]
    BY <1>1
  <2> HIDE DEF st, p
  <2>4. \A g \in Files : st[g] = status[g] \/ (st[g] \notin Awaited /\ status[g] \notin Awaited)
    BY <2>1, <2>3 DEF Awaited
  <2>5. /\ QueueInv' /\ Waved(pending', unasked')
        /\ \A d \in drains' : \/ d \in drains
                              \/ d.step # "nothing" /\ (d.step = "sending" => d.file \in unasked')
        /\ \A g \in Files : status'[g] = st[g] \/ {status'[g], st[g]} \subseteq InFlight
    BY <1>1, <2>1, <2>2, <2>4, DrainKept
  <2>6. BytesKept'
    <3>1. \A g \in Files : g \in held' <=> st[g] \in {"duplicate", "failed"}
      BY <1>1, <2>1, <2>3 DEF BytesKept
    <3> QED
      BY <2>5, <3>1, BytesFollow
  <2>7. RestTypes' /\ TwiceForACause' /\ Waved(pending, unasked)'
    BY <1>1, <2>1, <2>5, ExcusesStay DEF RestTypes, Waved
  <2>8. HandsSound'
    BY <1>1, <2>1, <2>5, SoundAfter
  <2> QED
    BY <2>5, <2>6, <2>7, <2>8, InvParts
<1>5. ASSUME Skip(f), restoring' \in [Files -> {"no", "offered", "asked", "done"}]
      PROVE  UploadsInv'
  <2>1. /\ UNCHANGED <<pending, running, drains, archive, late, again, unasked, abandoned, twice>>
        /\ \/ /\ status[f] = "duplicate" /\ held' = held \ {f}
              /\ status' = [status EXCEPT ![f] = "skipped"]
           \/ UNCHANGED <<held, status>>
    BY <1>5 DEF Skip, history
  <2>2. RestTypes' /\ TwiceForACause' /\ Waved(pending, unasked)' /\ HandsSound'
    BY <1>1, <1>5, <2>1, ExcusesStay DEF RestTypes, Waved, HandsSound
  <2>3. CASE UNCHANGED <<held, status>>
    BY <1>1, <2>1, <2>2, <2>3, InvParts DEF QueueInv, BytesKept, OneAtATime
  <2>4. CASE /\ status[f] = "duplicate" /\ held' = held \ {f}
             /\ status' = [status EXCEPT ![f] = "skipped"]
    <3>1. /\ status' \in [Files -> Statuses] /\ status'[f] = "skipped"
          /\ \A g \in Files : g # f => status'[g] = status[g]
      BY <1>1, <2>4 DEF Statuses
    <3>2. BytesKept'
      BY <1>1, <2>4, <3>1 DEF BytesKept
    <3>3. Fits(pending, status)'
      <4>1. \A g \in Files : status'[g] = "waiting" <=> status[g] = "waiting"
        BY <2>4, <3>1
      <4> QED
        BY <1>1, <2>1, <3>1, <4>1 DEF QueueInv, Fits
    <3>4. InHand(status, drains)'
      <4>1. \A d \in drains : d.file \in Files /\ d.file # f
        BY <1>1, <2>4 DEF QueueInv, Hands, InHand
      <4>2. \A g \in Files : status'[g] \in Awaited => status[g] \in Awaited
        BY <3>1 DEF Awaited
      <4> QED
        BY <1>1, <2>1, <3>1, <4>1, <4>2 DEF QueueInv, InHand
    <3>5. QueueInv'
      BY <1>1, <2>1, <3>3, <3>4 DEF QueueInv, OneAtATime
    <3> QED
      BY <2>2, <3>2, <3>5, InvParts
  <2> QED
    BY <2>1, <2>3, <2>4
<1>6. CASE LeaveAlone(f)
  <2>1. Skip(f) /\ restoring' = restoring
    BY <1>6 DEF LeaveAlone
  <2> QED
    BY <1>1, <1>5, <2>1 DEF RestTypes
<1>7. CASE RestoreAnswered(f)
  <2>1. Skip(f) /\ restoring' = [restoring EXCEPT ![f] = "no"]
    BY <1>7 DEF RestoreAnswered
  <2> QED
    BY <1>1, <1>5, <2>1 DEF RestTypes
<1>8. CASE Restore(f)
  <2>1. /\ restoring' = [restoring EXCEPT ![f] = "asked"]
        /\ UNCHANGED <<status, pending, held, running, drains, archive, late, again, unasked,
                       abandoned, twice>>
    BY <1>8 DEF Restore, tray, history
  <2>2. RestTypes' /\ TwiceForACause' /\ Waved(pending, unasked)' /\ HandsSound'
    BY <1>1, <2>1, ExcusesStay DEF RestTypes, Waved, HandsSound
  <2> QED
    BY <1>1, <2>1, <2>2, InvParts DEF QueueInv, BytesKept, OneAtATime
<1>9. CASE Restored(f)
  <2> DEFINE c == ContentOf[f]
  <2>1. /\ restoring' \in [Files -> {"no", "offered", "asked", "done"}]
        /\ \/ UNCHANGED archive
           \/ "trashed" \in archive[c] /\ archive' = [archive EXCEPT ![c] = {"here"}]
        /\ UNCHANGED <<status, pending, held, running, drains, late, again, unasked, abandoned,
                       twice>>
    BY <1>1, <1>9 DEF Restored, tray, history, RestTypes
  <2>2. RestTypes' /\ TwiceForACause' /\ Waved(pending, unasked)'
    BY <1>1, <2>1, ExcusesStay DEF RestTypes, Waved
  <2>3. HandsSound'
    <3>1. \A x \in Contents : archive[x] = {} => archive'[x] = {}
      BY <1>1, <2>1 DEF RestTypes
    <3>2. \A d \in drains : ContentOf[d.file] \in Contents
      BY <1>1, UploadsAssumption DEF QueueInv, Hands
    <3> QED
      BY <1>1, <2>1, <3>1, <3>2 DEF HandsSound, Excused
  <2> QED
    BY <1>1, <2>1, <2>2, <2>3, InvParts DEF QueueInv, BytesKept, OneAtATime
<1> QED
  BY <1>2, <1>3, <1>4, <1>6, <1>7, <1>8, <1>9 DEF People
\* Closing the tray forgets rows nothing is in flight for.
LEMMA ClearKept ==
  ASSUME UploadsInv, Clear
  PROVE  UploadsInv'
<1>1. /\ QueueInv /\ RestTypes /\ BytesKept /\ TwiceForACause /\ HandsSound
      /\ Waved(pending, unasked) /\ status \in [Files -> Statuses]
  BY InvParts DEF QueueInv, Fits
<1>2. UNCHANGED <<pending, held, running, drains, restoring, archive, late, again, unasked,
                  abandoned, twice>>
  BY DEF Clear, history
<1>3. \A f \in Files : /\ status'[f] = IF HasRow(status, f) THEN "cleared" ELSE status[f]
                       /\ HasRow(status, f) => status[f] \in {"done", "skipped"}
  BY DEF Clear
<1>4. \A f \in Files : status'[f] # status[f] =>
         status'[f] = "cleared" /\ status[f] \in {"done", "skipped"}
  BY <1>3
<1>5. status' \in [Files -> Statuses]
  BY <1>1 DEF Clear, Statuses, NoRow
<1>6. BytesKept'
  BY <1>1, <1>2, <1>4 DEF BytesKept
<1>7. Fits(pending, status)'
  <2>1. \A f \in Files : status'[f] = "waiting" <=> status[f] = "waiting"
    BY <1>4
  <2> QED
    BY <1>1, <1>2, <1>5, <2>1 DEF QueueInv, Fits
<1>8. InHand(status, drains)'
  <2>1. \A d \in drains : d.file \in Files /\ status'[d.file] = status[d.file]
    BY <1>1, <1>4 DEF QueueInv, Hands, InHand
  <2>2. \A f \in Files : status'[f] \in Awaited => status[f] \in Awaited
    BY <1>4 DEF Awaited
  <2> QED
    BY <1>1, <1>2, <2>1, <2>2 DEF QueueInv, InHand
<1>9. QueueInv'
  BY <1>1, <1>2, <1>7, <1>8 DEF QueueInv, OneAtATime
<1>10. RestTypes' /\ TwiceForACause' /\ Waved(pending, unasked)' /\ HandsSound'
  BY <1>1, <1>2, ExcusesStay DEF RestTypes, Waved, HandsSound
<1> QED
  BY <1>6, <1>9, <1>10, InvParts

\* A request given up is carried out after all: that is excuse enough, for it
\* and for whatever it comes beside.
LEMMA StoresLateKept ==
  ASSUME UploadsInv, NEW f \in Files, StoresLate(f)
  PROVE  UploadsInv'
<1>1. /\ QueueInv /\ RestTypes /\ BytesKept /\ TwiceForACause /\ HandsSound
      /\ Waved(pending, unasked)
  BY InvParts
<1>2. /\ f \in late /\ late' = late \ {f}
      /\ archive' = [archive EXCEPT ![ContentOf[f]] = @ \cup {"here"}]
      /\ twice' = IF archive[ContentOf[f]] = {} THEN twice ELSE twice \cup {f}
      /\ UNCHANGED <<status, pending, held, running, drains, restoring, again, unasked, abandoned>>
  BY DEF StoresLate, Stored
<1>3. f \in abandoned /\ Excused(f)
  BY <1>1, <1>2 DEF RestTypes, Excused
<1>4. RestTypes'
  BY <1>1, <1>2, UploadsAssumption DEF RestTypes
<1>5. TwiceForACause'
  BY <1>1, <1>2, <1>3 DEF TwiceForACause, Excused
<1>6. HandsSound'
  <2> SUFFICES ASSUME NEW d \in drains, d.step \in {"nothing", "sending"}
               PROVE  archive'[ContentOf[d.file]] = {} \/ Excused(d.file)
    BY <1>2 DEF HandsSound, Excused
  <2>1. CASE ContentOf[d.file] = ContentOf[f]
    BY <1>3, <2>1 DEF Excused
  <2>2. CASE ContentOf[d.file] # ContentOf[f]
    <3>1. ContentOf[d.file] \in Contents
      BY <1>1, UploadsAssumption DEF QueueInv, Hands
    <3>2. archive'[ContentOf[d.file]] = archive[ContentOf[d.file]]
      BY <1>1, <1>2, <2>2, <3>1 DEF RestTypes
    <3> QED
      BY <1>1, <3>2 DEF HandsSound
  <2> QED
    BY <2>1, <2>2
<1>7. QueueInv' /\ BytesKept' /\ Waved(pending, unasked)'
  BY <1>1, <1>2 DEF QueueInv, BytesKept, Waved, OneAtATime
<1> QED
  BY <1>4, <1>5, <1>6, <1>7, InvParts

-----------------------------------------------------------------------------
(* The theorems *)

\* At the start nothing is queued and nobody has stored anything.
LEMMA InitInv == Init => UploadsInv
<1> SUFFICES ASSUME Init PROVE UploadsInv
  OBVIOUS
<1>1. /\ status = [f \in Files |-> "unchosen"] /\ pending = <<>> /\ held = {}
      /\ running = FALSE /\ drains = {} /\ restoring = [f \in Files |-> "no"]
      /\ archive \in [Contents -> SUBSET {"here", "trashed"}]
      /\ late = {} /\ again = 0 /\ unasked = {} /\ abandoned = {} /\ twice = {}
  BY DEF Init
<1>2. Fits(pending, status)
  <2>1. status \in [Files -> Statuses] /\ \A f \in Files : status[f] = "unchosen"
    BY <1>1 DEF Statuses, NoRow
  <2>2. pending \in Seq(Entries) /\ Len(pending) = 0
    BY <1>1, EmptySeq
  <2> QED
    BY <2>1, <2>2 DEF Fits
<1>3. InHand(status, drains) /\ OneAtATime
  BY <1>1 DEF InHand, OneAtATime, Awaited
<1>4. QueueInv
  BY <1>1, <1>2, <1>3 DEF QueueInv
<1>5. RestTypes /\ BytesKept /\ TwiceForACause /\ HandsSound
  BY <1>1 DEF RestTypes, BytesKept, TwiceForACause, HandsSound
<1>6. Waved(pending, unasked)
  BY <1>1 DEF Waved
<1> QED
  BY <1>4, <1>5, <1>6, InvParts

\* Every step of the page, of the people at it and of the instance keeps it.
LEMMA StepInv == UploadsInv /\ [Next]_vars => UploadsInv'
<1> SUFFICES ASSUME UploadsInv, [Next]_vars PROVE UploadsInv'
  OBVIOUS
<1>1. ASSUME NEW d \in drains, Drives(d) PROVE UploadsInv'
  BY <1>1, DrivesKept
<1>2. ASSUME NEW f \in Files, People(f) PROVE UploadsInv'
  BY <1>2, PeopleKept
<1>3. ASSUME NEW f \in Files, StoresLate(f) PROVE UploadsInv'
  BY <1>3, StoresLateKept
<1>4. CASE Clear
  BY <1>4, ClearKept
<1>5. CASE UNCHANGED vars
  <2>1. UNCHANGED <<status, pending, held, running, drains, restoring, archive, late, again,
                    unasked, abandoned, twice>>
    BY <1>5 DEF vars, tray, history
  <2> QED
    BY <2>1, InvParts DEF QueueInv, RestTypes, BytesKept, TwiceForACause, Waved, HandsSound,
       Excused, OneAtATime
<1> QED
  BY <1>1, <1>2, <1>3, <1>4, <1>5 DEF Next

\* The inductive invariant: the tray's own, the causes there are for storing a
\* file twice, and why what is about to be sent is not there yet.
THEOREM UploadsInvariant == Spec => []UploadsInv
<1> QED
  BY InitInv, StepInv, PTL DEF Spec

\* The tray holds together (uploads.ts drain, add, decide, again): one file at a
\* time, nothing queued is stranded, and bytes are kept while they are offered.
THEOREM TrayHoldsTogether == Spec => []TrayInv
<1>1. UploadsInv => TrayInv
  BY DEF UploadsInv
<1> QED
  BY <1>1, UploadsInvariant, PTL

\* The duplicate check holds (uploads.ts warn): a file is stored beside a copy of
\* itself only if somebody waved it through, the check failed, or a request given
\* up before was carried out after all.
THEOREM NeverTwiceUnasked == Spec => []TwiceForACause
<1>1. UploadsInv => TwiceForACause
  BY DEF UploadsInv
<1> QED
  BY <1>1, UploadsInvariant, PTL

-----------------------------------------------------------------------------
(* The dialog the files are chosen in *)

\* What is handed over, each file at the tile it was on.
Batches ==
    [files : UNION {[I -> Offered] : I \in SUBSET Nat}, library : ToSet(Libraries),
     category : Categories \cup {None}, transcribe : BOOLEAN, limited : BOOLEAN,
     shifted : BOOLEAN]

\* A chosen category is of the library the files would go into, until that one moves under it.
CategoryFits == category # None => LibraryOf[category] = D!Into \/ shifted

ChosenInv ==
    /\ D!DialogInv
    /\ handed \in {None} \cup Batches
    /\ coming > 0 => handed \in Batches
    /\ CategoryFits

\* The first of the libraries one may write to is one of them.
LEMMA FirstIsListed ==
  ASSUME NEW S \in SUBSET Nat, S # {}
  PROVE  Min(S) \in S
<1>1. PICK x \in S : \A y \in S : ~(<<y, x>> \in OpToRel(<, Nat))
  BY NatLessThanWellFounded, WFMin, Zenon
<1>2. ASSUME NEW y \in S
      PROVE  ~(y < x)
  <2>1. y \in Nat /\ x \in Nat
    OBVIOUS
  <2>2. y < x => <<y, x>> \in OpToRel(<, Nat)
    BY <2>1, Zenon DEF OpToRel
  <2> QED
    BY <1>1, <2>2, Zenon
<1>3. \A y \in S : x <= y
  BY <1>2
<1> QED
  BY <1>3 DEF Min

LEMMA IntoFacts ==
  ASSUME NEW e \in SUBSET ToSet(Libraries), NEW b, NEW d \in ToSet(Libraries) \cup {None}
  PROVE  D!IntoOf(d, e, b) \in ToSet(Libraries) \cup {None}
<1> DEFINE listed == {i \in DOMAIN Libraries : Libraries[i] \in e}
<1> USE DEF ToSet, D!ToSet
<1>1. DOMAIN Libraries \in SUBSET Nat
  BY DialogAssumption
<1>2. listed # {} => Libraries[D!Min(listed)] \in ToSet(Libraries)
  <2> SUFFICES ASSUME listed # {} PROVE Libraries[D!Min(listed)] \in ToSet(Libraries)
    OBVIOUS
  <2>1. D!Min(listed) \in listed
    BY <1>1, FirstIsListed DEF Min, D!Min
  <2> QED
    BY <2>1
<1> QED
  BY <1>2 DEF D!IntoOf, D!SuggestedOf

\* An opening starts with nothing of the one before.
LEMMA EmptyIsTyped == <<>> \in Seq(Offered)
OBVIOUS

LEMMA ChosenInit ==
  ASSUME D!Init
  PROVE  ChosenInv
<1>1. D!TypeOK
  <2>1. /\ open \in BOOLEAN /\ transcribe \in BOOLEAN /\ limits \in BOOLEAN /\ provider \in BOOLEAN
        /\ shifted \in BOOLEAN
    BY Zenon DEF D!Init
  <2>2. moves \in 0..MaxMoves /\ coming \in Nat
    BY DialogAssumption DEF D!Init
  <2>3. frame \in {"desktop", "phone", "tab"}
    BY DEF D!Init
  <2> QED
    BY <2>1, <2>2, <2>3, EmptyIsTyped DEF D!Init, D!TypeOK
<1>2. D!CategoryGoesWithItsLibrary /\ D!StartsEmpty /\ D!UntoldBehindTheTab
  BY DEF D!Init, D!CategoryGoesWithItsLibrary, D!StartsEmpty, D!UntoldBehindTheTab
<1> QED
  BY <1>1, <1>2 DEF ChosenInv, D!DialogInv, CategoryFits, D!Init

\* A tile taken out leaves a list of files.
LEMMA LeftOut ==
  ASSUME NEW s \in Seq(Offered), NEW i \in 1..Len(s)
  PROVE  RemoveAt(s, i) \in Seq(Offered)
<1>1. SubSeq(s, 1, i - 1) \in Seq(Offered) /\ SubSeq(s, i + 1, Len(s)) \in Seq(Offered)
  BY SubSeqProperties
<1> QED
  BY <1>1, ConcatProperties DEF RemoveAt

LEMMA InDialogStep ==
  ASSUME ChosenInv, D!InDialog
  PROVE  ChosenInv'
<1> USE DEF ChosenInv, D!DialogInv, ToSet, D!ToSet
<1>1. D!Into \in ToSet(Libraries) \cup {None}
  BY IntoFacts DEF D!Into, D!TypeOK
<1>2. CASE D!Opens
  <2>1. D!TypeOK' /\ CategoryFits'
    BY <1>2 DEF D!Opens, D!TypeOK, CategoryFits, D!dialog, D!around, D!Into
  <2> QED
    BY <1>2, <2>1 DEF D!Opens, D!dialog, D!around, D!CategoryGoesWithItsLibrary, D!StartsEmpty, D!UntoldBehindTheTab
<1>3. CASE D!Flip
  <2>1. D!TypeOK' /\ CategoryFits'
    BY <1>3 DEF D!Flip, D!TypeOK, CategoryFits, D!around, D!Into
  <2> QED
    BY <1>3, <2>1 DEF D!Flip, D!around, D!CategoryGoesWithItsLibrary, D!StartsEmpty, D!UntoldBehindTheTab
<1>4. ASSUME NEW f \in Offered, D!Take(f)
      PROVE  ChosenInv'
  <2>1. D!TypeOK' /\ CategoryFits'
    BY <1>4 DEF D!Take, D!TypeOK, CategoryFits, D!around, D!Into
  <2> QED
    BY <1>4, <2>1 DEF D!Take, D!around, D!CategoryGoesWithItsLibrary, D!StartsEmpty, D!UntoldBehindTheTab
<1>5. ASSUME NEW i \in 1..Len(chosen), D!LeaveOut(i)
      PROVE  ChosenInv'
  <2>1. D!TypeOK' /\ CategoryFits'
    BY <1>5, LeftOut DEF D!LeaveOut, RemoveAt, D!RemoveAt, D!TypeOK, CategoryFits, D!around, D!Into
  <2> QED
    BY <1>5, <2>1 DEF D!LeaveOut, D!around, D!CategoryGoesWithItsLibrary, D!StartsEmpty, D!UntoldBehindTheTab
<1>6. ASSUME NEW l \in ToSet(Libraries), D!ChooseLibrary(l)
      PROVE  ChosenInv'
  <2>1. D!TypeOK' /\ CategoryFits'
    BY <1>6 DEF D!ChooseLibrary, D!TypeOK, CategoryFits, D!around
  <2> QED
    BY <1>6, <2>1 DEF D!ChooseLibrary, D!around, D!CategoryGoesWithItsLibrary, D!StartsEmpty, D!UntoldBehindTheTab
<1>7. ASSUME NEW c \in Categories \cup {None}, D!ChooseCategory(c)
      PROVE  ChosenInv'
  <2>1. D!TypeOK' /\ CategoryFits'
    BY <1>7 DEF D!ChooseCategory, D!TypeOK, CategoryFits, D!around, D!Into
  <2> QED
    BY <1>7, <2>1 DEF D!ChooseCategory, D!around, D!CategoryGoesWithItsLibrary, D!StartsEmpty, D!UntoldBehindTheTab
<1>8. CASE D!Cancel
  <2>1. D!TypeOK' /\ CategoryFits'
    BY <1>8, EmptyIsTyped DEF D!Cancel, D!Shut, D!Empty, D!TypeOK, CategoryFits, D!around
  <2> QED
    BY <1>8, <2>1 DEF D!Cancel, D!Shut, D!Empty, D!around, D!CategoryGoesWithItsLibrary, D!StartsEmpty, D!UntoldBehindTheTab
<1>9. CASE D!HandOver
  <2> DEFINE files == [i \in D!Accepted |-> chosen[i]]
             batch == [files |-> files, library |-> D!Into, category |-> category,
                       transcribe |-> transcribe, limited |-> limits, shifted |-> shifted]
  <2>1. /\ handed' = batch /\ coming' = Cardinality(D!Accepted) /\ D!Into # None /\ D!Shut
        /\ UNCHANGED <<limits, provider, editable, beneath, frame, moves, landed>>
    BY <1>9 DEF D!HandOver, D!around, Cardinality, D!Cardinality
  <2>2. /\ DOMAIN chosen = 1..Len(chosen) /\ Len(chosen) \in Nat
        /\ \A i \in DOMAIN chosen : chosen[i] \in Offered
    BY DEF D!TypeOK
  <2>3. D!Accepted \subseteq 1..Len(chosen)
    BY <2>2 DEF D!Accepted
  <2>4. coming' \in Nat
    <3>1. IsFiniteSet(1..Len(chosen))
      BY <2>2, FS_Interval
    <3> QED
      BY <2>1, <2>3, <3>1, FS_Subset, FS_CardinalityType
  <2>5. files \in [D!Accepted -> Offered] /\ D!Accepted \in SUBSET Nat
    BY <2>2, <2>3
  <2>6. handed' \in Batches
    <3>1. files \in UNION {[I -> Offered] : I \in SUBSET Nat}
      BY <2>5
    <3> HIDE DEF files
    <3> QED
      BY <1>1, <2>1, <3>1 DEF Batches, D!TypeOK
  <2>7. limits => D!Range(files) \subseteq Ingested
    BY DEF D!Range, D!Accepted
  <2> HIDE DEF files
  <2>8. D!TypeOK' /\ CategoryFits'
    BY <2>1, <2>4, EmptyIsTyped DEF D!Shut, D!Empty, D!TypeOK, CategoryFits
  <2>9. D!CategoryGoesWithItsLibrary'
    BY <2>1 DEF D!CategoryGoesWithItsLibrary, CategoryFits
  <2>10. D!StartsEmpty'
    BY <2>1, <2>7 DEF D!StartsEmpty, D!Shut, D!Empty
  <2>11. D!UntoldBehindTheTab'
    BY <2>1 DEF D!UntoldBehindTheTab
  <2> QED
    BY <2>6, <2>8, <2>9, <2>10, <2>11
<1> QED
  BY <1>2, <1>3, <1>4, <1>5, <1>6, <1>7, <1>8, <1>9 DEF D!InDialog

LEMMA AroundStep ==
  ASSUME ChosenInv, D!Next, ~D!InDialog
  PROVE  ChosenInv'
<1> USE DEF ChosenInv, D!DialogInv, ToSet, D!ToSet
<1>1. ASSUME NEW b \in ToSet(Libraries) \cup {None}, D!Navigate(b)
      PROVE  ChosenInv'
  <2>1. D!TypeOK'
    BY <1>1, DialogAssumption DEF D!Navigate, D!Moves, D!Shifts, D!TypeOK, D!dialog
  <2>2. CategoryFits'
    BY <1>1 DEF D!Navigate, D!Shifts, CategoryFits, D!dialog, D!Into
  <2> QED
    BY <1>1, <2>1, <2>2 DEF D!Navigate, D!dialog, D!CategoryGoesWithItsLibrary, D!StartsEmpty, D!UntoldBehindTheTab
<1>2. ASSUME NEW e \in SUBSET ToSet(Libraries), D!Reread(e)
      PROVE  ChosenInv'
  <2>1. D!TypeOK'
    BY <1>2, DialogAssumption DEF D!Reread, D!Moves, D!Shifts, D!TypeOK, D!dialog
  <2>2. CategoryFits'
    BY <1>2 DEF D!Reread, D!Shifts, CategoryFits, D!dialog, D!Into
  <2> QED
    BY <1>2, <2>1, <2>2 DEF D!Reread, D!dialog, D!CategoryGoesWithItsLibrary, D!StartsEmpty, D!UntoldBehindTheTab
<1>3. CASE D!InstanceAnswers \/ D!ProviderChanges
  <2>1. limits' \in BOOLEAN /\ provider' \in BOOLEAN
    BY <1>3, Zenon DEF D!InstanceAnswers, D!ProviderChanges, D!TypeOK
  <2>2. moves' \in 0..MaxMoves
    BY <1>3, DialogAssumption DEF D!InstanceAnswers, D!ProviderChanges, D!Moves, D!TypeOK
  <2>3. D!TypeOK'
    BY <1>3, <2>1, <2>2 DEF D!InstanceAnswers, D!ProviderChanges, D!TypeOK, D!dialog
  <2>4. CategoryFits'
    BY <1>3 DEF D!InstanceAnswers, D!ProviderChanges, CategoryFits, D!dialog, D!Into
  <2> QED
    BY <1>3, <2>3, <2>4 DEF D!InstanceAnswers, D!ProviderChanges, D!dialog, D!CategoryGoesWithItsLibrary, D!StartsEmpty, D!UntoldBehindTheTab
<1>4. CASE D!Reframe
  <2>1. D!TypeOK' /\ CategoryFits'
    <3>1. moves' \in 0..MaxMoves
      BY <1>4, DialogAssumption DEF D!Reframe, D!Moves, D!TypeOK
    <3>2. frame' \in {"desktop", "phone", "tab"} /\ landed' \subseteq D!ToSet(Libraries)
      BY <1>4 DEF D!Reframe, D!TypeOK
    <3>3. transcribe' \in BOOLEAN /\ shifted' \in BOOLEAN /\ category' = None
      BY <1>4, Zenon DEF D!Reframe, D!Empty
    <3> QED
      BY <1>4, <3>1, <3>2, <3>3, EmptyIsTyped DEF D!Reframe, D!Empty, D!TypeOK, CategoryFits
  <2>2. D!UntoldBehindTheTab'
    BY <1>4 DEF D!Reframe, D!Watching, D!UntoldBehindTheTab, D!TypeOK
  <2> QED
    BY <1>4, <2>1, <2>2 DEF D!Reframe, D!Empty, D!CategoryGoesWithItsLibrary, D!StartsEmpty
<1>5. CASE D!Tab
  <2>1. D!TypeOK' /\ CategoryFits'
    BY <1>5 DEF D!Tab, D!Watching, D!TypeOK, CategoryFits, D!dialog, D!Into
  <2>2. D!UntoldBehindTheTab'
    BY <1>5 DEF D!Tab, D!Watching, D!UntoldBehindTheTab
  <2> QED
    BY <1>5, <2>1, <2>2 DEF D!Tab, D!dialog, D!CategoryGoesWithItsLibrary, D!StartsEmpty
<1>6. CASE D!Lands
  <2>1. /\ coming > 0 /\ coming' = coming - 1 /\ handed' = handed
        /\ UNCHANGED <<open, chosen, destination, category, transcribe, shifted, limits, provider,
                       editable, beneath, frame, moves>>
        /\ landed' = landed \/ (frame = "phone" /\ landed' = landed \cup {handed.library})
    BY <1>6 DEF D!Lands, D!dialog, D!around, D!Watching
  <2>2. handed \in Batches /\ handed.library \in ToSet(Libraries)
    BY <2>1 DEF Batches
  <2>3. D!TypeOK' /\ CategoryFits'
    BY <2>1, <2>2 DEF D!TypeOK, CategoryFits, D!Into
  <2> QED
    BY <2>1, <2>2, <2>3 DEF D!CategoryGoesWithItsLibrary, D!StartsEmpty, D!UntoldBehindTheTab
<1> QED
  BY <1>1, <1>2, <1>3, <1>4, <1>5, <1>6 DEF D!Next

LEMMA ChosenStep ==
  ASSUME ChosenInv, [D!Next]_(D!vars)
  PROVE  ChosenInv'
<1>1. CASE UNCHANGED D!vars
  BY <1>1 DEF D!vars, D!dialog, D!around, ChosenInv, D!DialogInv, D!TypeOK, CategoryFits, D!Into,
              D!CategoryGoesWithItsLibrary, D!StartsEmpty, D!UntoldBehindTheTab
<1> QED
  BY <1>1, InDialogStep, AroundStep

\* What is chosen is handed over to where it was chosen for (UploadDialog.tsx): with a category of
\* another library only when the suggestion moved under it, with nothing of the opening before, and
\* what arrives untold does so behind the phone's tab.
THEOREM DialogHoldsTogether == MCSpec => []DialogInv
<1>1. MCInit => ChosenInv
  BY ChosenInit DEF MCInit
<1>2. ChosenInv /\ [Queued \/ Chosen]_<<scene, vars, onDialog>> => ChosenInv'
  <2> SUFFICES ASSUME ChosenInv, [Queued \/ Chosen]_<<scene, vars, onDialog>>
               PROVE  [D!Next]_(D!vars)
    BY ChosenStep
  <2> QED
    BY DEF Queued, Chosen, onDialog, D!vars, D!dialog, D!around
<1>3. ChosenInv => DialogInv
  BY DEF ChosenInv, DialogInv
<1> QED
  BY <1>1, <1>2, <1>3, PTL DEF MCSpec
=============================================================================
