------------------------------ MODULE FilesProofs ------------------------------
(***************************************************************************)
(* Proofs about RecordingFiles, for any number of recordings, threads,     *)
(* purges, retries and crashes.                                            *)
(***************************************************************************)
EXTENDS MCRecordingFiles, FiniteSetTheorems, SequenceTheorems, FunctionTheorems, TLAPS

\* An order of a finite set is a sequence of all of it and nothing else.
LEMMA OrdersCover ==
  ASSUME NEW S, IsFiniteSet(S), NEW todo \in SetToSeqs(S)
  PROVE  todo \in Seq(S) /\ Range(todo) = S
<1>1. Cardinality(S) \in Nat
  BY FS_CardinalityType
<1> DEFINE D == 1..Cardinality(S)
<1>2. todo \in [D -> S] /\ \A i, j \in D : i # j => todo[i] # todo[j]
  BY DEF SetToSeqs
<1>3. todo \in Injection(D, S)
  BY <1>2 DEF Injection, IsInjective
<1>4. IsFiniteSet(D) /\ Cardinality(D) = Cardinality(S)
  BY <1>1, FS_Interval
<1>5. todo \in Surjection(D, S)
  BY <1>3, <1>4, FS_Injection
<1> QED
  BY <1>1, <1>2, <1>5 DEF Surjection, Range

\* The tail of a sequence has nothing the sequence has not.
LEMMA TailCovers ==
  ASSUME NEW S, NEW s \in Seq(S), s # <<>>
  PROVE  /\ Head(s) \in Range(s) /\ Tail(s) \in Seq(S)
         /\ Range(s) = {Head(s)} \cup Range(Tail(s))
<1>1. Len(s) \in Nat \ {0} /\ Tail(s) \in Seq(S) /\ Len(Tail(s)) = Len(s) - 1
      /\ \A i \in 1..Len(Tail(s)) : Tail(s)[i] = s[i + 1]
  BY HeadTailProperties
<1>2. Head(s) = s[1] /\ DOMAIN s = 1..Len(s) /\ DOMAIN Tail(s) = 1..(Len(s) - 1)
  BY <1>1
<1>3. \A i \in DOMAIN s : i = 1 \/ (i - 1 \in DOMAIN Tail(s) /\ Tail(s)[i - 1] = s[i])
  BY <1>1, <1>2
<1>4. \A i \in DOMAIN Tail(s) : i + 1 \in DOMAIN s /\ Tail(s)[i] = s[i + 1]
  BY <1>1, <1>2
<1> QED
  BY <1>1, <1>2, <1>3, <1>4 DEF Range

\* The steps there are, one action at a time.
LEMMA NextCases ==
  ASSUME Next
  PROVE  \/ \E r \in Recordings : \/ Receive(r) \/ Store(r) \/ Insert(r) \/ Abort(r)
                                 \/ Probed(r) \/ Cancel(r) \/ Retry(r) \/ FsckLooksAt(r)
         \/ \E p \in Purgers, rs \in SUBSET Recordings : Purge(p, rs)
         \/ \E p \in Removers : \/ ListFiles(p) \/ RemoveFile(p)
                               \/ RemoveDirectory(p) \/ Refused(p)
         \/ \E t \in Threads, r \in Recordings : Claim(t, r)
         \/ \E t \in Threads : \/ Locate(t) \/ MakeDirectory(t) \/ Open(t)
                              \/ EncodeFails(t) \/ Replace(t) \/ Tidy(t) \/ Record(t)
                              \/ Settle(t)
         \/ Crash \/ FsckBegins \/ FsckReadsRows \/ FsckListsOriginals
         \/ FsckListsLeftovers
BY DEF Next, Removal, Transcoder

\* There is a number of recordings.
LEMMA CountType == Cardinality(Recordings) \in Nat
BY FilesAssumption, FS_CardinalityType

\* A step keeps the types of the rows.
LEMMA RowsTyped ==
  ASSUME RowTypes, ThreadTypes, Next
  PROVE  RowTypes'
<1>1. ASSUME NEW r \in Recordings, Receive(r)
      PROVE  RowTypes'
  BY <1>1 DEF RowTypes, Receive
<1>2. ASSUME NEW r \in Recordings, Store(r)
      PROVE  RowTypes'
  BY <1>2 DEF RowTypes, Store
<1>3. ASSUME NEW r \in Recordings, Insert(r)
      PROVE  RowTypes'
  BY <1>3, CountType DEF RowTypes, Insert, IsNextRow
<1>4. ASSUME NEW r \in Recordings, Abort(r)
      PROVE  RowTypes'
  BY <1>4 DEF RowTypes, Abort
<1>5. ASSUME NEW r \in Recordings, Probed(r) \/ Cancel(r) \/ Retry(r) \/ FsckLooksAt(r)
      PROVE  RowTypes'
  BY <1>5 DEF RowTypes, Probed, Cancel, Retry, FsckLooksAt, server, GoTo
<1>6. ASSUME NEW p \in Purgers, NEW rs \in SUBSET Recordings, Purge(p, rs)
      PROVE  RowTypes'
  BY <1>6, CountType DEF RowTypes, Purge
<1>7. ASSUME NEW p \in Removers, ListFiles(p) \/ RemoveFile(p) \/ RemoveDirectory(p) \/
  Refused(p)
      PROVE  RowTypes'
  BY <1>7 DEF RowTypes, ListFiles, RemoveFile, RemoveDirectory, Refused, server, GoTo
<1>8. ASSUME NEW t \in Threads, NEW r \in Recordings, Claim(t, r)
      PROVE  RowTypes'
  BY <1>8 DEF RowTypes, Claim
<1>9. ASSUME NEW t \in Threads, Record(t)
      PROVE  RowTypes'
  BY <1>9 DEF RowTypes, ThreadTypes, Record
<1>10. ASSUME NEW t \in Threads, Settle(t)
      PROVE  RowTypes'
  BY <1>10 DEF RowTypes, Settle
<1>11. ASSUME NEW t \in Threads, Locate(t) \/ MakeDirectory(t) \/ Open(t) \/ EncodeFails(t) \/
  Replace(t) \/ Tidy(t)
      PROVE  RowTypes'
  BY <1>11 DEF RowTypes, Locate, MakeDirectory, Open, EncodeFails, Replace, Tidy, server, GoTo
<1>12. ASSUME Crash
      PROVE  RowTypes'
  BY <1>12 DEF RowTypes, Crash
<1>13. ASSUME FsckBegins \/ FsckReadsRows \/ FsckListsOriginals \/ FsckListsLeftovers
      PROVE  RowTypes'
  BY <1>13 DEF RowTypes, FsckBegins, FsckReadsRows, FsckListsOriginals, FsckListsLeftovers,
    server, GoTo
<1> HIDE DEF RowTypes
<1> QED
  BY <1>1, <1>2, <1>3, <1>4, <1>5, <1>6, <1>7, <1>8, <1>9, <1>10, <1>11, <1>12, <1>13, NextCases

\* A step keeps the types of what is on disk.
LEMMA DiskTyped ==
  ASSUME DiskTypes, ThreadTypes, Next
  PROVE  DiskTypes'
<1>1. ASSUME NEW r \in Recordings, Receive(r)
      PROVE  DiskTypes'
  BY <1>1 DEF DiskTypes, Receive, Put, Names
<1>2. ASSUME NEW r \in Recordings, Store(r)
      PROVE  DiskTypes'
  BY <1>2 DEF DiskTypes, Store, Names
<1>3. ASSUME NEW r \in Recordings, Abort(r)
      PROVE  DiskTypes'
  BY <1>3 DEF DiskTypes, Abort, Unlink
<1>4. ASSUME NEW r \in Recordings, Insert(r) \/ Probed(r) \/ Cancel(r) \/ Retry(r) \/
  FsckLooksAt(r)
      PROVE  DiskTypes'
  BY <1>4 DEF DiskTypes, Insert, Probed, Cancel, Retry, FsckLooksAt, server, GoTo
<1>5. ASSUME NEW p \in Purgers, NEW rs \in SUBSET Recordings, Purge(p, rs)
      PROVE  DiskTypes'
  BY <1>5 DEF DiskTypes, Purge, server, GoTo
<1>6. ASSUME NEW p \in Removers, RemoveFile(p)
      PROVE  DiskTypes'
  BY <1>6 DEF DiskTypes, RemoveFile, Unlink
<1>7. ASSUME NEW p \in Removers, ListFiles(p) \/ RemoveDirectory(p) \/ Refused(p)
      PROVE  DiskTypes'
  BY <1>7 DEF DiskTypes, ListFiles, RemoveDirectory, Refused, server, GoTo
<1>8. ASSUME NEW t \in Threads, NEW r \in Recordings, Claim(t, r)
      PROVE  DiskTypes'
  BY <1>8 DEF DiskTypes, Claim, server, GoTo
<1>9. ASSUME NEW t \in Threads, MakeDirectory(t)
      PROVE  DiskTypes'
  BY <1>9 DEF DiskTypes, ThreadTypes, MakeDirectory, GoTo, Located
<1>10. ASSUME NEW t \in Threads, Open(t)
      PROVE  DiskTypes'
  BY <1>10 DEF DiskTypes, ThreadTypes, Open, Put, Names, GoTo, Located
<1>11. ASSUME NEW t \in Threads, Replace(t)
      PROVE  DiskTypes'
  BY <1>11 DEF DiskTypes, ThreadTypes, Replace, GoTo, Names, Located
<1>12. ASSUME NEW t \in Threads, Tidy(t)
      PROVE  DiskTypes'
  BY <1>12 DEF DiskTypes, Tidy, Unlink, GoTo
<1>13. ASSUME NEW t \in Threads, Locate(t) \/ EncodeFails(t) \/ Record(t) \/ Settle(t)
      PROVE  DiskTypes'
  BY <1>13 DEF DiskTypes, Locate, EncodeFails, Record, Settle, server, GoTo
<1>14. ASSUME Crash \/ FsckBegins \/ FsckReadsRows \/ FsckListsOriginals \/ FsckListsLeftovers
      PROVE  DiskTypes'
  BY <1>14 DEF DiskTypes, Crash, FsckBegins, FsckReadsRows, FsckListsOriginals,
    FsckListsLeftovers, server, GoTo
<1> HIDE DEF DiskTypes
<1> QED
  BY <1>1, <1>2, <1>3, <1>4, <1>5, <1>6, <1>7, <1>8, <1>9, <1>10, <1>11, <1>12, <1>13, <1>14,
    NextCases

\* A removal replaced by another of its type.
LEMMA RemoverSet ==
  ASSUME RemoverTypes, NEW p \in Removers, NEW v \in Removals, v.listed => v.todo # <<>>,
         remover' = [remover EXCEPT ![p] = v]
  PROVE  RemoverTypes'
BY DEF RemoverTypes

\* A removal with nothing to do is a removal.
LEMMA IdleTyped == Idle \in Removals /\ ~Idle.listed
BY DEF Idle, Removals

\* A thread that goes to a step keeps what it found.
LEMMA GoToTyped ==
  ASSUME ThreadTypes, NEW t \in Threads, NEW step \in Steps, GoTo(t, step),
         step \in Located => at[t].step \in Located
  PROVE  ThreadTypes'
BY DEF ThreadTypes, GoTo

\* A step keeps the types of what is to be removed.
LEMMA RemoversTyped ==
  ASSUME RemoverTypes, DiskTypes, Next
  PROVE  RemoverTypes'
<1>1. ASSUME NEW r \in Recordings, Abort(r)
      PROVE  RemoverTypes'
  <2>1. <<r>> \in Seq(Recordings) /\ r \in Removers
    BY DEF Removers
  <2>2. [Idle EXCEPT !.todo = <<r>>] \in Removals /\ ~[Idle EXCEPT !.todo = <<r>>].listed
    BY <2>1 DEF Idle, Removals
  <2> QED
    BY <1>1, <2>1, <2>2, RemoverSet DEF Abort
<1>2. ASSUME NEW r \in Recordings, Receive(r) \/ Store(r) \/ Insert(r) \/ Probed(r) \/ Cancel(r)
  \/ Retry(r) \/ FsckLooksAt(r)
      PROVE  RemoverTypes'
  BY <1>2 DEF RemoverTypes, Receive, Store, Insert, Probed, Cancel, Retry, FsckLooksAt, server,
    GoTo
<1>3. ASSUME NEW p \in Purgers, NEW rs \in SUBSET Recordings, Purge(p, rs)
      PROVE  RemoverTypes'
  <2>1. PICK todo \in SetToSeqs(rs) : remover' = [remover EXCEPT ![p].todo = todo]
    BY <1>3 DEF Purge
  <2>2. IsFiniteSet(rs)
    BY FilesAssumption, FS_Subset
  <2>3. todo \in Seq(Recordings) /\ p \in Removers
    BY <2>2, OrdersCover DEF Removers
  <2>4. [Idle EXCEPT !.todo = todo] \in Removals /\ ~[Idle EXCEPT !.todo = todo].listed
    BY <2>3 DEF Idle, Removals
  <2>5. remover' = [remover EXCEPT ![p] = [Idle EXCEPT !.todo = todo]]
    BY <1>3, <2>1, <2>3 DEF Purge, RemoverTypes
  <2> QED
    BY <2>3, <2>4, <2>5, RemoverSet
<1>4. ASSUME NEW p \in Removers, ListFiles(p)
      PROVE  RemoverTypes'
  <2>1. remover[p] \in Removals /\ remover[p].todo \in Seq(Recordings) /\ remover[p].todo # <<>>
    BY <1>4 DEF ListFiles, RemoverTypes, Removals
  <2>2. First(p) \in Recordings /\ Tail(remover[p].todo) \in Seq(Recordings)
    BY <2>1, HeadTailProperties DEF First
  <2>3. files[First(p)] \in SUBSET Names
    BY <2>2 DEF DiskTypes
  <2>4. /\ [remover[p] EXCEPT !.listed = TRUE, !.left = files[First(p)]] \in Removals
        /\ [remover[p] EXCEPT !.listed = TRUE, !.left = files[First(p)]].todo # <<>>
    BY <2>1, <2>3 DEF Removals
  <2>5. /\ [Idle EXCEPT !.todo = Tail(remover[p].todo)] \in Removals
        /\ ~[Idle EXCEPT !.todo = Tail(remover[p].todo)].listed
    BY <2>2 DEF Idle, Removals
  <2> QED
    BY <1>4, <2>4, <2>5, RemoverSet DEF ListFiles
<1>5. ASSUME NEW p \in Removers, RemoveFile(p)
      PROVE  RemoverTypes'
  BY <1>5 DEF RemoverTypes, Removals, RemoveFile
<1>6. ASSUME NEW p \in Removers, RemoveDirectory(p)
      PROVE  RemoverTypes'
  <2>1. remover[p].todo \in Seq(Recordings) /\ remover[p].todo # <<>>
    BY <1>6 DEF RemoverTypes, Removals, RemoveDirectory
  <2>2. Tail(remover[p].todo) \in Seq(Recordings)
    BY <2>1, HeadTailProperties
  <2>3. /\ [Idle EXCEPT !.todo = Tail(remover[p].todo)] \in Removals
        /\ ~[Idle EXCEPT !.todo = Tail(remover[p].todo)].listed
    BY <2>2 DEF Idle, Removals
  <2> QED
    BY <1>6, <2>3, RemoverSet DEF RemoveDirectory
<1>7. ASSUME NEW p \in Removers, Refused(p)
      PROVE  RemoverTypes'
  BY <1>7, IdleTyped, RemoverSet DEF Refused
<1>8. ASSUME NEW t \in Threads, NEW r \in Recordings, Claim(t, r)
      PROVE  RemoverTypes'
  BY <1>8 DEF RemoverTypes, Claim, server, GoTo
<1>9. ASSUME NEW t \in Threads, Locate(t) \/ MakeDirectory(t) \/ Open(t) \/ EncodeFails(t) \/
  Replace(t) \/ Tidy(t) \/ Record(t) \/ Settle(t)
      PROVE  RemoverTypes'
  BY <1>9 DEF RemoverTypes, Locate, MakeDirectory, Open, EncodeFails, Replace, Tidy, Record,
    Settle, server, GoTo
<1>10. ASSUME Crash
      PROVE  RemoverTypes'
  BY <1>10, IdleTyped DEF RemoverTypes, Crash
<1>11. ASSUME FsckBegins \/ FsckReadsRows \/ FsckListsOriginals \/ FsckListsLeftovers
      PROVE  RemoverTypes'
  BY <1>11 DEF RemoverTypes, FsckBegins, FsckReadsRows, FsckListsOriginals, FsckListsLeftovers,
    server, GoTo
<1> HIDE DEF RemoverTypes
<1> QED
  BY <1>1, <1>2, <1>3, <1>4, <1>5, <1>6, <1>7, <1>8, <1>9, <1>10, <1>11, NextCases

\* A step keeps the types of what the threads are at.
LEMMA ThreadsTyped ==
  ASSUME RowTypes, ThreadTypes, Next
  PROVE  ThreadTypes'
<1>1. ASSUME NEW r \in Recordings, Receive(r) \/ Store(r) \/ Insert(r) \/ Abort(r) \/ Probed(r)
  \/ Cancel(r) \/ Retry(r) \/ FsckLooksAt(r)
      PROVE  ThreadTypes'
  BY <1>1 DEF ThreadTypes, Receive, Store, Insert, Abort, Probed, Cancel, Retry, FsckLooksAt,
    server
<1>2. ASSUME NEW p \in Purgers, NEW rs \in SUBSET Recordings, Purge(p, rs)
      PROVE  ThreadTypes'
  BY <1>2 DEF ThreadTypes, Purge, server
<1>3. ASSUME NEW p \in Removers, ListFiles(p) \/ RemoveFile(p) \/ RemoveDirectory(p) \/
  Refused(p)
      PROVE  ThreadTypes'
  BY <1>3 DEF ThreadTypes, ListFiles, RemoveFile, RemoveDirectory, Refused, server
<1>4. ASSUME NEW t \in Threads, NEW r \in Recordings, Claim(t, r)
      PROVE  ThreadTypes'
  BY <1>4 DEF ThreadTypes, RowTypes, Claim, Steps, Located
<1>5. ASSUME NEW t \in Threads, Locate(t)
      PROVE  ThreadTypes'
  <2>1. CASE GoTo(t, "raised")
    BY <2>1, GoToTyped DEF Steps, Located
  <2>2. CASE \E r \in Recordings : at' = [at EXCEPT ![t] = [@ EXCEPT !.step = "mkdir", !.about = r]]
    <3>1. PICK r \in Recordings : at' = [at EXCEPT ![t] = [at[t] EXCEPT !.step = "mkdir", !.about = r]]
      BY <2>2
    <3> QED
      BY <3>1 DEF ThreadTypes, Steps, Located
  <2> QED
    BY <1>5, <2>1, <2>2 DEF Locate
<1>6. ASSUME NEW t \in Threads, MakeDirectory(t)
      PROVE  ThreadTypes'
  BY <1>6, GoToTyped DEF MakeDirectory, Steps, Located
<1>7. ASSUME NEW t \in Threads, Open(t)
      PROVE  ThreadTypes'
  BY <1>7, GoToTyped DEF Open, Steps, Located
<1>8. ASSUME NEW t \in Threads, EncodeFails(t)
      PROVE  ThreadTypes'
  BY <1>8, GoToTyped DEF EncodeFails, Steps, Located
<1>9. ASSUME NEW t \in Threads, Replace(t)
      PROVE  ThreadTypes'
  BY <1>9, GoToTyped DEF Replace, Steps, Located
<1>10. ASSUME NEW t \in Threads, Tidy(t)
      PROVE  ThreadTypes'
  BY <1>10, GoToTyped DEF Tidy, Steps, Located
<1>11. ASSUME NEW t \in Threads, Record(t)
      PROVE  ThreadTypes'
  BY <1>11, GoToTyped DEF Record, Steps, Located
<1>12. ASSUME NEW t \in Threads, Settle(t)
      PROVE  ThreadTypes'
  BY <1>12, CountType DEF ThreadTypes, Settle, Home, Steps, Located
<1>13. ASSUME Crash
      PROVE  ThreadTypes'
  BY <1>13, CountType DEF ThreadTypes, Crash, Home, Steps, Located
<1>14. ASSUME FsckBegins \/ FsckReadsRows \/ FsckListsOriginals \/ FsckListsLeftovers
      PROVE  ThreadTypes'
  BY <1>14 DEF ThreadTypes, FsckBegins, FsckReadsRows, FsckListsOriginals, FsckListsLeftovers,
    server
<1> HIDE DEF ThreadTypes
<1> QED
  BY <1>1, <1>2, <1>3, <1>4, <1>5, <1>6, <1>7, <1>8, <1>9, <1>10, <1>11, <1>12, <1>13, <1>14,
    NextCases

\* A step keeps the types of fsck and of the history.
LEMMA CheckTyped ==
  ASSUME RemoverTypes, ThreadTypes, CheckTypes, Next
  PROVE  CheckTypes'
<1>1. ASSUME NEW r \in Recordings, Retry(r)
      PROVE  CheckTypes'
  BY <1>1, FilesAssumption DEF CheckTypes, Retry
<1>2. ASSUME NEW r \in Recordings, FsckLooksAt(r)
      PROVE  CheckTypes'
  BY <1>2 DEF CheckTypes, FsckLooksAt
<1>3. ASSUME NEW r \in Recordings, Receive(r) \/ Store(r) \/ Insert(r) \/ Abort(r) \/ Probed(r)
  \/ Cancel(r)
      PROVE  CheckTypes'
  BY <1>3 DEF CheckTypes, Receive, Store, Insert, Abort, Probed, Cancel, GoTo
<1>4. ASSUME NEW p \in Purgers, NEW rs \in SUBSET Recordings, Purge(p, rs)
      PROVE  CheckTypes'
  BY <1>4 DEF CheckTypes, Purge, GoTo
<1>5. ASSUME NEW p \in Removers, Refused(p)
      PROVE  CheckTypes'
  BY <1>5 DEF CheckTypes, RemoverTypes, Removals, Refused
<1>6. ASSUME NEW p \in Removers, ListFiles(p) \/ RemoveFile(p) \/ RemoveDirectory(p)
      PROVE  CheckTypes'
  BY <1>6 DEF CheckTypes, ListFiles, RemoveFile, RemoveDirectory, GoTo
<1>7. ASSUME NEW t \in Threads, NEW r \in Recordings, Claim(t, r)
      PROVE  CheckTypes'
  BY <1>7 DEF CheckTypes, Claim, GoTo
<1>8. ASSUME NEW t \in Threads, Locate(t) \/ MakeDirectory(t) \/ Open(t) \/ EncodeFails(t) \/
  Replace(t) \/ Tidy(t) \/ Record(t) \/ Settle(t)
      PROVE  CheckTypes'
  BY <1>8 DEF CheckTypes, Locate, MakeDirectory, Open, EncodeFails, Replace, Tidy, Record,
    Settle, GoTo
<1>9. ASSUME Crash
      PROVE  CheckTypes'
  BY <1>9, FilesAssumption DEF CheckTypes, RemoverTypes, Removals, ThreadTypes, Crash
<1>10. ASSUME FsckBegins
      PROVE  CheckTypes'
  BY <1>10 DEF CheckTypes, FsckBegins
<1>11. ASSUME FsckReadsRows
      PROVE  CheckTypes'
  BY <1>11 DEF CheckTypes, FsckReadsRows
<1>12. ASSUME FsckListsOriginals
      PROVE  CheckTypes'
  BY <1>12 DEF CheckTypes, FsckListsOriginals
<1>13. ASSUME FsckListsLeftovers
      PROVE  CheckTypes'
  BY <1>13 DEF CheckTypes, FsckListsLeftovers, Unchecked
<1> HIDE DEF CheckTypes
<1> QED
  BY <1>1, <1>2, <1>3, <1>4, <1>5, <1>6, <1>7, <1>8, <1>9, <1>10, <1>11, <1>12, <1>13, NextCases

\* Type correctness.
THEOREM TypeCorrect == Spec => []TypeOK
<1>1. Init => TypeOK
  <2> SUFFICES ASSUME Init PROVE TypeOK
    OBVIOUS
  <2>1. RowTypes /\ DiskTypes
    BY CountType DEF Init, RowTypes, DiskTypes
  <2>2. RemoverTypes /\ ThreadTypes
    BY CountType, IdleTyped DEF Init, RemoverTypes, ThreadTypes, Home, Steps, Located
  <2>3. CheckTypes
    BY FilesAssumption DEF Init, CheckTypes, Unchecked
  <2> QED
    BY <2>1, <2>2, <2>3 DEF TypeOK
<1>2. TypeOK /\ [Next]_vars => TypeOK'
  <2>1. TypeOK /\ Next => TypeOK'
    BY FilesAssumption, RowsTyped, DiskTyped, RemoversTyped, ThreadsTyped, CheckTyped DEF TypeOK
  <2>2. TypeOK /\ UNCHANGED vars => TypeOK'
    BY DEF TypeOK, RowTypes, DiskTypes, RemoverTypes, ThreadTypes, CheckTypes, vars, server
  <2> QED
    BY <2>1, <2>2
<1> QED
  BY <1>1, <1>2, PTL DEF Spec

-----------------------------------------------------------------------------
(* Files and rows *)

\* It holds at the start.
LEMMA InvariantInit == Init => FilesInv
<1> SUFFICES ASSUME Init PROVE FilesInv
  OBVIOUS
<1>1. \A p \in Removers : Range(remover[p].todo) = {}
  BY DEF Init, Idle, Range
<1>2. UploadComesFirst /\ RemovedHaveNoRow
  BY <1>1 DEF Init, UploadComesFirst, RemovedHaveNoRow, HasRow, Removers
<1>3. ThreadsFollow
  BY DEF Init, ThreadsFollow, HasRow, Home, Located
<1>4. RowHasOriginal /\ DerivativeIsThere /\ StraysHaveACause
  BY DEF Init, RowHasOriginal, DerivativeIsThere, StraysHaveACause, HasRow
<1> QED
  BY <1>2, <1>3, <1>4 DEF FilesInv

\* What is being removed is among what there is to remove.
LEMMA FirstIsOfIt ==
  ASSUME RemoverTypes, NEW p \in Removers, remover[p].listed \/ remover[p].todo # <<>>
  PROVE  First(p) \in Range(remover[p].todo) /\ First(p) \in Recordings /\ remover[p] # Idle
<1>1. remover[p].todo \in Seq(Recordings) /\ remover[p].todo # <<>>
  BY DEF RemoverTypes, Removals
<1>2. First(p) \in Range(remover[p].todo) /\ First(p) \in Recordings
  BY <1>1, TailCovers, HeadTailProperties DEF First
<1> QED
  BY <1>1, <1>2 DEF Idle

\* An upload comes first, and goes on coming first.
LEMMA UploadFirst ==
  ASSUME TypeOK, UploadComesFirst, RemovedHaveNoRow, ThreadsFollow, Next
  PROVE  UploadComesFirst'
<1>1. ASSUME NEW r \in Recordings, Receive(r)
      PROVE  UploadComesFirst'
  BY <1>1 DEF TypeOK, RowTypes, DiskTypes, RemoverTypes, UploadComesFirst, HasRow, Put, Unlink,
    IsNextRow, Removers, Idle, Receive, STAGING, UPLOADING, DERIVED, ORIGINAL
<1>2. ASSUME NEW r \in Recordings, Store(r)
      PROVE  UploadComesFirst'
  <2>1. /\ uploader' = [uploader EXCEPT ![r] = "stored"] /\ ORIGINAL \in files'[r]
        /\ \A s \in Recordings : s # r => files'[s] = files[s]
        /\ r \in dirs
    BY <1>2 DEF TypeOK, DiskTypes, UploadComesFirst, Store, HasRow
  <2> QED
    BY <1>2, <2>1 DEF TypeOK, RowTypes, UploadComesFirst, HasRow, Store
<1>3. ASSUME NEW r \in Recordings, Insert(r)
      PROVE  UploadComesFirst'
  BY <1>3 DEF TypeOK, RowTypes, DiskTypes, RemoverTypes, UploadComesFirst, HasRow, Put, Unlink,
    IsNextRow, Removers, Idle, Insert, STAGING, UPLOADING, DERIVED, ORIGINAL
<1>4. ASSUME NEW r \in Recordings, Abort(r)
      PROVE  UploadComesFirst'
  BY <1>4 DEF TypeOK, RowTypes, DiskTypes, RemoverTypes, UploadComesFirst, HasRow, Put, Unlink,
    IsNextRow, Removers, Idle, Abort, STAGING, UPLOADING, DERIVED, ORIGINAL
<1>5. ASSUME NEW r \in Recordings, Probed(r)
      PROVE  UploadComesFirst'
  BY <1>5 DEF TypeOK, RowTypes, DiskTypes, RemoverTypes, UploadComesFirst, HasRow, Put, Unlink,
    IsNextRow, Removers, Idle, Probed, STAGING, UPLOADING, DERIVED, ORIGINAL
<1>6. ASSUME NEW r \in Recordings, Cancel(r)
      PROVE  UploadComesFirst'
  BY <1>6 DEF TypeOK, RowTypes, DiskTypes, RemoverTypes, UploadComesFirst, HasRow, Put, Unlink,
    IsNextRow, Removers, Idle, Cancel, STAGING, UPLOADING, DERIVED, ORIGINAL
<1>7. ASSUME NEW r \in Recordings, Retry(r)
      PROVE  UploadComesFirst'
  BY <1>7 DEF TypeOK, RowTypes, DiskTypes, RemoverTypes, UploadComesFirst, HasRow, Put, Unlink,
    IsNextRow, Removers, Idle, Retry, STAGING, UPLOADING, DERIVED, ORIGINAL
<1>8. ASSUME NEW r \in Recordings, FsckLooksAt(r)
      PROVE  UploadComesFirst'
  BY <1>8 DEF UploadComesFirst, FsckLooksAt, server, GoTo, HasRow
<1>9. ASSUME NEW p \in Purgers, NEW rs \in SUBSET Recordings, Purge(p, rs)
      PROVE  UploadComesFirst'
  BY <1>9, FilesAssumption DEF TypeOK, RowTypes, RemoverTypes, UploadComesFirst, HasRow,
    Removers, Purge
<1>10. ASSUME NEW p \in Removers, ListFiles(p)
      PROVE  UploadComesFirst'
  BY <1>10, FirstIsOfIt DEF TypeOK, UploadComesFirst, RemovedHaveNoRow, HasRow, DiskTypes,
    RemoverTypes, Unlink, ListFiles, STAGING, UPLOADING, DERIVED, ORIGINAL
<1>11. ASSUME NEW p \in Removers, RemoveFile(p)
      PROVE  UploadComesFirst'
  BY <1>11, FirstIsOfIt DEF TypeOK, UploadComesFirst, RemovedHaveNoRow, HasRow, DiskTypes,
    RemoverTypes, Unlink, RemoveFile, STAGING, UPLOADING, DERIVED, ORIGINAL
<1>12. ASSUME NEW p \in Removers, RemoveDirectory(p)
      PROVE  UploadComesFirst'
  BY <1>12, FirstIsOfIt DEF TypeOK, UploadComesFirst, RemovedHaveNoRow, HasRow, DiskTypes,
    RemoverTypes, Unlink, RemoveDirectory, STAGING, UPLOADING, DERIVED, ORIGINAL
<1>13. ASSUME NEW p \in Removers, Refused(p)
      PROVE  UploadComesFirst'
  BY <1>13, FirstIsOfIt DEF TypeOK, UploadComesFirst, RemovedHaveNoRow, HasRow, DiskTypes,
    RemoverTypes, Unlink, Refused, STAGING, UPLOADING, DERIVED, ORIGINAL
<1>14. ASSUME NEW t \in Threads, NEW r \in Recordings, Claim(t, r)
      PROVE  UploadComesFirst'
  BY <1>14 DEF TypeOK, RowTypes, UploadComesFirst, HasRow, Claim
<1>15. ASSUME NEW t \in Threads, MakeDirectory(t)
      PROVE  UploadComesFirst'
  BY <1>15 DEF TypeOK, RowTypes, DiskTypes, ThreadTypes, UploadComesFirst, ThreadsFollow,
    HasRow, Located, GoTo, Put, Unlink, MakeDirectory, STAGING, UPLOADING, DERIVED, ORIGINAL
<1>16. ASSUME NEW t \in Threads, Open(t)
      PROVE  UploadComesFirst'
  BY <1>16 DEF TypeOK, RowTypes, DiskTypes, ThreadTypes, UploadComesFirst, ThreadsFollow,
    HasRow, Located, GoTo, Put, Unlink, Open, STAGING, UPLOADING, DERIVED, ORIGINAL
<1>17. ASSUME NEW t \in Threads, Replace(t)
      PROVE  UploadComesFirst'
  BY <1>17 DEF TypeOK, RowTypes, DiskTypes, ThreadTypes, UploadComesFirst, ThreadsFollow,
    HasRow, Located, GoTo, Put, Unlink, Replace, STAGING, UPLOADING, DERIVED, ORIGINAL
<1>18. ASSUME NEW t \in Threads, Tidy(t)
      PROVE  UploadComesFirst'
  BY <1>18 DEF TypeOK, RowTypes, DiskTypes, ThreadTypes, UploadComesFirst, ThreadsFollow,
    HasRow, Located, GoTo, Put, Unlink, Tidy, STAGING, UPLOADING, DERIVED, ORIGINAL
<1>19. ASSUME NEW t \in Threads, Record(t)
      PROVE  UploadComesFirst'
  BY <1>19 DEF TypeOK, RowTypes, DiskTypes, ThreadTypes, UploadComesFirst, ThreadsFollow,
    HasRow, Located, GoTo, Put, Unlink, Record, STAGING, UPLOADING, DERIVED, ORIGINAL
<1>20. ASSUME NEW t \in Threads, Settle(t)
      PROVE  UploadComesFirst'
  BY <1>20 DEF TypeOK, RowTypes, DiskTypes, ThreadTypes, UploadComesFirst, ThreadsFollow,
    HasRow, Located, GoTo, Put, Unlink, Settle, STAGING, UPLOADING, DERIVED, ORIGINAL
<1>21. ASSUME NEW t \in Threads, Locate(t) \/ EncodeFails(t)
      PROVE  UploadComesFirst'
  BY <1>21 DEF UploadComesFirst, Locate, EncodeFails, server, GoTo, HasRow
<1>22. ASSUME Crash
      PROVE  UploadComesFirst'
  BY <1>22 DEF TypeOK, RowTypes, RemoverTypes, UploadComesFirst, HasRow, Removers, Crash
<1>23. ASSUME FsckBegins \/ FsckReadsRows \/ FsckListsOriginals \/ FsckListsLeftovers
      PROVE  UploadComesFirst'
  BY <1>23 DEF UploadComesFirst, FsckBegins, FsckReadsRows, FsckListsOriginals,
    FsckListsLeftovers, server, GoTo, HasRow
<1> HIDE DEF UploadComesFirst
<1> QED
  BY <1>1, <1>2, <1>3, <1>4, <1>5, <1>6, <1>7, <1>8, <1>9, <1>10, <1>11, <1>12, <1>13, <1>14,
    <1>15, <1>16, <1>17, <1>18, <1>19, <1>20, <1>21, <1>22, <1>23, NextCases

\* A purge takes on exactly the recordings whose rows it deletes.
LEMMA PurgeTakesThem ==
  ASSUME RemoverTypes, NEW p \in Purgers, NEW rs \in SUBSET Recordings, Purge(p, rs)
  PROVE  /\ Range(remover'[p].todo) = rs
         /\ \A q \in Removers : q # p => remover'[q] = remover[q]
<1>1. PICK todo \in SetToSeqs(rs) : remover' = [remover EXCEPT ![p].todo = todo]
  BY DEF Purge
<1>2. Range(todo) = rs
  BY FilesAssumption, FS_Subset, OrdersCover
<1>3. remover'[p].todo = todo /\ \A q \in Removers : q # p => remover'[q] = remover[q]
  BY <1>1 DEF RemoverTypes, Removals, Removers
<1> QED
  BY <1>2, <1>3

\* A failed upload takes on its own recording.
LEMMA AbortTakesOne ==
  ASSUME RemoverTypes, NEW r \in Recordings, Abort(r)
  PROVE  /\ Range(remover'[r].todo) = {r}
         /\ \A q \in Removers : q # r => remover'[q] = remover[q]
<1>1. remover'[r].todo = <<r>> /\ \A q \in Removers : q # r => remover'[q] = remover[q]
  BY DEF Abort, RemoverTypes, Removers, Idle
<1>2. Range(<<r>>) = {r}
  BY DEF Range
<1> QED
  BY <1>1, <1>2

\* Removing takes nothing more on.
LEMMA RemovalShrinks ==
  ASSUME RemoverTypes, NEW p \in Removers,
         ListFiles(p) \/ RemoveFile(p) \/ RemoveDirectory(p) \/ Refused(p)
  PROVE  /\ Range(remover'[p].todo) \subseteq Range(remover[p].todo)
         /\ \A q \in Removers : q # p => remover'[q] = remover[q]
<1>1. \A q \in Removers : q # p => remover'[q] = remover[q]
  BY DEF ListFiles, RemoveFile, RemoveDirectory, Refused, RemoverTypes
<1>2. remover[p].todo \in Seq(Recordings) /\ remover[p].todo # <<>>
  BY DEF RemoverTypes, Removals, ListFiles, RemoveFile, RemoveDirectory, Refused
<1>3. \/ remover'[p].todo = remover[p].todo
      \/ remover'[p].todo = Tail(remover[p].todo)
      \/ remover'[p].todo = <<>>
  <2> remover[p] \in Removals
    BY DEF RemoverTypes
  <2>1. CASE ListFiles(p)
    BY <2>1 DEF ListFiles, RemoverTypes, Removals, Idle
  <2>2. CASE RemoveFile(p)
    BY <2>2 DEF RemoveFile, RemoverTypes, Removals
  <2>3. CASE RemoveDirectory(p)
    BY <2>3 DEF RemoveDirectory, RemoverTypes, Removals, Idle
  <2>4. CASE Refused(p)
    BY <2>4 DEF Refused, RemoverTypes, Removals, Idle
  <2> QED
    BY <2>1, <2>2, <2>3, <2>4
<1>4. Range(<<>>) = {}
  BY DEF Range
<1> QED
  BY <1>1, <1>2, <1>3, <1>4, TailCovers

\* What is being removed has no row and gets none.
LEMMA RemovedStayGone ==
  ASSUME TypeOK, UploadComesFirst, RemovedHaveNoRow, Next
  PROVE  RemovedHaveNoRow'
<1>1. ASSUME NEW r \in Recordings, Receive(r)
      PROVE  RemovedHaveNoRow'
  BY <1>1 DEF TypeOK, RowTypes, RemovedHaveNoRow, HasRow, Receive
<1>2. ASSUME NEW r \in Recordings, Store(r)
      PROVE  RemovedHaveNoRow'
  BY <1>2 DEF TypeOK, RowTypes, RemovedHaveNoRow, HasRow, Store
<1>3. ASSUME NEW r \in Recordings, Insert(r)
      PROVE  RemovedHaveNoRow'
  BY <1>3 DEF TypeOK, RowTypes, RemovedHaveNoRow, HasRow, Insert
<1>4. ASSUME NEW r \in Recordings, Abort(r)
      PROVE  RemovedHaveNoRow'
  <2>1. /\ Range(remover'[r].todo) = {r}
        /\ \A q \in Removers : q # r => remover'[q] = remover[q]
    BY <1>4, AbortTakesOne DEF TypeOK
  <2>2. ~HasRow(r) /\ row' = row
    BY <1>4 DEF UploadComesFirst, Abort
  <2>3. uploader' = [uploader EXCEPT ![r] = "over"]
    BY <1>4 DEF Abort
  <2> QED
    BY <2>1, <2>2, <2>3 DEF TypeOK, RowTypes, RemovedHaveNoRow, HasRow
<1>5. ASSUME NEW r \in Recordings, Probed(r) \/ Cancel(r) \/ Retry(r) \/ FsckLooksAt(r)
      PROVE  RemovedHaveNoRow'
  BY <1>5 DEF RemovedHaveNoRow, Probed, Cancel, Retry, FsckLooksAt, server, GoTo, HasRow
<1>6. ASSUME NEW p \in Purgers, NEW rs \in SUBSET Recordings, Purge(p, rs)
      PROVE  RemovedHaveNoRow'
  <2>1. /\ Range(remover'[p].todo) = rs
        /\ \A q \in Removers : q # p => remover'[q] = remover[q]
    BY <1>6, PurgeTakesThem DEF TypeOK
  <2>2. \A r \in Recordings : ~HasRow(r) \/ r \in rs => row'[r] = 0
    BY <1>6 DEF Purge, HasRow
  <2>3. uploader' = uploader /\ \A r \in rs : uploader[r] = "over"
    BY <1>6 DEF Purge, UploadComesFirst
  <2>4. \A q \in Removers : Range(remover[q].todo) \in SUBSET Recordings
    BY DEF TypeOK, RemoverTypes, Removals, Range
  <2> QED
    BY <2>1, <2>2, <2>3, <2>4 DEF RemovedHaveNoRow, HasRow
<1>7. ASSUME NEW p \in Removers, ListFiles(p)
      PROVE  RemovedHaveNoRow'
  BY <1>7, RemovalShrinks DEF TypeOK, RemovedHaveNoRow, HasRow, ListFiles
<1>8. ASSUME NEW p \in Removers, RemoveFile(p)
      PROVE  RemovedHaveNoRow'
  BY <1>8, RemovalShrinks DEF TypeOK, RemovedHaveNoRow, HasRow, RemoveFile
<1>9. ASSUME NEW p \in Removers, RemoveDirectory(p)
      PROVE  RemovedHaveNoRow'
  BY <1>9, RemovalShrinks DEF TypeOK, RemovedHaveNoRow, HasRow, RemoveDirectory
<1>10. ASSUME NEW p \in Removers, Refused(p)
      PROVE  RemovedHaveNoRow'
  BY <1>10, RemovalShrinks DEF TypeOK, RemovedHaveNoRow, HasRow, Refused
<1>11. ASSUME NEW t \in Threads, NEW r \in Recordings, Claim(t, r)
      PROVE  RemovedHaveNoRow'
  BY <1>11 DEF RemovedHaveNoRow, Claim, server, GoTo, HasRow
<1>12. ASSUME NEW t \in Threads, Locate(t) \/ MakeDirectory(t) \/ Open(t) \/ EncodeFails(t) \/
  Replace(t) \/ Tidy(t) \/ Record(t) \/ Settle(t)
      PROVE  RemovedHaveNoRow'
  BY <1>12 DEF RemovedHaveNoRow, Locate, MakeDirectory, Open, EncodeFails, Replace, Tidy,
    Record, Settle, server, GoTo, HasRow
<1>13. ASSUME Crash
      PROVE  RemovedHaveNoRow'
  <2>1. \A p \in Removers : Range(remover'[p].todo) = {}
    BY <1>13 DEF Crash, Idle, Range
  <2> QED
    BY <2>1 DEF RemovedHaveNoRow
<1>14. ASSUME FsckBegins \/ FsckReadsRows \/ FsckListsOriginals \/ FsckListsLeftovers
      PROVE  RemovedHaveNoRow'
  BY <1>14 DEF RemovedHaveNoRow, FsckBegins, FsckReadsRows, FsckListsOriginals,
    FsckListsLeftovers, server, GoTo, HasRow
<1> HIDE DEF RemovedHaveNoRow
<1> QED
  BY <1>1, <1>2, <1>3, <1>4, <1>5, <1>6, <1>7, <1>8, <1>9, <1>10, <1>11, <1>12, <1>13, <1>14,
    NextCases

\* A thread keeps to an uploaded recording, and its derivative outlasts the row.
LEMMA ThreadsGoOnFollowing ==
  ASSUME TypeOK, UploadComesFirst, RemovedHaveNoRow, ThreadsFollow, Next
  PROVE  ThreadsFollow'
<1>1. ASSUME NEW r \in Recordings, Receive(r)
      PROVE  ThreadsFollow'
  BY <1>1 DEF TypeOK, RowTypes, DiskTypes, ThreadTypes, Located, ThreadsFollow, HasRow, Put,
    Receive
<1>2. ASSUME NEW r \in Recordings, Store(r)
      PROVE  ThreadsFollow'
  BY <1>2 DEF TypeOK, RowTypes, ThreadTypes, DiskTypes, Located, ThreadsFollow, HasRow, Store,
    STAGING, UPLOADING, DERIVED, ORIGINAL
<1>3. ASSUME NEW r \in Recordings, Insert(r)
      PROVE  ThreadsFollow'
  BY <1>3 DEF TypeOK, RowTypes, ThreadTypes, UploadComesFirst, Located, ThreadsFollow, HasRow,
    Insert
<1>4. ASSUME NEW r \in Recordings, Abort(r)
      PROVE  ThreadsFollow'
  BY <1>4 DEF TypeOK, RowTypes, ThreadTypes, DiskTypes, Located, ThreadsFollow, HasRow, Unlink,
    Abort, STAGING, UPLOADING, DERIVED, ORIGINAL
<1>5. ASSUME NEW r \in Recordings, Probed(r) \/ Cancel(r) \/ Retry(r) \/ FsckLooksAt(r)
      PROVE  ThreadsFollow'
  BY <1>5 DEF ThreadsFollow, Probed, Cancel, Retry, FsckLooksAt, server, GoTo, HasRow
<1>6. ASSUME NEW p \in Purgers, NEW rs \in SUBSET Recordings, Purge(p, rs)
      PROVE  ThreadsFollow'
  BY <1>6 DEF TypeOK, RowTypes, ThreadTypes, Located, ThreadsFollow, HasRow, Purge
<1>7. ASSUME NEW p \in Removers, RemoveFile(p)
      PROVE  ThreadsFollow'
  BY <1>7, FirstIsOfIt DEF TypeOK, ThreadTypes, DiskTypes, Located, RemovedHaveNoRow,
    ThreadsFollow, HasRow, Unlink, RemoveFile
<1>8. ASSUME NEW p \in Removers, ListFiles(p) \/ RemoveDirectory(p) \/ Refused(p)
      PROVE  ThreadsFollow'
  BY <1>8 DEF ThreadsFollow, ListFiles, RemoveDirectory, Refused, server, GoTo, HasRow
<1>9. ASSUME NEW t \in Threads, NEW r \in Recordings, Claim(t, r)
      PROVE  ThreadsFollow'
  BY <1>9 DEF TypeOK, RowTypes, ThreadTypes, UploadComesFirst, ThreadsFollow, HasRow, Located,
    Claim
<1>10. ASSUME NEW t \in Threads, Locate(t)
      PROVE  ThreadsFollow'
  <2>1. CASE GoTo(t, "raised")
    BY <1>10, <2>1 DEF TypeOK, ThreadTypes, ThreadsFollow, HasRow, Located, GoTo, Locate
  <2>2. CASE \E r \in Recordings :
               /\ row[r] = at[t].row
               /\ at' = [at EXCEPT ![t] = [@ EXCEPT !.step = "mkdir", !.about = r]]
    <3>1. PICK r \in Recordings :
             /\ row[r] = at[t].row
             /\ at' = [at EXCEPT ![t] = [at[t] EXCEPT !.step = "mkdir", !.about = r]]
      BY <2>2
    <3>2. uploader[r] = "over"
      BY <1>10, <3>1 DEF Locate, ThreadsFollow, UploadComesFirst, HasRow
    <3>3. UNCHANGED <<row, files, uploader>>
      BY <1>10 DEF Locate
    <3>4. /\ at'[t].step = "mkdir" /\ at'[t].about = r /\ at'[t].row = at[t].row
          /\ \A u \in Threads : u # t => at'[u] = at[u]
      BY <3>1 DEF TypeOK, ThreadTypes
    <3> QED
      BY <1>10, <3>2, <3>3, <3>4 DEF Locate, ThreadsFollow, HasRow
  <2> QED
    BY <1>10, <2>1, <2>2 DEF Locate
<1>11. ASSUME NEW t \in Threads, MakeDirectory(t)
      PROVE  ThreadsFollow'
  BY <1>11 DEF TypeOK, RowTypes, ThreadTypes, DiskTypes, UploadComesFirst, ThreadsFollow,
    HasRow, Located, GoTo, Put, Unlink, MakeDirectory, STAGING, UPLOADING, DERIVED, ORIGINAL
<1>12. ASSUME NEW t \in Threads, Open(t)
      PROVE  ThreadsFollow'
  <2>1. PICK step \in {"encode", "failed"} : GoTo(t, step)
    BY <1>12 DEF Open
  <2>2. /\ UNCHANGED <<row, uploader>>
        /\ \A r \in Recordings : DERIVED \in files[r] => DERIVED \in files'[r]
    BY <1>12 DEF Open, Put, TypeOK, DiskTypes
  <2> QED
    BY <1>12, <2>1, <2>2 DEF Open, TypeOK, ThreadTypes, ThreadsFollow, HasRow, Located, GoTo
<1>13. ASSUME NEW t \in Threads, EncodeFails(t)
      PROVE  ThreadsFollow'
  BY <1>13 DEF TypeOK, RowTypes, ThreadTypes, DiskTypes, UploadComesFirst, ThreadsFollow,
    HasRow, Located, GoTo, Put, Unlink, EncodeFails, STAGING, UPLOADING, DERIVED, ORIGINAL
<1>14. ASSUME NEW t \in Threads, Replace(t)
      PROVE  ThreadsFollow'
  <2> at[t].about \in Recordings
    BY <1>14 DEF Replace, TypeOK, ThreadTypes, Located
  <2>1. \/ GoTo(t, "failed")
        \/ GoTo(t, "replaced") /\ DERIVED \in files'[at[t].about]
    BY <1>14 DEF Replace, TypeOK, DiskTypes
  <2>2. /\ UNCHANGED <<row, uploader>>
        /\ \A r \in Recordings : DERIVED \in files[r] => DERIVED \in files'[r]
    BY <1>14 DEF Replace, TypeOK, DiskTypes, STAGING, DERIVED
  <2> QED
    BY <1>14, <2>1, <2>2 DEF Replace, TypeOK, ThreadTypes, ThreadsFollow, HasRow, Located, GoTo
<1>15. ASSUME NEW t \in Threads, Tidy(t)
      PROVE  ThreadsFollow'
  BY <1>15 DEF TypeOK, RowTypes, ThreadTypes, DiskTypes, UploadComesFirst, ThreadsFollow,
    HasRow, Located, GoTo, Put, Unlink, Tidy, STAGING, UPLOADING, DERIVED, ORIGINAL
<1>16. ASSUME NEW t \in Threads, Record(t)
      PROVE  ThreadsFollow'
  <2>1. PICK step \in {"returned", "raised"} : GoTo(t, step)
    BY <1>16 DEF Record
  <2>2. UNCHANGED <<row, uploader, files>>
    BY <1>16 DEF Record
  <2> QED
    BY <1>16, <2>1, <2>2 DEF Record, TypeOK, ThreadTypes, ThreadsFollow, HasRow, Located, GoTo
<1>17. ASSUME NEW t \in Threads, Settle(t)
      PROVE  ThreadsFollow'
  BY <1>17 DEF TypeOK, ThreadTypes, ThreadsFollow, HasRow, Located, Home, Settle
<1>18. ASSUME Crash
      PROVE  ThreadsFollow'
  BY <1>18 DEF ThreadsFollow, HasRow, Located, Home, Crash
<1>19. ASSUME FsckBegins \/ FsckReadsRows \/ FsckListsOriginals \/ FsckListsLeftovers
      PROVE  ThreadsFollow'
  BY <1>19 DEF ThreadsFollow, FsckBegins, FsckReadsRows, FsckListsOriginals, FsckListsLeftovers,
    server, GoTo, HasRow
<1> HIDE DEF ThreadsFollow
<1> QED
  BY <1>1, <1>2, <1>3, <1>4, <1>5, <1>6, <1>7, <1>8, <1>9, <1>10, <1>11, <1>12, <1>13, <1>14,
    <1>15, <1>16, <1>17, <1>18, <1>19, NextCases

\* A row's original stays.
LEMMA OriginalStays ==
  ASSUME TypeOK, UploadComesFirst, RemovedHaveNoRow, RowHasOriginal, Next
  PROVE  RowHasOriginal'
<1>1. ASSUME NEW r \in Recordings, Receive(r)
      PROVE  RowHasOriginal'
  BY <1>1 DEF TypeOK, RowTypes, DiskTypes, ThreadTypes, Located, HasRow, GoTo, Put, Unlink,
    UploadComesFirst, RowHasOriginal, Receive, STAGING, UPLOADING, DERIVED, ORIGINAL
<1>2. ASSUME NEW r \in Recordings, Store(r)
      PROVE  RowHasOriginal'
  BY <1>2 DEF TypeOK, RowTypes, DiskTypes, ThreadTypes, Located, HasRow, GoTo, Put, Unlink,
    UploadComesFirst, RowHasOriginal, Store, STAGING, UPLOADING, DERIVED, ORIGINAL
<1>3. ASSUME NEW r \in Recordings, Insert(r)
      PROVE  RowHasOriginal'
  BY <1>3 DEF TypeOK, RowTypes, DiskTypes, ThreadTypes, Located, HasRow, GoTo, Put, Unlink,
    UploadComesFirst, RowHasOriginal, Insert, STAGING, UPLOADING, DERIVED, ORIGINAL
<1>4. ASSUME NEW r \in Recordings, Abort(r)
      PROVE  RowHasOriginal'
  BY <1>4 DEF TypeOK, RowTypes, DiskTypes, ThreadTypes, Located, HasRow, GoTo, Put, Unlink,
    UploadComesFirst, RowHasOriginal, Abort, STAGING, UPLOADING, DERIVED, ORIGINAL
<1>5. ASSUME NEW r \in Recordings, Probed(r) \/ Cancel(r) \/ Retry(r) \/ FsckLooksAt(r)
      PROVE  RowHasOriginal'
  BY <1>5 DEF RowHasOriginal, Probed, Cancel, Retry, FsckLooksAt, server, GoTo, HasRow
<1>6. ASSUME NEW p \in Purgers, NEW rs \in SUBSET Recordings, Purge(p, rs)
      PROVE  RowHasOriginal'
  BY <1>6 DEF TypeOK, RowTypes, DiskTypes, ThreadTypes, Located, HasRow, GoTo, Put, Unlink,
    RowHasOriginal, Purge
<1>7. ASSUME NEW p \in Removers, RemoveFile(p)
      PROVE  RowHasOriginal'
  BY <1>7, FirstIsOfIt DEF TypeOK, RowTypes, DiskTypes, ThreadTypes, Located, HasRow, GoTo, Put,
    Unlink, RemovedHaveNoRow, RowHasOriginal, RemoveFile
<1>8. ASSUME NEW p \in Removers, ListFiles(p) \/ RemoveDirectory(p) \/ Refused(p)
      PROVE  RowHasOriginal'
  BY <1>8 DEF RowHasOriginal, ListFiles, RemoveDirectory, Refused, server, GoTo, HasRow
<1>9. ASSUME NEW t \in Threads, NEW r \in Recordings, Claim(t, r)
      PROVE  RowHasOriginal'
  BY <1>9 DEF RowHasOriginal, Claim, server, GoTo, HasRow
<1>10. ASSUME NEW t \in Threads, Open(t)
      PROVE  RowHasOriginal'
  BY <1>10 DEF TypeOK, RowTypes, DiskTypes, ThreadTypes, Located, HasRow, GoTo, Put, Unlink,
    RowHasOriginal, Open, STAGING, UPLOADING, DERIVED, ORIGINAL
<1>11. ASSUME NEW t \in Threads, Replace(t)
      PROVE  RowHasOriginal'
  BY <1>11 DEF TypeOK, RowTypes, DiskTypes, ThreadTypes, Located, HasRow, GoTo, Put, Unlink,
    RowHasOriginal, Replace, STAGING, UPLOADING, DERIVED, ORIGINAL
<1>12. ASSUME NEW t \in Threads, Tidy(t)
      PROVE  RowHasOriginal'
  BY <1>12 DEF TypeOK, RowTypes, DiskTypes, ThreadTypes, Located, HasRow, GoTo, Put, Unlink,
    RowHasOriginal, Tidy, STAGING, UPLOADING, DERIVED, ORIGINAL
<1>13. ASSUME NEW t \in Threads, Locate(t) \/ MakeDirectory(t) \/ EncodeFails(t) \/ Record(t) \/
  Settle(t)
      PROVE  RowHasOriginal'
  BY <1>13 DEF RowHasOriginal, Locate, MakeDirectory, EncodeFails, Record, Settle, server, GoTo,
    HasRow
<1>14. ASSUME Crash \/ FsckBegins \/ FsckReadsRows \/ FsckListsOriginals \/ FsckListsLeftovers
      PROVE  RowHasOriginal'
  BY <1>14 DEF RowHasOriginal, Crash, FsckBegins, FsckReadsRows, FsckListsOriginals,
    FsckListsLeftovers, server, GoTo, HasRow
<1> HIDE DEF RowHasOriginal
<1> QED
  BY <1>1, <1>2, <1>3, <1>4, <1>5, <1>6, <1>7, <1>8, <1>9, <1>10, <1>11, <1>12, <1>13, <1>14,
    NextCases

\* A row that names its own derivative keeps it.
LEMMA DerivativeStays ==
  ASSUME TypeOK, UploadComesFirst, RemovedHaveNoRow, ThreadsFollow, DerivativeIsThere, Next
  PROVE  DerivativeIsThere'
<1>1. ASSUME NEW r \in Recordings, Receive(r)
      PROVE  DerivativeIsThere'
  BY <1>1, FilesAssumption DEF TypeOK, RowTypes, DiskTypes, ThreadTypes, Located, HasRow, GoTo,
    Put, Unlink, UploadComesFirst, DerivativeIsThere, Receive, STAGING, UPLOADING, DERIVED,
    ORIGINAL
<1>2. ASSUME NEW r \in Recordings, Store(r)
      PROVE  DerivativeIsThere'
  BY <1>2, FilesAssumption DEF TypeOK, RowTypes, DiskTypes, ThreadTypes, Located, HasRow, GoTo,
    Put, Unlink, UploadComesFirst, DerivativeIsThere, Store, STAGING, UPLOADING, DERIVED,
    ORIGINAL
<1>3. ASSUME NEW r \in Recordings, Insert(r)
      PROVE  DerivativeIsThere'
  BY <1>3, FilesAssumption DEF TypeOK, RowTypes, DiskTypes, ThreadTypes, Located, HasRow, GoTo,
    Put, Unlink, UploadComesFirst, DerivativeIsThere, Insert, STAGING, UPLOADING, DERIVED,
    ORIGINAL
<1>4. ASSUME NEW r \in Recordings, Abort(r)
      PROVE  DerivativeIsThere'
  BY <1>4, FilesAssumption DEF TypeOK, RowTypes, DiskTypes, ThreadTypes, Located, HasRow, GoTo,
    Put, Unlink, UploadComesFirst, DerivativeIsThere, Abort, STAGING, UPLOADING, DERIVED,
    ORIGINAL
<1>5. ASSUME NEW r \in Recordings, Probed(r) \/ Cancel(r) \/ Retry(r) \/ FsckLooksAt(r)
      PROVE  DerivativeIsThere'
  BY <1>5 DEF DerivativeIsThere, Probed, Cancel, Retry, FsckLooksAt, server, GoTo, HasRow
<1>6. ASSUME NEW p \in Purgers, NEW rs \in SUBSET Recordings, Purge(p, rs)
      PROVE  DerivativeIsThere'
  BY <1>6, FilesAssumption DEF TypeOK, RowTypes, DiskTypes, ThreadTypes, Located, HasRow, GoTo,
    Put, Unlink, DerivativeIsThere, Purge
<1>7. ASSUME NEW p \in Removers, RemoveFile(p)
      PROVE  DerivativeIsThere'
  BY <1>7, FirstIsOfIt DEF TypeOK, RowTypes, DiskTypes, ThreadTypes, Located, HasRow, GoTo, Put,
    Unlink, RemovedHaveNoRow, DerivativeIsThere, RemoveFile
<1>8. ASSUME NEW p \in Removers, ListFiles(p) \/ RemoveDirectory(p) \/ Refused(p)
      PROVE  DerivativeIsThere'
  BY <1>8 DEF DerivativeIsThere, ListFiles, RemoveDirectory, Refused, server, GoTo, HasRow
<1>9. ASSUME NEW t \in Threads, NEW r \in Recordings, Claim(t, r)
      PROVE  DerivativeIsThere'
  BY <1>9 DEF DerivativeIsThere, Claim, server, GoTo, HasRow
<1>10. ASSUME NEW t \in Threads, Open(t)
      PROVE  DerivativeIsThere'
  BY <1>10 DEF TypeOK, RowTypes, DiskTypes, ThreadTypes, Located, HasRow, GoTo, Put, Unlink,
    ThreadsFollow, DerivativeIsThere, Open, STAGING, UPLOADING, DERIVED, ORIGINAL
<1>11. ASSUME NEW t \in Threads, Replace(t)
      PROVE  DerivativeIsThere'
  BY <1>11 DEF TypeOK, RowTypes, DiskTypes, ThreadTypes, Located, HasRow, GoTo, Put, Unlink,
    ThreadsFollow, DerivativeIsThere, Replace, STAGING, UPLOADING, DERIVED, ORIGINAL
<1>12. ASSUME NEW t \in Threads, Tidy(t)
      PROVE  DerivativeIsThere'
  BY <1>12 DEF TypeOK, RowTypes, DiskTypes, ThreadTypes, Located, HasRow, GoTo, Put, Unlink,
    ThreadsFollow, DerivativeIsThere, Tidy, STAGING, UPLOADING, DERIVED, ORIGINAL
<1>13. ASSUME NEW t \in Threads, Record(t)
      PROVE  DerivativeIsThere'
  BY <1>13 DEF TypeOK, RowTypes, DiskTypes, ThreadTypes, Located, HasRow, GoTo, Put, Unlink,
    ThreadsFollow, DerivativeIsThere, Record, STAGING, UPLOADING, DERIVED, ORIGINAL
<1>14. ASSUME NEW t \in Threads, Locate(t) \/ MakeDirectory(t) \/ EncodeFails(t) \/ Settle(t)
      PROVE  DerivativeIsThere'
  BY <1>14 DEF DerivativeIsThere, Locate, MakeDirectory, EncodeFails, Settle, server, GoTo,
    HasRow
<1>15. ASSUME Crash \/ FsckBegins \/ FsckReadsRows \/ FsckListsOriginals \/ FsckListsLeftovers
      PROVE  DerivativeIsThere'
  BY <1>15 DEF DerivativeIsThere, Crash, FsckBegins, FsckReadsRows, FsckListsOriginals,
    FsckListsLeftovers, server, GoTo, HasRow
<1> HIDE DEF DerivativeIsThere
<1> QED
  BY <1>1, <1>2, <1>3, <1>4, <1>5, <1>6, <1>7, <1>8, <1>9, <1>10, <1>11, <1>12, <1>13, <1>14,
    <1>15, NextCases

\* Files without a row go on having a cause.
LEMMA StraysGoOnHavingACause ==
  ASSUME TypeOK, UploadComesFirst, RemovedHaveNoRow, ThreadsFollow, StraysHaveACause, Next
  PROVE  StraysHaveACause'
<1>1. ASSUME NEW r \in Recordings, Receive(r)
      PROVE  StraysHaveACause'
  BY <1>1 DEF TypeOK, RowTypes, DiskTypes, StraysHaveACause, BeingAddedOrRemoved, HasRow,
    Receive, Put
<1>2. ASSUME NEW r \in Recordings, Store(r)
      PROVE  StraysHaveACause'
  BY <1>2 DEF TypeOK, RowTypes, DiskTypes, StraysHaveACause, BeingAddedOrRemoved, HasRow, Store
<1>3. ASSUME NEW r \in Recordings, Insert(r)
      PROVE  StraysHaveACause'
  BY <1>3 DEF TypeOK, RowTypes, DiskTypes, StraysHaveACause, BeingAddedOrRemoved, HasRow, Insert
<1>4. ASSUME NEW r \in Recordings, Abort(r)
      PROVE  StraysHaveACause'
  <2>1. /\ Range(remover'[r].todo) = {r} /\ r \in Removers
        /\ \A q \in Removers : q # r => remover'[q] = remover[q]
    BY <1>4, AbortTakesOne DEF TypeOK, Removers
  <2>2. ~\E s \in Range(remover[r].todo) : TRUE
    BY <1>4 DEF Abort, UploadComesFirst, Idle, Range
  <2>3. /\ \A s \in Recordings : s # r => uploader'[s] = uploader[s] /\ files'[s] = files[s]
        /\ UNCHANGED <<row, cutShort>>
    BY <1>4 DEF Abort, Unlink, TypeOK, RowTypes, DiskTypes
  <2> QED
    BY <2>1, <2>2, <2>3 DEF StraysHaveACause, BeingAddedOrRemoved, HasRow
<1>5. ASSUME NEW r \in Recordings, Probed(r) \/ Cancel(r) \/ Retry(r) \/ FsckLooksAt(r)
      PROVE  StraysHaveACause'
  BY <1>5 DEF StraysHaveACause, Probed, Cancel, Retry, FsckLooksAt, server, GoTo, HasRow,
    BeingAddedOrRemoved
<1>6. ASSUME NEW p \in Purgers, NEW rs \in SUBSET Recordings, Purge(p, rs)
      PROVE  StraysHaveACause'
  <2>1. /\ Range(remover'[p].todo) = rs /\ p \in Removers
        /\ \A q \in Removers : q # p => remover'[q] = remover[q]
    BY <1>6, PurgeTakesThem DEF TypeOK, Removers
  <2>2. ~\E s \in Range(remover[p].todo) : TRUE
    BY <1>6 DEF Purge, Idle, Range
  <2>3. /\ \A r \in Recordings : r \notin rs => row'[r] = row[r]
        /\ UNCHANGED <<uploader, files, cutShort>>
    BY <1>6 DEF Purge
  <2> QED
    BY <2>1, <2>2, <2>3 DEF StraysHaveACause, BeingAddedOrRemoved, HasRow
<1>7. ASSUME NEW p \in Removers, ListFiles(p)
      PROVE  StraysHaveACause'
  <2>1. remover[p].todo \in Seq(Recordings) /\ remover[p].todo # <<>>
    BY <1>7 DEF ListFiles, TypeOK, RemoverTypes, Removals
  <2>2. Range(remover[p].todo) = {First(p)} \cup Range(Tail(remover[p].todo))
    BY <2>1, TailCovers DEF First
  <2>3. /\ \A q \in Removers : q # p => remover'[q] = remover[q]
        /\ UNCHANGED <<row, uploader, files, cutShort>>
    BY <1>7 DEF ListFiles, TypeOK, RemoverTypes
  <2>4. \/ remover'[p].todo = remover[p].todo
        \/ remover'[p].todo = Tail(remover[p].todo) /\ files[First(p)] = {}
    BY <1>7 DEF ListFiles, TypeOK, RemoverTypes, Removals, Idle, UploadComesFirst, First
  <2> QED
    BY <2>2, <2>3, <2>4 DEF StraysHaveACause, BeingAddedOrRemoved, HasRow
<1>8. ASSUME NEW p \in Removers, RemoveFile(p)
      PROVE  StraysHaveACause'
  <2>1. /\ \A r \in Recordings : files'[r] \subseteq files[r]
        /\ \A q \in Removers : remover'[q].todo = remover[q].todo
        /\ UNCHANGED <<row, uploader, cutShort>>
    BY <1>8 DEF RemoveFile, Unlink, TypeOK, DiskTypes, RemoverTypes, Removals
  <2> QED
    BY <2>1 DEF StraysHaveACause, BeingAddedOrRemoved, HasRow
<1>9. ASSUME NEW p \in Removers, RemoveDirectory(p)
      PROVE  StraysHaveACause'
  <2>1. remover[p].todo \in Seq(Recordings) /\ remover[p].todo # <<>>
    BY <1>9 DEF RemoveDirectory, TypeOK, RemoverTypes, Removals
  <2>2. Range(remover[p].todo) = {First(p)} \cup Range(Tail(remover[p].todo))
    BY <2>1, TailCovers DEF First
  <2>3. /\ \A q \in Removers : q # p => remover'[q] = remover[q]
        /\ UNCHANGED <<row, uploader, files, cutShort>>
    BY <1>9 DEF RemoveDirectory, TypeOK, RemoverTypes
  <2>4. \/ remover'[p].todo = remover[p].todo
        \/ remover'[p].todo = Tail(remover[p].todo) /\ files[First(p)] = {}
    BY <1>9 DEF RemoveDirectory, TypeOK, RemoverTypes, Removals, Idle, UploadComesFirst, First
  <2> QED
    BY <2>2, <2>3, <2>4 DEF StraysHaveACause, BeingAddedOrRemoved, HasRow
<1>10. ASSUME NEW p \in Removers, Refused(p)
      PROVE  StraysHaveACause'
  <2>1. remover[p].todo \in Seq(Recordings)
    BY <1>10 DEF Refused, TypeOK, RemoverTypes, Removals
  <2>2. cutShort' = cutShort \cup Range(remover[p].todo)
    BY <1>10, <2>1 DEF Refused, Range
  <2>3. /\ \A q \in Removers : q # p => remover'[q] = remover[q]
        /\ UNCHANGED <<row, uploader, files>>
    BY <1>10 DEF Refused, TypeOK, RemoverTypes
  <2> QED
    BY <2>2, <2>3 DEF StraysHaveACause, BeingAddedOrRemoved, HasRow
<1>11. ASSUME NEW t \in Threads, NEW r \in Recordings, Claim(t, r)
      PROVE  StraysHaveACause'
  BY <1>11 DEF StraysHaveACause, Claim, server, GoTo, HasRow, BeingAddedOrRemoved
<1>12. ASSUME NEW t \in Threads, Open(t)
      PROVE  StraysHaveACause'
  <2>1. /\ \A r \in Recordings : files[r] = {} => files'[r] = {}
        /\ UNCHANGED <<row, uploader, remover, cutShort>>
    BY <1>12 DEF Open, Put, Unlink, TypeOK, DiskTypes
  <2> QED
    BY <2>1 DEF StraysHaveACause, BeingAddedOrRemoved, HasRow
<1>13. ASSUME NEW t \in Threads, Replace(t)
      PROVE  StraysHaveACause'
  <2>1. /\ \A r \in Recordings : files[r] = {} => files'[r] = {}
        /\ UNCHANGED <<row, uploader, remover, cutShort>>
    BY <1>13 DEF Replace, Put, Unlink, TypeOK, DiskTypes
  <2> QED
    BY <2>1 DEF StraysHaveACause, BeingAddedOrRemoved, HasRow
<1>14. ASSUME NEW t \in Threads, Tidy(t)
      PROVE  StraysHaveACause'
  <2>1. /\ \A r \in Recordings : files[r] = {} => files'[r] = {}
        /\ UNCHANGED <<row, uploader, remover, cutShort>>
    BY <1>14 DEF Tidy, Put, Unlink, TypeOK, DiskTypes
  <2> QED
    BY <2>1 DEF StraysHaveACause, BeingAddedOrRemoved, HasRow
<1>15. ASSUME NEW t \in Threads, Locate(t) \/ MakeDirectory(t) \/ EncodeFails(t) \/ Record(t) \/
  Settle(t)
      PROVE  StraysHaveACause'
  BY <1>15 DEF StraysHaveACause, Locate, MakeDirectory, EncodeFails, Record, Settle, server,
    GoTo, HasRow, BeingAddedOrRemoved
<1>16. ASSUME Crash
      PROVE  StraysHaveACause'
  <2>1. \A p \in Removers : {remover[p].todo[i] : i \in 1..Len(remover[p].todo)}
                             = Range(remover[p].todo)
    BY DEF TypeOK, RemoverTypes, Removals, Range
  <2>2. \A r \in Recordings : BeingAddedOrRemoved(r) => r \in cutShort'
    <3> SUFFICES ASSUME NEW r \in Recordings, BeingAddedOrRemoved(r) PROVE r \in cutShort'
      OBVIOUS
    <3>1. CASE uploader[r] \in {"receiving", "stored"}
      BY <1>16, <3>1 DEF Crash
    <3>2. CASE \E p \in Removers : r \in Range(remover[p].todo)
      <4>1. PICK p \in Removers : r \in {remover[p].todo[i] : i \in 1..Len(remover[p].todo)}
        BY <3>2, <2>1
      <4>2. r \in UNION {{remover[q].todo[i] : i \in 1..Len(remover[q].todo)} : q \in Removers}
        BY <4>1
      <4> QED
        BY <1>16, <4>2 DEF Crash
    <3> QED
      BY <3>1, <3>2 DEF BeingAddedOrRemoved
  <2>3. /\ cutShort \subseteq cutShort' /\ UNCHANGED <<row, files>>
    BY <1>16 DEF Crash
  <2> QED
    BY <2>2, <2>3 DEF StraysHaveACause, HasRow
<1>17. ASSUME FsckBegins \/ FsckReadsRows \/ FsckListsOriginals \/ FsckListsLeftovers
      PROVE  StraysHaveACause'
  BY <1>17 DEF StraysHaveACause, FsckBegins, FsckReadsRows, FsckListsOriginals,
    FsckListsLeftovers, server, GoTo, HasRow, BeingAddedOrRemoved
<1> HIDE DEF StraysHaveACause
<1> QED
  BY <1>1, <1>2, <1>3, <1>4, <1>5, <1>6, <1>7, <1>8, <1>9, <1>10, <1>11, <1>12, <1>13, <1>14,
    <1>15, <1>16, <1>17, NextCases

\* What fsck relies on goes on holding.
LEMMA FsckGoesOn ==
  ASSUME TypeOK, UploadComesFirst, RemovedHaveNoRow, RowHasOriginal, FsckInv, Next
  PROVE  FsckInv'
<1>1. ASSUME NEW r \in Recordings, Receive(r)
      PROVE  FsckInv'
  <2>1. /\ \A o \in Recordings : uploader[o] = "over" => uploader'[o] = "over"
        /\ \A o \in Recordings : uploader[o] = "over" /\ ~HasRow(o) => ~HasRow(o)'
        /\ fsck' = fsck
    BY <1>1 DEF TypeOK, RowTypes, HasRow, Receive, GoTo
  <2>2. \A o \in Recordings : Orphaned(o) => Orphaned(o)'
    BY <1>1 DEF Orphaned, TypeOK, RowTypes, DiskTypes, HasRow, Receive, Put
  <2> QED
    BY <2>1, <2>2 DEF FsckInv, MissingHadLeft, TypeOK, CheckTypes, HasRow
<1>2. ASSUME NEW r \in Recordings, Store(r)
      PROVE  FsckInv'
  <2>1. /\ \A o \in Recordings : uploader[o] = "over" => uploader'[o] = "over"
        /\ \A o \in Recordings : uploader[o] = "over" /\ ~HasRow(o) => ~HasRow(o)'
        /\ fsck' = fsck
    BY <1>2 DEF TypeOK, RowTypes, HasRow, Store
  <2>2. \A o \in Recordings : Orphaned(o) => Orphaned(o)'
    BY <1>2 DEF Orphaned, TypeOK, RowTypes, DiskTypes, HasRow, Store
  <2> QED
    BY <2>1, <2>2 DEF FsckInv, MissingHadLeft, TypeOK, CheckTypes, HasRow
<1>3. ASSUME NEW r \in Recordings, Insert(r)
      PROVE  FsckInv'
  <2>1. /\ \A o \in Recordings : uploader[o] = "over" => uploader'[o] = "over"
        /\ \A o \in Recordings : uploader[o] = "over" /\ ~HasRow(o) => ~HasRow(o)'
        /\ fsck' = fsck
    BY <1>3 DEF TypeOK, RowTypes, HasRow, Insert
  <2>2. \A o \in Recordings : Orphaned(o) => Orphaned(o)'
    BY <1>3 DEF Orphaned, TypeOK, RowTypes, DiskTypes, HasRow, Insert
  <2> QED
    BY <2>1, <2>2 DEF FsckInv, MissingHadLeft, TypeOK, CheckTypes, HasRow
<1>4. ASSUME NEW r \in Recordings, Abort(r)
      PROVE  FsckInv'
  <2>1. /\ \A o \in Recordings : uploader[o] = "over" => uploader'[o] = "over"
        /\ \A o \in Recordings : uploader[o] = "over" /\ ~HasRow(o) => ~HasRow(o)'
        /\ fsck' = fsck
    BY <1>4 DEF TypeOK, RowTypes, HasRow, Abort
  <2>2. \A o \in Recordings : Orphaned(o) => Orphaned(o)'
    <3>1. Range(remover'[r].todo) = {r} /\ \A q \in Removers : q # r => remover'[q] = remover[q]
      BY <1>4, AbortTakesOne DEF TypeOK
    <3> QED
      BY <1>4, <3>1 DEF Orphaned, TypeOK, RowTypes, DiskTypes, HasRow, Abort, Unlink, STAGING,
         UPLOADING, DERIVED, ORIGINAL
  <2> QED
    BY <2>1, <2>2 DEF FsckInv, MissingHadLeft, TypeOK, CheckTypes, HasRow
<1>5. ASSUME NEW r \in Recordings, Probed(r)
      PROVE  FsckInv'
  <2>1. /\ \A o \in Recordings : uploader[o] = "over" => uploader'[o] = "over"
        /\ \A o \in Recordings : uploader[o] = "over" /\ ~HasRow(o) => ~HasRow(o)'
        /\ fsck' = fsck
    BY <1>5 DEF TypeOK, RowTypes, HasRow, Probed
  <2>2. \A o \in Recordings : Orphaned(o) => Orphaned(o)'
    BY <1>5 DEF Orphaned, TypeOK, RowTypes, DiskTypes, HasRow, Probed
  <2> QED
    BY <2>1, <2>2 DEF FsckInv, MissingHadLeft, TypeOK, CheckTypes, HasRow
<1>6. ASSUME NEW r \in Recordings, Cancel(r)
      PROVE  FsckInv'
  <2>1. /\ \A o \in Recordings : uploader[o] = "over" => uploader'[o] = "over"
        /\ \A o \in Recordings : uploader[o] = "over" /\ ~HasRow(o) => ~HasRow(o)'
        /\ fsck' = fsck
    BY <1>6 DEF TypeOK, RowTypes, HasRow, Cancel
  <2>2. \A o \in Recordings : Orphaned(o) => Orphaned(o)'
    BY <1>6 DEF Orphaned, TypeOK, RowTypes, DiskTypes, HasRow, Cancel
  <2> QED
    BY <2>1, <2>2 DEF FsckInv, MissingHadLeft, TypeOK, CheckTypes, HasRow
<1>7. ASSUME NEW r \in Recordings, Retry(r)
      PROVE  FsckInv'
  <2>1. /\ \A o \in Recordings : uploader[o] = "over" => uploader'[o] = "over"
        /\ \A o \in Recordings : uploader[o] = "over" /\ ~HasRow(o) => ~HasRow(o)'
        /\ fsck' = fsck
    BY <1>7 DEF TypeOK, RowTypes, HasRow, Retry
  <2>2. \A o \in Recordings : Orphaned(o) => Orphaned(o)'
    BY <1>7 DEF Orphaned, TypeOK, RowTypes, DiskTypes, HasRow, Retry
  <2> QED
    BY <2>1, <2>2 DEF FsckInv, MissingHadLeft, TypeOK, CheckTypes, HasRow
<1>8. ASSUME NEW r \in Recordings, FsckLooksAt(r)
      PROVE  FsckInv'
  BY <1>8 DEF FsckInv, FsckLooksAt, TypeOK, CheckTypes, server, MissingHadLeft, RowHasOriginal,
    HasRow, Orphaned
<1>9. ASSUME NEW p \in Purgers, NEW rs \in SUBSET Recordings, Purge(p, rs)
      PROVE  FsckInv'
  <2>1. /\ \A o \in Recordings : uploader[o] = "over" => uploader'[o] = "over"
        /\ \A o \in Recordings : uploader[o] = "over" /\ ~HasRow(o) => ~HasRow(o)'
        /\ fsck' = fsck
    BY <1>9 DEF TypeOK, RowTypes, HasRow, Purge
  <2>2. \A o \in Recordings : Orphaned(o) => Orphaned(o)'
    <3>1. Range(remover'[p].todo) = rs /\ \A q \in Removers : q # p => remover'[q] = remover[q]
      BY <1>9, PurgeTakesThem DEF TypeOK
    <3> QED
      BY <1>9, <3>1 DEF Orphaned, TypeOK, RowTypes, DiskTypes, HasRow, Purge
  <2> QED
    BY <2>1, <2>2 DEF FsckInv, MissingHadLeft, TypeOK, CheckTypes, HasRow
<1>10. ASSUME NEW p \in Removers, ListFiles(p)
      PROVE  FsckInv'
  <2>1. /\ \A o \in Recordings : uploader[o] = "over" => uploader'[o] = "over"
        /\ \A o \in Recordings : uploader[o] = "over" /\ ~HasRow(o) => ~HasRow(o)'
        /\ fsck' = fsck
    BY <1>10 DEF TypeOK, RowTypes, HasRow, ListFiles
  <2>2. \A o \in Recordings : Orphaned(o) => Orphaned(o)'
    <3>1. \A q \in Removers : Range(remover'[q].todo) \subseteq Range(remover[q].todo)
      BY <1>10, RemovalShrinks DEF TypeOK
    <3> QED
      BY <1>10, <3>1, FirstIsOfIt DEF Orphaned, TypeOK, RowTypes, DiskTypes, HasRow, ListFiles
  <2> QED
    BY <2>1, <2>2 DEF FsckInv, MissingHadLeft, TypeOK, CheckTypes, HasRow
<1>11. ASSUME NEW p \in Removers, RemoveFile(p)
      PROVE  FsckInv'
  <2>1. /\ \A o \in Recordings : uploader[o] = "over" => uploader'[o] = "over"
        /\ \A o \in Recordings : uploader[o] = "over" /\ ~HasRow(o) => ~HasRow(o)'
        /\ fsck' = fsck
    BY <1>11 DEF TypeOK, RowTypes, HasRow, RemoveFile
  <2>2. \A o \in Recordings : Orphaned(o) => Orphaned(o)'
    <3>1. \A q \in Removers : Range(remover'[q].todo) \subseteq Range(remover[q].todo)
      BY <1>11, RemovalShrinks DEF TypeOK
    <3> QED
      BY <1>11, <3>1, FirstIsOfIt DEF Orphaned, TypeOK, RowTypes, DiskTypes, HasRow,
         RemoveFile, Unlink
  <2> QED
    BY <2>1, <2>2 DEF FsckInv, MissingHadLeft, TypeOK, CheckTypes, HasRow
<1>12. ASSUME NEW p \in Removers, RemoveDirectory(p)
      PROVE  FsckInv'
  <2>1. /\ \A o \in Recordings : uploader[o] = "over" => uploader'[o] = "over"
        /\ \A o \in Recordings : uploader[o] = "over" /\ ~HasRow(o) => ~HasRow(o)'
        /\ fsck' = fsck
    BY <1>12 DEF TypeOK, RowTypes, HasRow, RemoveDirectory
  <2>2. \A o \in Recordings : Orphaned(o) => Orphaned(o)'
    <3>1. \A q \in Removers : Range(remover'[q].todo) \subseteq Range(remover[q].todo)
      BY <1>12, RemovalShrinks DEF TypeOK
    <3> QED
      BY <1>12, <3>1, FirstIsOfIt DEF Orphaned, TypeOK, RowTypes, DiskTypes, HasRow,
         RemoveDirectory
  <2> QED
    BY <2>1, <2>2 DEF FsckInv, MissingHadLeft, TypeOK, CheckTypes, HasRow
<1>13. ASSUME NEW p \in Removers, Refused(p)
      PROVE  FsckInv'
  <2>1. /\ \A o \in Recordings : uploader[o] = "over" => uploader'[o] = "over"
        /\ \A o \in Recordings : uploader[o] = "over" /\ ~HasRow(o) => ~HasRow(o)'
        /\ fsck' = fsck
    BY <1>13 DEF TypeOK, RowTypes, HasRow, Refused
  <2>2. \A o \in Recordings : Orphaned(o) => Orphaned(o)'
    <3>1. \A q \in Removers : Range(remover'[q].todo) \subseteq Range(remover[q].todo)
      BY <1>13, RemovalShrinks DEF TypeOK
    <3> QED
      BY <1>13, <3>1, FirstIsOfIt DEF Orphaned, TypeOK, RowTypes, DiskTypes, HasRow, Refused
  <2> QED
    BY <2>1, <2>2 DEF FsckInv, MissingHadLeft, TypeOK, CheckTypes, HasRow
<1>14. ASSUME NEW t \in Threads, NEW r \in Recordings, Claim(t, r)
      PROVE  FsckInv'
  <2>1. /\ \A o \in Recordings : uploader[o] = "over" => uploader'[o] = "over"
        /\ \A o \in Recordings : uploader[o] = "over" /\ ~HasRow(o) => ~HasRow(o)'
        /\ fsck' = fsck
    BY <1>14 DEF TypeOK, RowTypes, HasRow, Claim
  <2>2. \A o \in Recordings : Orphaned(o) => Orphaned(o)'
    BY <1>14 DEF Orphaned, TypeOK, RowTypes, DiskTypes, HasRow, Claim
  <2> QED
    BY <2>1, <2>2 DEF FsckInv, MissingHadLeft, TypeOK, CheckTypes, HasRow
<1>15. ASSUME NEW t \in Threads, Locate(t)
      PROVE  FsckInv'
  <2>1. /\ \A o \in Recordings : uploader[o] = "over" => uploader'[o] = "over"
        /\ \A o \in Recordings : uploader[o] = "over" /\ ~HasRow(o) => ~HasRow(o)'
        /\ fsck' = fsck
    BY <1>15 DEF TypeOK, RowTypes, HasRow, Locate, GoTo
  <2>2. \A o \in Recordings : Orphaned(o) => Orphaned(o)'
    BY <1>15 DEF Orphaned, TypeOK, RowTypes, DiskTypes, HasRow, Locate, Put, Unlink, STAGING,
       UPLOADING, DERIVED, ORIGINAL
  <2> QED
    BY <2>1, <2>2 DEF FsckInv, MissingHadLeft, TypeOK, CheckTypes, HasRow
<1>16. ASSUME NEW t \in Threads, MakeDirectory(t)
      PROVE  FsckInv'
  <2>1. /\ \A o \in Recordings : uploader[o] = "over" => uploader'[o] = "over"
        /\ \A o \in Recordings : uploader[o] = "over" /\ ~HasRow(o) => ~HasRow(o)'
        /\ fsck' = fsck
    BY <1>16 DEF TypeOK, RowTypes, HasRow, MakeDirectory, GoTo
  <2>2. \A o \in Recordings : Orphaned(o) => Orphaned(o)'
    BY <1>16 DEF Orphaned, TypeOK, RowTypes, DiskTypes, HasRow, MakeDirectory, Put, Unlink,
       STAGING, UPLOADING, DERIVED, ORIGINAL
  <2> QED
    BY <2>1, <2>2 DEF FsckInv, MissingHadLeft, TypeOK, CheckTypes, HasRow
<1>17. ASSUME NEW t \in Threads, Open(t)
      PROVE  FsckInv'
  <2>1. /\ \A o \in Recordings : uploader[o] = "over" => uploader'[o] = "over"
        /\ \A o \in Recordings : uploader[o] = "over" /\ ~HasRow(o) => ~HasRow(o)'
        /\ fsck' = fsck
    BY <1>17 DEF TypeOK, RowTypes, HasRow, Open, GoTo
  <2>2. \A o \in Recordings : Orphaned(o) => Orphaned(o)'
    BY <1>17 DEF Orphaned, TypeOK, RowTypes, DiskTypes, HasRow, Open, Put, Unlink, STAGING,
       UPLOADING, DERIVED, ORIGINAL
  <2> QED
    BY <2>1, <2>2 DEF FsckInv, MissingHadLeft, TypeOK, CheckTypes, HasRow
<1>18. ASSUME NEW t \in Threads, EncodeFails(t)
      PROVE  FsckInv'
  <2>1. /\ \A o \in Recordings : uploader[o] = "over" => uploader'[o] = "over"
        /\ \A o \in Recordings : uploader[o] = "over" /\ ~HasRow(o) => ~HasRow(o)'
        /\ fsck' = fsck
    BY <1>18 DEF TypeOK, RowTypes, HasRow, EncodeFails, GoTo
  <2>2. \A o \in Recordings : Orphaned(o) => Orphaned(o)'
    BY <1>18 DEF Orphaned, TypeOK, RowTypes, DiskTypes, HasRow, EncodeFails, Put, Unlink,
       STAGING, UPLOADING, DERIVED, ORIGINAL
  <2> QED
    BY <2>1, <2>2 DEF FsckInv, MissingHadLeft, TypeOK, CheckTypes, HasRow
<1>19. ASSUME NEW t \in Threads, Replace(t)
      PROVE  FsckInv'
  <2>1. /\ \A o \in Recordings : uploader[o] = "over" => uploader'[o] = "over"
        /\ \A o \in Recordings : uploader[o] = "over" /\ ~HasRow(o) => ~HasRow(o)'
        /\ fsck' = fsck
    BY <1>19 DEF TypeOK, RowTypes, HasRow, Replace, GoTo
  <2>2. \A o \in Recordings : Orphaned(o) => Orphaned(o)'
    BY <1>19 DEF Orphaned, TypeOK, RowTypes, DiskTypes, HasRow, Replace, Put, Unlink, STAGING,
       UPLOADING, DERIVED, ORIGINAL
  <2> QED
    BY <2>1, <2>2 DEF FsckInv, MissingHadLeft, TypeOK, CheckTypes, HasRow
<1>20. ASSUME NEW t \in Threads, Tidy(t)
      PROVE  FsckInv'
  <2>1. /\ \A o \in Recordings : uploader[o] = "over" => uploader'[o] = "over"
        /\ \A o \in Recordings : uploader[o] = "over" /\ ~HasRow(o) => ~HasRow(o)'
        /\ fsck' = fsck
    BY <1>20 DEF TypeOK, RowTypes, HasRow, Tidy, GoTo
  <2>2. \A o \in Recordings : Orphaned(o) => Orphaned(o)'
    BY <1>20 DEF Orphaned, TypeOK, RowTypes, DiskTypes, HasRow, Tidy, Put, Unlink, STAGING,
       UPLOADING, DERIVED, ORIGINAL
  <2> QED
    BY <2>1, <2>2 DEF FsckInv, MissingHadLeft, TypeOK, CheckTypes, HasRow
<1>21. ASSUME NEW t \in Threads, Record(t)
      PROVE  FsckInv'
  <2>1. /\ \A o \in Recordings : uploader[o] = "over" => uploader'[o] = "over"
        /\ \A o \in Recordings : uploader[o] = "over" /\ ~HasRow(o) => ~HasRow(o)'
        /\ fsck' = fsck
    BY <1>21 DEF TypeOK, RowTypes, HasRow, Record, GoTo
  <2>2. \A o \in Recordings : Orphaned(o) => Orphaned(o)'
    BY <1>21 DEF Orphaned, TypeOK, RowTypes, DiskTypes, HasRow, Record, Put, Unlink, STAGING,
       UPLOADING, DERIVED, ORIGINAL
  <2> QED
    BY <2>1, <2>2 DEF FsckInv, MissingHadLeft, TypeOK, CheckTypes, HasRow
<1>22. ASSUME NEW t \in Threads, Settle(t)
      PROVE  FsckInv'
  <2>1. /\ \A o \in Recordings : uploader[o] = "over" => uploader'[o] = "over"
        /\ \A o \in Recordings : uploader[o] = "over" /\ ~HasRow(o) => ~HasRow(o)'
        /\ fsck' = fsck
    BY <1>22 DEF TypeOK, RowTypes, HasRow, Settle, GoTo
  <2>2. \A o \in Recordings : Orphaned(o) => Orphaned(o)'
    BY <1>22 DEF Orphaned, TypeOK, RowTypes, DiskTypes, HasRow, Settle, Put, Unlink, STAGING,
       UPLOADING, DERIVED, ORIGINAL
  <2> QED
    BY <2>1, <2>2 DEF FsckInv, MissingHadLeft, TypeOK, CheckTypes, HasRow
<1>23. ASSUME Crash
      PROVE  FsckInv'
  <2>1. /\ \A o \in Recordings : uploader[o] = "over" => uploader'[o] = "over"
        /\ \A o \in Recordings : uploader[o] = "over" /\ ~HasRow(o) => ~HasRow(o)'
        /\ fsck' = fsck
    BY <1>23 DEF TypeOK, RowTypes, HasRow, Crash
  <2>2. \A o \in Recordings : Orphaned(o) => Orphaned(o)'
    <3>1. \A q \in Removers : Range(remover'[q].todo) = {}
      BY <1>23 DEF Crash, Idle, Range
    <3> QED
      BY <1>23, <3>1 DEF Orphaned, TypeOK, RowTypes, DiskTypes, HasRow, Crash
  <2> QED
    BY <2>1, <2>2 DEF FsckInv, MissingHadLeft, TypeOK, CheckTypes, HasRow
<1>24. ASSUME FsckBegins
      PROVE  FsckInv'
  BY <1>24 DEF FsckInv, FsckBegins, TypeOK, CheckTypes, server, MissingHadLeft, HasRow,
    Orphaned, UploadComesFirst
<1>25. ASSUME FsckReadsRows
      PROVE  FsckInv'
  BY <1>25 DEF FsckInv, FsckReadsRows, TypeOK, CheckTypes, server, MissingHadLeft, HasRow,
    Orphaned, UploadComesFirst
<1>26. ASSUME FsckListsOriginals
      PROVE  FsckInv'
  BY <1>26 DEF FsckInv, FsckListsOriginals, TypeOK, CheckTypes, server, MissingHadLeft, HasRow,
    Orphaned
<1>27. ASSUME FsckListsLeftovers
      PROVE  FsckInv'
  BY <1>27 DEF FsckInv, FsckListsLeftovers, Unchecked, TypeOK, CheckTypes, server,
    MissingHadLeft, HasRow, Orphaned
<1> HIDE DEF FsckInv
<1> QED
  BY <1>1, <1>2, <1>3, <1>4, <1>5, <1>6, <1>7, <1>8, <1>9, <1>10, <1>11, <1>12, <1>13, <1>14,
    <1>15, <1>16, <1>17, <1>18, <1>19, <1>20, <1>21, <1>22, <1>23, <1>24, <1>25, <1>26, <1>27,
    NextCases

\* The inductive invariant: a row is never without its original, nor without
\* the derivative it names as its own, and what is left without a row is what
\* a crash or a refused removal left.
THEOREM FilesInvariant == Spec => []FilesInv
<1>1. FilesInv /\ TypeOK /\ [Next]_vars => FilesInv'
  <2>1. FilesInv /\ TypeOK /\ Next => FilesInv'
    BY UploadFirst, RemovedStayGone, ThreadsGoOnFollowing, OriginalStays, DerivativeStays,
       StraysGoOnHavingACause DEF FilesInv
  <2>2. FilesInv /\ UNCHANGED vars => FilesInv'
    BY DEF FilesInv, UploadComesFirst, RemovedHaveNoRow, ThreadsFollow, RowHasOriginal,
       DerivativeIsThere, StraysHaveACause, BeingAddedOrRemoved, HasRow, vars, server
  <2> QED
    BY <2>1, <2>2
<1> QED
  BY InvariantInit, <1>1, TypeCorrect, PTL DEF Spec

\* A row is never without its original, whatever purges, transcodes, crashes
\* and failed uploads do and in whatever order.
THEOREM RowsHaveOriginals == Spec => []RowHasOriginal
<1> FilesInv => RowHasOriginal
  BY DEF FilesInv
<1> QED
  BY FilesInvariant, PTL

\* Nothing but a crash or a refused removal leaves files no row points at.
THEOREM StraysAreExplained == Spec => []StraysHaveACause
<1> FilesInv => StraysHaveACause
  BY DEF FilesInv
<1> QED
  BY FilesInvariant, PTL

\* What fsck relies on holds however the archive changes under it.
THEOREM FsckInvariant == Spec => []FsckInv
<1>1. Init => FsckInv
  BY DEF Init, FsckInv, Unchecked, MissingHadLeft
<1>2. FsckInv /\ TypeOK /\ FilesInv /\ [Next]_vars => FsckInv'
  <2>1. FsckInv /\ TypeOK /\ FilesInv /\ Next => FsckInv'
    BY FsckGoesOn DEF FilesInv
  <2>2. FsckInv /\ UNCHANGED vars => FsckInv'
    BY DEF FsckInv, MissingHadLeft, Orphaned, HasRow, vars, server
  <2> QED
    BY <2>1, <2>2
<1> QED
  BY <1>1, <1>2, TypeCorrect, FilesInvariant, PTL DEF Spec

\* What is on disk, and what fsck makes of it: a row has its original, what no row points at
\* has a cause, and a comparison made piece by piece finds every orphan and invents no loss.
THEOREM TheDiskHoldsTogether == Spec => []DiskInv
<1> FilesInv /\ FsckInv => DiskInv
  BY DEF DiskInv
<1> QED
  BY FilesInvariant, FsckInvariant, PTL

\* An original that was an orphan when fsck began is in its report.
THEOREM OrphansAreFound == Spec => []FsckFindsOrphans
<1> FsckInv => FsckFindsOrphans
  BY DEF FsckInv, FsckFindsOrphans
<1> QED
  BY FsckInvariant, PTL

\* What fsck calls missing had been destroyed by then.
THEOREM NoLossIsInvented == Spec => []MissingHadLeft
<1> FsckInv => MissingHadLeft
  BY DEF FsckInv
<1> QED
  BY FsckInvariant, PTL
-----------------------------------------------------------------------------
(* The trash on screen (TrashPage), beside which the files stand still.    *)

\* A count taken at an instant holds whatever was in the trash by then, and what goes with it.
CountedAt(instant, S) ==
    \A x \in T!Things :
        where[x] = "trash" /\ stamp[x] <= instant =>
            /\ x \in S
            /\ x = Shelf => \A r \in Recordings : where[r] # "gone" => r \in S

\* A selection holds what it names, and what is still in the library it names.
Named(libs, recs, S) ==
    /\ libs \subseteq {Shelf} /\ recs \subseteq Recordings
    /\ libs \cup recs \subseteq S
    /\ Shelf \in libs => \A r \in Recordings : where[r] # "gone" => r \in S

\* What was asked for is covered by what was agreed to.
CallCovered(c) ==
    /\ c.libraries \subseteq {Shelf} /\ c.recordings \subseteq Recordings
    /\ c.kind = "empty" => c.at <= now /\ c.at \in Nat /\ CountedAt(c.at, c.agreed \cup c.missed)
    /\ c.kind \notin {"empty", "restore"} => Named(c.libraries, c.recordings, c.agreed \cup c.missed)

\* The lists know of everything that has not changed since they were read.
ListsHold ==
    /\ DOMAIN libraries \subseteq {Shelf} /\ recordings \subseteq Recordings
    /\ ticked \subseteq T!Things
    /\ changed \in [libraries : SUBSET T!Things, recordings : SUBSET T!Things]
    /\ \A l \in DOMAIN libraries : \A r \in Recordings :
          where[r] = "live" => r \in libraries[l] \/ r \in changed.libraries
    /\ \A r \in Recordings : where[r] = "trash" => r \in recordings \/ r \in changed.recordings

ServerHolds ==
    /\ where \in [T!Things -> {"live", "trash", "gone"}]
    /\ stamp \in [T!Things -> Nat] /\ now \in Nat
    /\ \A x \in T!Things : stamp[x] <= now

SummaryHolds ==
    summary # T!Uncounted =>
        summary.at \in Nat /\ summary.at <= now /\ CountedAt(summary.at, summary.counted)

TrashPageInv ==
    ServerHolds /\ ListsHold /\ SummaryHolds /\ \A c \in calls : CallCovered(c)

\* How the instance may move: nothing comes back, what moves is noted, and what comes into the
\* trash is stamped after everything that was counted.
Moved ==
    /\ now' \in Nat /\ now <= now'
    /\ where' \in [T!Things -> {"live", "trash", "gone"}]
    /\ stamp' \in [T!Things -> Nat] /\ \A x \in T!Things : stamp'[x] <= now'
    /\ \A x \in T!Things :
         /\ where[x] = "gone" => where'[x] = "gone"
         /\ where'[x] = "trash" => (where[x] = "trash" /\ stamp'[x] = stamp[x]) \/ now < stamp'[x]

LEMMA ShelfFacts ==
    /\ T!Things = {Shelf} \cup Recordings /\ Shelf \notin Recordings
    /\ \A l \in {Shelf} : T!In(l) = Recordings
    /\ MaxChanges \in Nat /\ MaxCalls \in Nat
BY ScreenAssumption DEF T!Things, T!In

(* A count stays one, and so does what was agreed to, however the instance *)
(* moves.                                                                  *)
LEMMA CountStays ==
    ASSUME ServerHolds, Moved, NEW instant \in Nat, instant <= now, NEW S, CountedAt(instant, S)
    PROVE  (instant <= now /\ CountedAt(instant, S))'
<1>1. \A x \in T!Things : where'[x] = "trash" /\ stamp'[x] <= instant => where[x] = "trash" /\ stamp[x] <= instant
  BY DEF Moved, ServerHolds
<1>2. \A r \in Recordings : where'[r] # "gone" => where[r] # "gone"
  BY ShelfFacts DEF Moved
<1>3. instant <= now'
  BY DEF Moved, ServerHolds
<1> QED
  BY <1>1, <1>2, <1>3 DEF CountedAt, T!Things

LEMMA NamedStays ==
    ASSUME ServerHolds, Moved, NEW libs, NEW recs, NEW S, Named(libs, recs, S)
    PROVE  Named(libs, recs, S)'
<1>1. \A r \in Recordings : where'[r] # "gone" => where[r] # "gone"
  BY ShelfFacts DEF Moved
<1> QED
  BY <1>1 DEF Named

LEMMA CoveredStays ==
    ASSUME ServerHolds, Moved, NEW c, CallCovered(c)
    PROVE  CallCovered(c)'
<1>1. CASE c.kind = "empty"
  BY <1>1, CountStays DEF CallCovered
<1>2. CASE c.kind \notin {"empty", "restore"}
  BY <1>2, NamedStays DEF CallCovered
<1>3. CASE c.kind = "restore"
  BY <1>3 DEF CallCovered
<1> QED
  BY <1>1, <1>2, <1>3

LEMMA SummaryStays ==
    ASSUME ServerHolds, Moved, SummaryHolds, UNCHANGED summary
    PROVE  SummaryHolds'
<1> SUFFICES ASSUME summary # T!Uncounted
             PROVE  (summary.at \in Nat /\ summary.at <= now /\ CountedAt(summary.at, summary.counted))'
  BY DEF SummaryHolds
<1>1. summary.at \in Nat /\ summary.at <= now /\ CountedAt(summary.at, summary.counted)
  BY DEF SummaryHolds
<1>2. PICK a, s : a = summary.at /\ s = summary.counted
  OBVIOUS
<1>3. (a <= now /\ CountedAt(a, s))'
  BY <1>1, <1>2, CountStays
<1> QED
  BY <1>1, <1>2, <1>3

(* What a call takes was covered by what was agreed to when it was made.   *)
LEMMA TakesWhatIsCovered ==
    ASSUME ServerHolds, NEW c, CallCovered(c), c.kind # "restore"
    PROVE  \A x \in T!WithContents(T!Takes(c)) :
              x \in T!Things /\ where[x] # "gone" => x \in c.agreed \cup c.missed
<1> DEFINE S == c.agreed \cup c.missed
<1> SUFFICES ASSUME NEW x \in T!WithContents(T!Takes(c)), x \in T!Things, where[x] # "gone"
             PROVE  x \in S
  OBVIOUS
<1>1. CASE c.kind = "empty"
  <2>1. \A y \in T!Takes(c) : y \in T!Things /\ where[y] = "trash" /\ stamp[y] <= c.at
    BY <1>1 DEF T!Takes, T!Trashed
  <2>2. CountedAt(c.at, S)
    BY <1>1 DEF CallCovered
  <2>3. CASE x \in T!Takes(c)
    BY <2>1, <2>2, <2>3 DEF CountedAt
  <2>4. CASE x \in Recordings /\ Shelf \in T!Takes(c)
    BY <2>1, <2>2, <2>4 DEF CountedAt
  <2> QED
    BY <2>3, <2>4 DEF T!WithContents
<1>2. CASE c.kind # "empty"
  <2>1. T!Takes(c) \subseteq c.libraries \cup c.recordings
    BY <1>2 DEF T!Takes, T!Trashed
  <2>2. Named(c.libraries, c.recordings, S)
    BY <1>2 DEF CallCovered
  <2>3. CASE x \in T!Takes(c)
    BY <2>1, <2>2, <2>3 DEF Named
  <2>4. CASE x \in Recordings /\ Shelf \in T!Takes(c)
    BY <2>1, <2>2, <2>4, ShelfFacts DEF Named
  <2> QED
    BY <2>3, <2>4 DEF T!WithContents
<1> QED
  BY <1>1, <1>2

-----------------------------------------------------------------------------
(* Each action of the screen.                                              *)

\* The instance stands still.
LEMMA StandsStill ==
    ASSUME ServerHolds, UNCHANGED T!server
    PROVE  ServerHolds' /\ Moved
BY DEF ServerHolds, Moved, T!server

LEMMA CallsStand ==
    ASSUME ServerHolds, Moved, \A c \in calls : CallCovered(c),
           \A c \in calls' : c \in calls \/ CallCovered(c)'
    PROVE  \A c \in calls' : CallCovered(c)'
BY CoveredStays

LEMMA ReadsKeep ==
    ASSUME TrashPageInv, T!ReadLibraries \/ T!ReadRecordings
    PROVE  TrashPageInv'
<1>1. UNCHANGED <<T!server, summary, ticked, calls>>
  BY DEF T!ReadLibraries, T!ReadRecordings, T!screen
<1>2. ServerHolds' /\ Moved
  BY <1>1, StandsStill DEF TrashPageInv
<1>3. SummaryHolds' /\ \A c \in calls' : CallCovered(c)'
  BY <1>1, <1>2, SummaryStays, CallsStand DEF TrashPageInv
<1>4. ListsHold'
  <2>1. CASE T!ReadLibraries
    <3>1. /\ DOMAIN libraries' \subseteq {Shelf}
          /\ \A l \in DOMAIN libraries' : libraries'[l] = {r \in Recordings : where[r] = "live"}
      BY <2>1, ShelfFacts DEF T!ReadLibraries, T!TrashedLibraries
    <3>2. /\ changed' = [libraries |-> {}, recordings |-> changed.recordings]
          /\ recordings' = recordings /\ where' = where
      BY <1>1, <2>1 DEF T!ReadLibraries, TrashPageInv, ListsHold, T!server
    <3> QED
      BY <1>1, <3>1, <3>2 DEF TrashPageInv, ListsHold
  <2>2. CASE T!ReadRecordings
    <3>1. recordings' = {r \in Recordings : where[r] = "trash"}
      BY <2>2 DEF T!ReadRecordings, T!TrashedRecordings
    <3>2. /\ changed' = [libraries |-> changed.libraries, recordings |-> {}]
          /\ libraries' = libraries /\ where' = where
      BY <1>1, <2>2 DEF T!ReadRecordings, TrashPageInv, ListsHold, T!server
    <3> QED
      BY <1>1, <3>1, <3>2 DEF TrashPageInv, ListsHold
  <2> QED
    BY <2>1, <2>2
<1> QED
  BY <1>2, <1>3, <1>4 DEF TrashPageInv

(* The numbers count all that is in the trash when they are read.          *)
LEMMA CountKeeps ==
    ASSUME TrashPageInv, T!Count
    PROVE  TrashPageInv'
<1>1. UNCHANGED <<T!server, T!lists, ticked, calls>>
  BY DEF T!Count
<1>2. ServerHolds' /\ Moved
  BY <1>1, StandsStill DEF TrashPageInv
<1>3. ListsHold'
  BY <1>1 DEF TrashPageInv, ListsHold, T!lists, T!server
<1>4. \A c \in calls' : CallCovered(c)'
  BY <1>1, <1>2, CallsStand DEF TrashPageInv
<1>5. SummaryHolds'
  <2>1. PICK s : /\ summary' = [at |-> now, counted |-> s]
                 /\ s = T!TrashedRecordings \cup
                          UNION {{l} \cup {r \in T!In(l) : where[r] # "gone"} : l \in DOMAIN T!TrashedLibraries}
    BY DEF T!Count
  <2>2. CountedAt(now, s)
    <3>1. \A r \in Recordings : where[r] = "trash" => r \in s
      BY <2>1 DEF T!TrashedRecordings
    <3>2. where[Shelf] = "trash" => /\ Shelf \in s
                                    /\ \A r \in Recordings : where[r] # "gone" => r \in s
      <4> SUFFICES ASSUME where[Shelf] = "trash" PROVE {Shelf} \cup {r \in Recordings : where[r] # "gone"} \subseteq s
        OBVIOUS
      <4>1. Shelf \in DOMAIN T!TrashedLibraries
        BY DEF T!TrashedLibraries
      <4> QED
        BY <2>1, <4>1, ShelfFacts
    <3> QED
      BY <3>1, <3>2, ShelfFacts DEF CountedAt
  <2>3. CountedAt(now, s)' /\ now' = now
    BY <1>1, <2>2 DEF CountedAt, T!server, T!Things
  <2> QED
    BY <2>1, <2>3, <1>2 DEF SummaryHolds, ServerHolds
<1> QED
  BY <1>2, <1>3, <1>4, <1>5 DEF TrashPageInv

LEMMA TicksKeep ==
    ASSUME TrashPageInv, T!Tick \/ T!TickAll \/ T!Close \/ (\E what \in {"selection", "everything"} : T!Open(what))
    PROVE  TrashPageInv'
<1>1. UNCHANGED <<T!server, T!lists, summary, calls>>
  BY DEF T!Tick, T!TickAll, T!Close, T!Open
<1>2. ServerHolds' /\ Moved
  BY <1>1, StandsStill DEF TrashPageInv
<1>3. ticked' \subseteq T!Things
  BY ShelfFacts DEF T!Tick, T!TickAll, T!Close, T!Open, T!Shown, T!selected, T!Entries,
     TrashPageInv, ListsHold
<1>4. ListsHold'
  BY <1>1, <1>3 DEF TrashPageInv, ListsHold, T!lists, T!server, T!Things
<1> QED
  BY <1>1, <1>2, <1>4, SummaryStays, CallsStand DEF TrashPageInv

(* A row's buttons: what is purged names the one thing and what it holds.  *)
LEMMA RowsKeep ==
    ASSUME TrashPageInv, (\E x \in T!Things : T!Restore(x) \/ T!Purge(x)) \/ (\E r \in Recordings : T!RestoreBoth(r))
    PROVE  TrashPageInv'
<1>1. UNCHANGED <<T!server, T!lists, T!screen>>
  BY DEF T!Restore, T!Purge, T!RestoreBoth
<1>2. ServerHolds' /\ Moved /\ UNCHANGED <<summary, ticked>>
  BY <1>1, StandsStill DEF TrashPageInv, T!screen
<1>3. ListsHold'
  BY <1>1, <1>2 DEF TrashPageInv, ListsHold, T!lists, T!server, T!Things
<1>4. \A c \in calls' : c \in calls \/ CallCovered(c)
  <2>1. ASSUME NEW x \in T!Things, T!Restore(x)
        PROVE  \A c \in calls' : c \in calls \/ CallCovered(c)
    <3> DEFINE c == [T!NoCall EXCEPT !.kind = "restore", !.libraries = {x} \cap {Shelf},
                           !.recordings = {x} \cap Recordings, !.id = asked]
    <3>1. calls' = calls \cup {c}
      BY <2>1 DEF T!Restore, T!Call, T!NoCall
    <3>2. CallCovered(c)
      BY DEF CallCovered, T!NoCall
    <3> QED
      BY <3>1, <3>2
  <2>2. ASSUME NEW x \in T!Things, T!Purge(x)
        PROVE  \A c \in calls' : c \in calls \/ CallCovered(c)
    <3> DEFINE c == [T!NoCall EXCEPT !.kind = "purge", !.libraries = {x} \cap {Shelf},
                           !.recordings = {x} \cap Recordings,
                           !.agreed = {x} \cup (IF x \in {Shelf} THEN T!In(x) ELSE {}),
                           !.id = asked]
    <3>1. calls' = calls \cup {c}
      BY <2>2 DEF T!Purge, T!Call, T!NoCall
    <3>2. /\ c.kind = "purge" /\ c.libraries = {x} \cap {Shelf}
          /\ c.recordings = {x} \cap Recordings
          /\ {x} \subseteq c.agreed
          /\ x = Shelf => Recordings \subseteq c.agreed
      BY ShelfFacts DEF T!NoCall
    <3> HIDE DEF c
    <3>3. CallCovered(c)
      BY <3>2 DEF CallCovered, Named
    <3> QED
      BY <3>1, <3>3
  <2>3. ASSUME NEW r \in Recordings, T!RestoreBoth(r)
        PROVE  \A c \in calls' : c \in calls \/ CallCovered(c)
    <3> DEFINE c == [T!NoCall EXCEPT !.id = asked, !.kind = "restore", !.libraries = {Shelf}]
               d == [T!NoCall EXCEPT !.id = asked + 1, !.kind = "restore", !.recordings = {r}]
    <3>1. calls' = calls \cup {c, d}
      BY <2>3 DEF T!RestoreBoth, T!NoCall
    <3>2. CallCovered(c) /\ CallCovered(d)
      BY DEF CallCovered, T!NoCall
    <3> QED
      BY <3>1, <3>2
  <2> QED
    BY <2>1, <2>2, <2>3
<1>5. \A c \in calls' : c \in calls \/ CallCovered(c)'
  BY <1>2, <1>4, CoveredStays DEF TrashPageInv
<1> QED
  BY <1>2, <1>3, <1>5, SummaryStays, CallsStand DEF TrashPageInv

(* What a selection is sent as is counted, or is noted as missed.          *)
LEMMA SelectionKeeps ==
    ASSUME TrashPageInv, T!ConfirmSelection
    PROVE  TrashPageInv'
<1>1. UNCHANGED <<T!server, T!lists, ticked, summary>>
  BY DEF T!ConfirmSelection
<1>2. ServerHolds' /\ Moved
  BY <1>1, StandsStill DEF TrashPageInv
<1>3. ListsHold'
  BY <1>1 DEF TrashPageInv, ListsHold, T!lists, T!server, T!Things
<1> DEFINE c == [T!NoCall EXCEPT !.kind = "purge", !.libraries = T!doomed.libraries,
                           !.recordings = T!doomed.recordings,
                           !.agreed = T!doomed.counted, !.missed = T!Missed, !.id = asked]
<1>4. calls' = calls \cup {c}
  BY DEF T!ConfirmSelection, T!Call, T!NoCall
<1>5. /\ c.kind = "purge" /\ c.libraries = T!doomed.libraries
      /\ c.recordings = T!doomed.recordings
      /\ c.agreed = T!doomed.counted /\ c.missed = T!Missed
  BY DEF T!NoCall
<1> HIDE DEF c
<1> DEFINE ls == T!selected \cap {Shelf}
           rs == {r \in T!selected \cap Recordings : Shelf \notin ls}
<1>6. /\ T!doomed.libraries = ls /\ T!doomed.recordings = rs
      /\ T!doomed.counted = ls \cup rs \cup UNION {libraries[l] \cup (recordings \cap T!In(l)) : l \in ls}
  BY DEF T!doomed
<1>7. ls \subseteq DOMAIN libraries
  BY ShelfFacts DEF T!selected, T!Shown, TrashPageInv, ListsHold
<1>8. ASSUME Shelf \in ls, NEW r \in Recordings, where[r] # "gone"
      PROVE  r \in T!doomed.counted \cup T!Missed
  <2>1. where[r] \in {"live", "trash"}
    BY <1>8, ShelfFacts DEF TrashPageInv, ServerHolds
  <2>2. CASE where[r] = "live"
    <3>1. r \in libraries[Shelf] \/ r \in changed.libraries
      BY <1>7, <1>8, <2>2 DEF TrashPageInv, ListsHold
    <3> QED
      BY <1>6, <1>8, <2>2, <3>1 DEF T!Missed
  <2>3. CASE where[r] = "trash"
    <3>1. r \in recordings \/ r \in changed.recordings
      BY <2>3 DEF TrashPageInv, ListsHold
    <3> QED
      BY <1>6, <1>8, <2>3, <3>1, ShelfFacts DEF T!Missed
  <2> QED
    BY <2>1, <2>2, <2>3
<1>9. Named(c.libraries, c.recordings, c.agreed \cup c.missed)
  BY <1>5, <1>6, <1>8 DEF Named
<1>10. CallCovered(c)
  BY <1>5, <1>9 DEF CallCovered, Named
<1>11. \A d \in calls' : d \in calls \/ CallCovered(d)'
  BY <1>2, <1>4, <1>10, CoveredStays DEF TrashPageInv
<1> QED
  BY <1>1, <1>2, <1>3, <1>11, SummaryStays, CallsStand DEF TrashPageInv

(* Emptying sends the instant it was counted at.                         *)
LEMMA EmptyKeeps ==
    ASSUME TrashPageInv, T!ConfirmEmpty
    PROVE  TrashPageInv'
<1>1. UNCHANGED <<T!server, T!lists, ticked, summary>>
  BY DEF T!ConfirmEmpty
<1>2. ServerHolds' /\ Moved
  BY <1>1, StandsStill DEF TrashPageInv
<1>3. ListsHold'
  BY <1>1 DEF TrashPageInv, ListsHold, T!lists, T!server, T!Things
<1> DEFINE c == [T!NoCall EXCEPT !.kind = "empty", !.at = summary.at, !.agreed = summary.counted,
                                 !.id = asked]
<1>4. calls' = calls \cup {c}
  BY DEF T!ConfirmEmpty, T!Call, T!NoCall
<1>5. /\ c.kind = "empty" /\ c.at = summary.at /\ c.agreed = summary.counted /\ c.missed = {}
      /\ c.libraries = {} /\ c.recordings = {}
  BY DEF T!NoCall
<1> HIDE DEF c
<1>6. summary.at \in Nat /\ summary.at <= now /\ CountedAt(summary.at, summary.counted)
  BY DEF T!ConfirmEmpty, TrashPageInv, SummaryHolds
<1>7. c.agreed \cup c.missed = summary.counted
  BY <1>5
<1>8. CallCovered(c)
  BY <1>5, <1>6, <1>7 DEF CallCovered
<1>9. \A d \in calls' : d \in calls \/ CallCovered(d)'
  BY <1>2, <1>4, <1>8, CoveredStays DEF TrashPageInv
<1> QED
  BY <1>1, <1>2, <1>3, <1>9, SummaryStays, CallsStand DEF TrashPageInv

(* What the instance becomes is noted against both lists.                  *)
LEMMA BecomeMoves ==
    ASSUME TrashPageInv, NEW S \in SUBSET T!Things, NEW state \in {"live", "trash", "gone"},
           \A x \in S : where[x] # "gone" \/ state = "gone",
           T!Become(S, state), now' \in Nat, now <= now',
           stamp' \in [T!Things -> Nat], \A x \in T!Things : stamp'[x] <= now',
           \A x \in T!Things : (x \in S /\ state = "trash") \/ stamp'[x] = stamp[x],
           state = "trash" => \A x \in S : now < stamp'[x],
           UNCHANGED <<libraries, recordings>>, ticked' \subseteq T!Things
    PROVE  ServerHolds' /\ Moved /\ ListsHold'
<1>1. /\ where' \in [T!Things -> {"live", "trash", "gone"}]
      /\ \A x \in T!Things : where'[x] = IF x \in S THEN state ELSE where[x]
  BY DEF T!Become, TrashPageInv, ServerHolds
<1>2. /\ changed' = [libraries |-> changed.libraries \cup S, recordings |-> changed.recordings \cup S]
      /\ changed' \in [libraries : SUBSET T!Things, recordings : SUBSET T!Things]
  BY DEF T!Become, TrashPageInv, ListsHold
<1>3. ServerHolds'
  BY <1>1 DEF ServerHolds, T!Things
<1>4. Moved
  BY <1>1 DEF Moved
<1>5. ListsHold'
  BY <1>1, <1>2, ShelfFacts DEF TrashPageInv, ListsHold, T!Things
<1> QED
  BY <1>3, <1>4, <1>5

LEMMA CarryKeeps ==
    ASSUME TrashPageInv, NEW c \in calls, T!CarryOut(c)
    PROVE  TrashPageInv'
<1>1. /\ UNCHANGED <<stamp, now, libraries, recordings, summary>>
      /\ calls' \subseteq calls /\ ticked' \subseteq T!Things
  BY DEF T!CarryOut, TrashPageInv, ListsHold
<1>2. /\ T!Takes(c) \subseteq T!Things /\ \A x \in T!Takes(c) : where[x] = "trash"
      /\ c.libraries \subseteq {Shelf} /\ c.recordings \subseteq Recordings
  BY ShelfFacts DEF T!Takes, T!Trashed, TrashPageInv, CallCovered
<1>3. \A x \in T!WithContents(T!Takes(c)) : x \in T!Things
  BY <1>2, ShelfFacts DEF T!WithContents
<1>4. now' \in Nat /\ now <= now' /\ stamp' \in [T!Things -> Nat]
      /\ \A x \in T!Things : stamp'[x] <= now' /\ stamp'[x] = stamp[x]
  BY <1>1 DEF TrashPageInv, ServerHolds, T!Things
<1>5. CASE c.kind = "restore"
  BY <1>1, <1>2, <1>4, <1>5, BecomeMoves, SummaryStays, CallsStand DEF T!CarryOut, TrashPageInv
<1>6. CASE c.kind # "restore"
  BY <1>1, <1>3, <1>4, <1>6, BecomeMoves, SummaryStays, CallsStand DEF T!CarryOut, TrashPageInv
<1> QED
  BY <1>5, <1>6

(* Another page of the account stamps after everything counted here.       *)
LEMMA ElsewhereKeeps ==
    ASSUME TrashPageInv, T!Elsewhere
    PROVE  TrashPageInv'
<1>1. /\ UNCHANGED <<libraries, recordings, ticked, summary, calls>>
      /\ now' = now + 1 /\ now \in Nat /\ now' \in Nat /\ now <= now'
  BY DEF T!Elsewhere, T!screen, TrashPageInv, ServerHolds
<1>2. ticked' \subseteq T!Things
  BY <1>1 DEF TrashPageInv, ListsHold, T!Things
<1>3. PICK x \in T!Things :
         \/ where[x] = "live" /\ T!Become({x}, "trash") /\ stamp' = [stamp EXCEPT ![x] = now + 1]
         \/ where[x] = "trash" /\ T!Become({x}, "live") /\ UNCHANGED stamp
         \/ where[x] = "trash" /\ T!Become(T!WithContents({x}), "gone") /\ UNCHANGED stamp
  BY DEF T!Elsewhere
<1>4. /\ stamp' \in [T!Things -> Nat] /\ \A y \in T!Things : stamp'[y] <= now'
      /\ \A y \in T!Things : y # x => stamp'[y] = stamp[y]
      /\ stamp'[x] \in {stamp[x], now + 1}
  BY <1>1, <1>3 DEF TrashPageInv, ServerHolds
<1>5. ServerHolds' /\ Moved /\ ListsHold'
  <2>1. CASE where[x] = "live" /\ T!Become({x}, "trash") /\ stamp' = [stamp EXCEPT ![x] = now + 1]
    <3>1. now < stamp'[x]
      BY <1>1, <2>1 DEF TrashPageInv, ServerHolds
    <3> QED
      BY <1>1, <1>2, <1>4, <2>1, <3>1, BecomeMoves
  <2>2. CASE where[x] = "trash" /\ T!Become({x}, "live") /\ UNCHANGED stamp
    BY <1>1, <1>2, <1>4, <2>2, BecomeMoves
  <2>3. CASE where[x] = "trash" /\ T!Become(T!WithContents({x}), "gone") /\ UNCHANGED stamp
    <3>1. T!WithContents({x}) \subseteq T!Things
      BY ShelfFacts DEF T!WithContents
    <3> QED
      BY <1>1, <1>2, <1>4, <2>3, <3>1, BecomeMoves
  <2> QED
    BY <1>3, <2>1, <2>2, <2>3
<1> QED
  BY <1>1, <1>5, SummaryStays, CallsStand DEF TrashPageInv

LEMMA TrashPageInit == T!Init => TrashPageInv
<1> SUFFICES ASSUME T!Init PROVE TrashPageInv
  OBVIOUS
<1>1. /\ where \in [T!Things -> {"live", "trash", "gone"}] /\ now = 1
      /\ \A x \in T!Things : stamp[x] \in {0, 1}
      /\ stamp \in [T!Things -> Nat]
  BY DEF T!Init
<1>2. ServerHolds
  BY <1>1 DEF ServerHolds
<1>3. ListsHold
  BY ShelfFacts DEF T!Init, ListsHold, T!TrashedLibraries, T!TrashedRecordings
<1> QED
  BY <1>2, <1>3 DEF T!Init, TrashPageInv, SummaryHolds

LEMMA TrashPageStep == TrashPageInv /\ [T!Next]_(T!vars) => TrashPageInv'
<1> SUFFICES ASSUME TrashPageInv, [T!Next]_(T!vars) PROVE TrashPageInv'
  OBVIOUS
<1>1. CASE T!Next
  BY <1>1, ReadsKeep, CountKeeps, TicksKeep, RowsKeep, SelectionKeeps, EmptyKeeps, CarryKeeps,
     ElsewhereKeeps DEF T!Next
<1>2. CASE UNCHANGED T!vars
  <2>1. UNCHANGED <<T!server, T!lists, ticked, summary, calls>>
    BY <1>2 DEF T!vars, T!screen
  <2>2. ServerHolds' /\ Moved
    BY <2>1, StandsStill DEF TrashPageInv
  <2>3. ListsHold'
    BY <2>1 DEF TrashPageInv, ListsHold, T!lists, T!server, T!Things
  <2> QED
    BY <2>1, <2>2, <2>3, SummaryStays, CallsStand DEF TrashPageInv
<1> QED
  BY <1>1, <1>2

(* What goes was agreed to, or came between the reading of one list and    *)
(* the other: only a call that is carried out takes a call away.           *)
LEMMA StepAgrees == TrashPageInv /\ [T!Next]_(T!vars) => T!AgreedTo
<1> SUFFICES ASSUME TrashPageInv, [T!Next]_(T!vars),
                    NEW c \in calls \ calls', NEW x \in T!Things, where[x] # "gone", where'[x] = "gone"
             PROVE  x \in c.agreed \cup c.missed
  BY DEF T!AgreedTo
<1>1. T!CarryOut(c)
  <2>1. calls \subseteq calls' \/ \E d \in calls : T!CarryOut(d)
    BY DEF T!Next, T!ReadLibraries, T!ReadRecordings, T!Count, T!Tick, T!TickAll, T!Restore, T!Purge,
       T!RestoreBoth, T!Open, T!Close, T!ConfirmSelection, T!ConfirmEmpty, T!Call, T!Elsewhere, T!vars
  <2> QED
    BY <2>1 DEF T!CarryOut
<1>2. c.kind # "restore"
  BY <1>1 DEF T!CarryOut, T!Become
<1>3. x \in T!WithContents(T!Takes(c))
  BY <1>1, <1>2 DEF T!CarryOut, T!Become
<1> QED
  BY <1>2, <1>3, TakesWhatIsCovered DEF TrashPageInv

(* What leaves for good was in the count the person agreed to, however old *)
(* the lists and the summary are, whatever another page does and in        *)
(* whatever order the calls are carried out, save what came into a         *)
(* selected library, or into the trash, between the reading of one list    *)
(* and the other (selection.ts doomed, BulkPurgeDialog.tsx).               *)
THEOREM OnlyWhatWasAgreed == MCSpec => DestroysWhatWasAgreed
<1>1. MCInit => TrashPageInv
  BY TrashPageInit DEF MCInit
<1>2. [Filed \/ Sorted \/ Parted]_all => [T!Next]_(T!vars)
  BY DEF Filed, Sorted, Parted, all, onTrash, T!vars, T!server, T!lists, T!screen
<1>3. MCSpec => []TrashPageInv
  BY <1>1, <1>2, TrashPageStep, PTL DEF MCSpec
<1>4. ASSUME TrashPageInv, [Filed \/ Sorted \/ Parted]_all
      PROVE  [T!AgreedTo]_(T!vars)
  BY <1>2, <1>4, StepAgrees
<1> QED
  BY <1>3, <1>4, PTL DEF MCSpec, DestroysWhatWasAgreed, T!DestroysWhatWasAgreed
=============================================================================
