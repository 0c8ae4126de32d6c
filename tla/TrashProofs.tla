------------------------------ MODULE TrashProofs ------------------------------
(***************************************************************************)
(* Proofs about Trash, for every number of accounts, libraries and         *)
(* recordings, every retention and every length of time.                   *)
(***************************************************************************)
EXTENDS Trash, FiniteSetTheorems, TLAPS

\* A purge takes libraries and recordings that are in the trash, or in a
\* library that is, and nothing else.
Purges(ls, rs) ==
    /\ Free
    /\ ls \in SUBSET {l \in Libraries : HasLibrary(l) /\ deleted[l] # 0}
    /\ rs \in SUBSET {r \in Recordings :
                        HasAudio(r) /\ (deleted[r] # 0 \/ deleted[home[r]] # 0)}
    /\ Destroy(ls, rs)

\* Every road to destruction is a purge of that kind.
LEMMA RoadsArePurges ==
  ASSUME TypeOK,
         \/ \E u \in Users : Empty(u)
         \/ \E u \in Users, r \in Recordings : PurgeAudio(u, r)
         \/ \E u \in Users, l \in Libraries : PurgeLibrary(u, l)
         \/ \E u \in Users, ls \in SUBSET Libraries, rs \in SUBSET Recordings :
               PurgeSelection(u, ls, rs)
         \/ RetentionPurge
  PROVE  \E ls \in SUBSET Libraries, rs \in SUBSET Recordings : Purges(ls, rs)
<1>1. ASSUME NEW u \in Users, NEW ls \in SUBSET TrashedLibraries(u),
             NEW loose \in SUBSET TrashedAudio(u), Free, Destroy(ls, Within(ls, loose))
      PROVE  Purges(ls, Within(ls, loose)) /\ ls \in SUBSET Libraries
             /\ Within(ls, loose) \in SUBSET Recordings
  <2>1. \A r \in Within(ls, loose) : HasAudio(r) /\ r \in Recordings
                                     /\ (deleted[r] # 0 \/ deleted[home[r]] # 0)
    BY <1>1, TrashAssumption DEF Within, TrashedAudio, TrashedLibraries, HasAudio
  <2> QED
    BY <1>1, <2>1 DEF Purges, TrashedLibraries
<1>2. CASE \E u \in Users : Empty(u)
  <2>1. PICK u \in Users : Empty(u)
    BY <1>2
  <2> DEFINE ls == UpTo(TrashedLibraries(u), summary[u].at)
             loose == UpTo(TrashedAudio(u), summary[u].at)
  <2>2. ls \in SUBSET TrashedLibraries(u) /\ loose \in SUBSET TrashedAudio(u)
    BY DEF UpTo
  <2>3. Free /\ Destroy(ls, Within(ls, loose))
    BY <2>1 DEF Empty
  <2> QED
    BY <1>1, <2>2, <2>3
<1>3. CASE \E u \in Users, r \in Recordings : PurgeAudio(u, r)
  <2>1. PICK u \in Users, r \in Recordings : PurgeAudio(u, r)
    BY <1>3
  <2>2. Within({}, {r}) = {r}
    BY DEF Within
  <2>3. Free /\ Destroy({}, Within({}, {r})) /\ {r} \in SUBSET TrashedAudio(u)
    BY <2>1, <2>2 DEF PurgeAudio
  <2> QED
    BY <1>1, <2>3
<1>4. CASE \E u \in Users, l \in Libraries : PurgeLibrary(u, l)
  <2>1. PICK u \in Users, l \in Libraries : PurgeLibrary(u, l)
    BY <1>4
  <2>2. Within({l}, {}) = Contents(l)
    BY DEF Within, Contents
  <2>3. Free /\ Destroy({l}, Within({l}, {})) /\ {l} \in SUBSET TrashedLibraries(u)
    BY <2>1, <2>2 DEF PurgeLibrary
  <2>4. {} \in SUBSET TrashedAudio(u)
    OBVIOUS
  <2> QED
    BY <1>1, <2>3, <2>4
<1>5. CASE \E u \in Users, ls \in SUBSET Libraries, rs \in SUBSET Recordings :
             PurgeSelection(u, ls, rs)
  <2>1. PICK u \in Users, ls \in SUBSET Libraries, rs \in SUBSET Recordings :
               PurgeSelection(u, ls, rs)
    BY <1>5
  <2> DEFINE libraries == ls \cap TrashedLibraries(u)
             loose == rs \cap TrashedAudio(u)
  <2>2. Free /\ Destroy(libraries, Within(libraries, loose))
    BY <2>1 DEF PurgeSelection
  <2> QED
    BY <1>1, <2>2
<1>6. CASE RetentionPurge
  <2>1. ExpiredRecordings \in SUBSET {r \in Recordings :
             HasAudio(r) /\ (deleted[r] # 0 \/ deleted[home[r]] # 0)}
    BY DEF ExpiredRecordings, Due
  <2>2. ExpiredLibraries \in SUBSET {l \in Libraries : HasLibrary(l) /\ deleted[l] # 0}
    BY DEF ExpiredLibraries, Due
  <2>3. ExpiredLibraries \in SUBSET Libraries /\ ExpiredRecordings \in SUBSET Recordings
    BY <2>1, <2>2
  <2>4. Free /\ Destroy(ExpiredLibraries, ExpiredRecordings)
    BY <1>6 DEF RetentionPurge
  <2> QED
    BY <2>1, <2>2, <2>3, <2>4 DEF Purges
<1> QED
  BY <1>2, <1>3, <1>4, <1>5, <1>6

\* A step of the specification, as the disjunction the proofs split on.
LEMMA NextCases ==
  ASSUME TypeOK, Next
  PROVE  \/ \E u \in Users, l \in Libraries : CreateLibrary(u, l)
         \/ \E u \in Users, r \in Recordings, l \in Libraries : Upload(u, r, l)
         \/ \E u \in Users, r \in Recordings, l \in Libraries : MoveAudio(u, r, l)
         \/ \E u \in Users, r \in Recordings : TrashAudio(u, r)
         \/ \E u \in Users, l \in Libraries : TrashLibrary(u, l)
         \/ Commit
         \/ Rollback
         \/ \E u \in Users, r \in Recordings : RestoreAudio(u, r)
         \/ \E u \in Users, l \in Libraries : RestoreLibrary(u, l)
         \/ \E ls \in SUBSET Libraries, rs \in SUBSET Recordings : Purges(ls, rs)
         \/ \E u, v \in Users, l \in Libraries, g \in Grantable : ShareLibrary(u, l, v, g)
         \/ \E u, v \in Users, l \in Libraries : UnshareLibrary(u, l, v)
         \/ \E u, v \in Users, r \in Recordings, g \in Grantable : ShareAudio(u, r, v, g)
         \/ \E u, v \in Users, r \in Recordings : UnshareAudio(u, r, v)
         \/ \E u \in Users : AskSummary(u)
         \/ \E u \in Users : CountLibraries(u)
         \/ \E u \in Users : CountRecordings(u)
         \/ Tick
<1>1. CASE \E u \in Users : OnTrash(u)
  BY <1>1, RoadsArePurges DEF OnTrash
<1>2. CASE \E u \in Users, l \in Libraries : OnLibrary(u, l)
  BY <1>2, RoadsArePurges DEF OnLibrary
<1>3. CASE \E u \in Users, r \in Recordings : OnAudio(u, r)
  BY <1>3, RoadsArePurges DEF OnAudio
<1>4. CASE RetentionPurge
  BY <1>4, RoadsArePurges
<1> QED
  BY <1>1, <1>2, <1>3, <1>4, Zenon DEF Next

-----------------------------------------------------------------------------
(* Types *)

\* What an account's look at the trash becomes is a summary again.
LEMMA SummaryTypes ==
  /\ \A s \in Summaries, T \in SUBSET Things : [s EXCEPT !.missed = T] \in Summaries
  /\ \A s \in Summaries, b \in BOOLEAN : [s EXCEPT !.given = b] \in Summaries
  /\ \A s \in Summaries, L \in SUBSET Libraries :
        [s EXCEPT !.step = "half", !.libraries = L] \in Summaries
  /\ \A s \in Summaries, R \in SUBSET Recordings :
        [s EXCEPT !.step = "counted", !.recordings = R] \in Summaries
  /\ \A n \in 0..MaxTime : [Unasked EXCEPT !.step = "asked", !.at = n] \in Summaries
<1>1. \A s \in Summaries, T \in SUBSET Things : [s EXCEPT !.missed = T] \in Summaries
  BY DEF Summaries
<1>2. \A s \in Summaries, b \in BOOLEAN : [s EXCEPT !.given = b] \in Summaries
  BY DEF Summaries
<1>3. \A q \in Summaries, x \in {"none", "asked", "half", "counted"} :
         [q EXCEPT !.step = x] \in Summaries
  BY DEF Summaries
<1>4. ASSUME NEW s \in Summaries, NEW L \in SUBSET Libraries
      PROVE  [s EXCEPT !.step = "half", !.libraries = L] \in Summaries
  <2>1. \A q \in Summaries : [q EXCEPT !.libraries = L] \in Summaries
    BY DEF Summaries
  <2>2. [s EXCEPT !.step = "half", !.libraries = L]
          = [[s EXCEPT !.step = "half"] EXCEPT !.libraries = L]
    BY DEF Summaries
  <2> QED
    BY <1>3, <2>1, <2>2
<1>5. ASSUME NEW s \in Summaries, NEW R \in SUBSET Recordings
      PROVE  [s EXCEPT !.step = "counted", !.recordings = R] \in Summaries
  <2>1. \A q \in Summaries : [q EXCEPT !.recordings = R] \in Summaries
    BY DEF Summaries
  <2>2. [s EXCEPT !.step = "counted", !.recordings = R]
          = [[s EXCEPT !.step = "counted"] EXCEPT !.recordings = R]
    BY DEF Summaries
  <2> QED
    BY <1>3, <2>1, <2>2
<1>6. ASSUME NEW n \in 0..MaxTime
      PROVE  [Unasked EXCEPT !.step = "asked", !.at = n] \in Summaries
  <2>1. \A q \in Summaries : [q EXCEPT !.at = n] \in Summaries
    BY DEF Summaries
  <2>2. Unasked \in Summaries
    BY TrashAssumption DEF Unasked, Summaries
  <2>3. [Unasked EXCEPT !.step = "asked", !.at = n]
          = [[Unasked EXCEPT !.step = "asked"] EXCEPT !.at = n]
    BY DEF Unasked
  <2> QED
    BY <1>3, <2>1, <2>2, <2>3
<1> QED
  BY <1>1, <1>2, <1>4, <1>5, <1>6

LEMMA TypesInit == Init => TypeOK
<1> SUFFICES ASSUME Init PROVE TypeOK
  OBVIOUS
<1>1. Unasked \in Summaries
  BY TrashAssumption DEF Unasked, Summaries
<1>2. summary \in [Users -> Summaries]
  BY <1>1 DEF Init
<1>3. grant \in [Things -> [Users -> {NO_ACCESS, EDIT, MANAGE}]]
  BY DEF Init
<1>4. now \in 1..MaxTime /\ 0 \in 0..MaxTime
  BY TrashAssumption DEF Init
<1> QED
  BY <1>2, <1>3, <1>4 DEF Init, TypeOK

\* A purge leaves every variable its type.
LEMMA PurgesType ==
  ASSUME TypeOK, NEW ls \in SUBSET Libraries, NEW rs \in SUBSET Recordings, Purges(ls, rs)
  PROVE  TypeOK'
<1> USE DEF Purges, Destroy
<1>1. owner' \in [Libraries -> Users \cup {NoUser}]
  BY DEF TypeOK
<1>2. home' \in [Recordings -> Libraries \cup {Nowhere}]
  BY DEF TypeOK
<1>3. deleted' \in [Things -> 0..MaxTime]
  BY TrashAssumption DEF TypeOK
<1>4. grant' \in [Things -> [Users -> {NO_ACCESS, EDIT, MANAGE}]]
  BY DEF TypeOK
<1>5. gone' \subseteq Things
  BY DEF TypeOK, Things
<1> QED
  BY <1>1, <1>2, <1>3, <1>4, <1>5 DEF TypeOK

LEMMA TypesNext == TypeOK /\ [Next]_vars => TypeOK'
<1> SUFFICES ASSUME TypeOK, [Next]_vars PROVE TypeOK'
  OBVIOUS
<1> USE DEF TypeOK
<1>1. CASE UNCHANGED vars
  BY <1>1 DEF vars
<1>2. ASSUME NEW u \in Users, NEW l \in Libraries, CreateLibrary(u, l) PROVE TypeOK'
  BY <1>2 DEF CreateLibrary
<1>3. ASSUME NEW u \in Users, NEW r \in Recordings, NEW l \in Libraries, Upload(u, r, l)
      PROVE  TypeOK'
  BY <1>3 DEF Upload
<1>4. ASSUME NEW u \in Users, NEW r \in Recordings, NEW l \in Libraries, MoveAudio(u, r, l)
      PROVE  TypeOK'
  BY <1>4 DEF MoveAudio
<1>5. ASSUME NEW u \in Users, NEW r \in Recordings, TrashAudio(u, r) PROVE TypeOK'
  BY <1>5 DEF TrashAudio, Things
<1>6. ASSUME NEW u \in Users, NEW l \in Libraries, TrashLibrary(u, l) PROVE TypeOK'
  BY <1>6 DEF TrashLibrary, Things
<1>7. CASE Commit
  <2>1. writer \in Things \X (1..MaxTime)
    BY <1>7 DEF Commit, Free
  <2>2. writer[1] \in Things /\ writer[2] \in 0..MaxTime
    BY <2>1
  <2>3. deleted' \in [Things -> 0..MaxTime]
    BY <1>7, <2>2 DEF Commit
  <2>4. ASSUME NEW u \in Users
        PROVE  [summary[u] EXCEPT !.missed = @ \cup {writer[1]}] \in Summaries
    <3>1. summary[u] \in Summaries /\ summary[u].missed \in SUBSET Things
      BY DEF Summaries
    <3>2. summary[u].missed \cup {writer[1]} \in SUBSET Things
      BY <3>1, <2>2
    <3> QED
      BY <3>1, <3>2, SummaryTypes, TrashAssumption
  <2>5. summary' \in [Users -> Summaries]
    BY <1>7, <2>4 DEF Commit
  <2> QED
    BY <1>7, <2>3, <2>5 DEF Commit
<1>8. CASE Rollback
  BY <1>8 DEF Rollback
<1>9. ASSUME NEW u \in Users, NEW r \in Recordings, RestoreAudio(u, r) PROVE TypeOK'
  BY <1>9, TrashAssumption DEF RestoreAudio, Things
<1>10. ASSUME NEW u \in Users, NEW l \in Libraries, RestoreLibrary(u, l) PROVE TypeOK'
  BY <1>10, TrashAssumption DEF RestoreLibrary, Things
<1>11. ASSUME NEW ls \in SUBSET Libraries, NEW rs \in SUBSET Recordings, Purges(ls, rs)
       PROVE  TypeOK'
  BY <1>11, PurgesType
<1>12. ASSUME NEW v \in Users PROVE Told(v) \in [Users -> Summaries]
  <2>1. [summary[v] EXCEPT !.given = summary[v].step # "none"] \in Summaries
    BY SummaryTypes, TrashAssumption
  <2> QED
    BY <2>1 DEF Told
<1>13. ASSUME NEW u \in Users, NEW v \in Users, NEW l \in Libraries, NEW g \in Grantable,
              ShareLibrary(u, l, v, g)
       PROVE  TypeOK'
  <2>1. grant' \in [Things -> [Users -> {NO_ACCESS, EDIT, MANAGE}]]
    BY <1>13 DEF ShareLibrary, Grantable
  <2> QED
    BY <1>12, <1>13, <2>1 DEF ShareLibrary
<1>14. ASSUME NEW u \in Users, NEW v \in Users, NEW l \in Libraries, UnshareLibrary(u, l, v)
       PROVE  TypeOK'
  <2>1. grant' \in [Things -> [Users -> {NO_ACCESS, EDIT, MANAGE}]]
    BY <1>14 DEF UnshareLibrary
  <2> QED
    BY <1>14, <2>1 DEF UnshareLibrary
<1>15. ASSUME NEW u \in Users, NEW v \in Users, NEW r \in Recordings, NEW g \in Grantable,
              ShareAudio(u, r, v, g)
       PROVE  TypeOK'
  <2>1. grant' \in [Things -> [Users -> {NO_ACCESS, EDIT, MANAGE}]]
    BY <1>15 DEF ShareAudio, Grantable
  <2> QED
    BY <1>12, <1>15, <2>1 DEF ShareAudio
<1>16. ASSUME NEW u \in Users, NEW v \in Users, NEW r \in Recordings, UnshareAudio(u, r, v)
       PROVE  TypeOK'
  <2>1. grant' \in [Things -> [Users -> {NO_ACCESS, EDIT, MANAGE}]]
    BY <1>16 DEF UnshareAudio
  <2> QED
    BY <1>16, <2>1 DEF UnshareAudio
<1>17. ASSUME NEW u \in Users, AskSummary(u) PROVE TypeOK'
  <2>1. now \in 0..MaxTime /\ {} \in SUBSET Things /\ {} \in SUBSET Libraries
        /\ {} \in SUBSET Recordings
    BY TrashAssumption
  <2>2. [Unasked EXCEPT !.step = "asked", !.at = now] \in Summaries
    BY <2>1, SummaryTypes
  <2>3. summary' \in [Users -> Summaries]
    BY <1>17, <2>2 DEF AskSummary
  <2> QED
    BY <1>17, <2>3 DEF AskSummary
<1>18. ASSUME NEW u \in Users, CountLibraries(u) PROVE TypeOK'
  <2> DEFINE L == UpTo(TrashedLibraries(u), summary[u].at)
  <2>1. L \in SUBSET Libraries
    BY DEF UpTo, TrashedLibraries
  <2>2. [summary[u] EXCEPT !.step = "half", !.libraries = L] \in Summaries
    <3> HIDE DEF L
    <3> QED BY <2>1, SummaryTypes, TrashAssumption
  <2>3. summary' \in [Users -> Summaries]
    BY <1>18, <2>2 DEF CountLibraries
  <2> QED
    BY <1>18, <2>3 DEF CountLibraries
<1>19. ASSUME NEW u \in Users, CountRecordings(u) PROVE TypeOK'
  <2> DEFINE R == Within(summary[u].libraries, UpTo(TrashedAudio(u), summary[u].at))
  <2>1. R \in SUBSET Recordings
    BY DEF Within, UpTo, TrashedAudio
  <2>2. [summary[u] EXCEPT !.step = "counted", !.recordings = R] \in Summaries
    <3> HIDE DEF R
    <3> QED BY <2>1, SummaryTypes, TrashAssumption
  <2>3. summary' \in [Users -> Summaries]
    BY <1>19, <2>2 DEF CountRecordings
  <2> QED
    BY <1>19, <2>3 DEF CountRecordings
<1>20. CASE Tick
  BY <1>20, TrashAssumption DEF Tick
<1> QED
  BY <1>1, <1>2, <1>3, <1>4, <1>5, <1>6, <1>7, <1>8, <1>9, <1>10, <1>11, <1>13, <1>14,
     <1>15, <1>16, <1>17, <1>18, <1>19, <1>20, NextCases

\* Every variable keeps its type.
THEOREM TypeCorrect == Spec => []TypeOK
BY TypesInit, TypesNext, PTL DEF Spec

-----------------------------------------------------------------------------
(* The invariant *)

LEMMA InvariantInit == Init => TrashInv
<1> SUFFICES ASSUME Init PROVE TrashInv
  OBVIOUS
<1>1. ASSUME NEW u \in Users PROVE \E l \in Libraries : owner[l] = u /\ deleted[l] = 0
  <2> DEFINE mine == {l \in Libraries : owner[l] = u}
  <2>1. Cardinality(mine) = 1
    BY DEF Init
  <2>2. mine # {}
    BY <2>1, FS_EmptySet
  <2> QED
    BY <2>2 DEF Init, Things
<1>2. KeepsALibrary
  BY <1>1 DEF KeepsALibrary
<1>3. NothingAdrift /\ WriterSound /\ BlankRows
  BY DEF Init, NothingAdrift, WriterSound, BlankRows, HasAudio, Free, Things
<1> QED
  BY <1>2, <1>3, TypesInit DEF TrashInv

\* A purge takes trashed libraries only, whole, and nothing of what stays.
LEMMA PurgesInv ==
  ASSUME TrashInv, NEW ls \in SUBSET Libraries, NEW rs \in SUBSET Recordings, Purges(ls, rs)
  PROVE  KeepsALibrary' /\ NothingAdrift' /\ WriterSound' /\ BlankRows'
<1> USE DEF TrashInv, TypeOK, Purges, Destroy, Things, HasLibrary, HasAudio
<1>1. \A l \in Libraries \ ls : owner'[l] = owner[l] /\ deleted'[l] = deleted[l]
  BY TrashAssumption
<1>2. \A l \in ls : owner'[l] = NoUser /\ deleted'[l] = 0
  OBVIOUS
<1>3. KeepsALibrary'
  <2>1. \A l \in Libraries : deleted[l] = 0 => l \notin ls
    OBVIOUS
  <2> QED
    BY <1>1, <2>1 DEF KeepsALibrary
<1>4. NothingAdrift'
  <2>1. ASSUME NEW r \in Recordings, home'[r] # Nowhere
        PROVE  owner'[home'[r]] # NoUser
    <3>1. r \notin rs /\ home'[r] = home[r] /\ home[r] \in Libraries
      BY <2>1
    <3>2. home[r] \notin ls
      BY <3>1
    <3>3. owner[home[r]] # NoUser
      BY <2>1, <3>1 DEF NothingAdrift
    <3>4. owner'[home[r]] = owner[home[r]]
      BY <1>1, <3>1, <3>2
    <3> QED
      BY <3>1, <3>3, <3>4
  <2> QED
    BY <2>1 DEF NothingAdrift
<1>5. WriterSound'
  BY DEF WriterSound, Free
<1>6. BlankRows'
  <2>1. \A l \in Libraries : owner'[l] = NoUser => deleted'[l] = 0
    BY <1>1, <1>2 DEF BlankRows
  <2>2. \A r \in Recordings : home'[r] = Nowhere => deleted'[r] = 0
    BY TrashAssumption DEF BlankRows
  <2> QED
    BY <2>1, <2>2 DEF BlankRows
<1> QED
  BY <1>3, <1>4, <1>5, <1>6

LEMMA InvariantNext == TrashInv /\ [Next]_vars => TrashInv'
<1> SUFFICES ASSUME TrashInv, [Next]_vars
             PROVE  KeepsALibrary' /\ NothingAdrift' /\ WriterSound' /\ BlankRows'
  BY TypesNext DEF TrashInv
<1> USE DEF TrashInv, TypeOK
<1> DEFINE Goal == KeepsALibrary' /\ NothingAdrift' /\ WriterSound' /\ BlankRows'
\* A step that leaves the rows and the lock alone.
<1>1. ASSUME UNCHANGED <<owner, home, deleted, writer>> PROVE Goal
  BY <1>1 DEF KeepsALibrary, NothingAdrift, WriterSound, BlankRows, HasLibrary, HasAudio,
              Free, LiveLibrary, LiveAudio, AnotherLibrary
<1>2. ASSUME UNCHANGED vars PROVE Goal
  BY <1>1, <1>2 DEF vars
<1>3. ASSUME NEW u \in Users, NEW l \in Libraries, CreateLibrary(u, l) PROVE Goal
  <2> USE <1>3 DEF CreateLibrary, HasLibrary, HasAudio, Free
  <2>1. owner'[l] = u /\ \A m \in Libraries \ {l} : owner'[m] = owner[m]
    OBVIOUS
  <2>2. KeepsALibrary'
    BY <2>1, TrashAssumption DEF KeepsALibrary
  <2>3. NothingAdrift'
    BY <2>1, TrashAssumption DEF NothingAdrift
  <2>4. BlankRows'
    BY <2>1 DEF BlankRows
  <2> QED
    BY <2>2, <2>3, <2>4 DEF WriterSound
<1>4. ASSUME NEW u \in Users, NEW r \in Recordings, NEW l \in Libraries,
             Upload(u, r, l) \/ MoveAudio(u, r, l)
      PROVE  Goal
  <2>1. /\ home' = [home EXCEPT ![r] = l] /\ HasLibrary(l)
        /\ UNCHANGED <<owner, deleted, writer>> /\ Free
    BY <1>4 DEF Upload, MoveAudio, LiveLibrary
  <2>2. KeepsALibrary'
    BY <2>1 DEF KeepsALibrary
  <2>3. NothingAdrift'
    BY <2>1 DEF NothingAdrift, HasLibrary, HasAudio
  <2>4. BlankRows'
    BY <2>1, TrashAssumption DEF BlankRows, HasLibrary, HasAudio
  <2> QED
    BY <2>1, <2>2, <2>3, <2>4 DEF WriterSound, Free
<1>5. ASSUME NEW u \in Users, NEW r \in Recordings, TrashAudio(u, r) PROVE Goal
  <2>1. writer' = <<r, now>> /\ LiveAudio(r) /\ r \notin Libraries
        /\ UNCHANGED <<owner, home, deleted>>
    BY <1>5, TrashAssumption DEF TrashAudio
  <2>2. WriterSound'
    BY <2>1 DEF WriterSound, LiveAudio, HasAudio
  <2> QED
    BY <2>1, <2>2 DEF KeepsALibrary, NothingAdrift, BlankRows, HasLibrary, HasAudio
<1>6. ASSUME NEW u \in Users, NEW l \in Libraries, TrashLibrary(u, l) PROVE Goal
  <2>1. writer' = <<l, now>> /\ LiveLibrary(l) /\ AnotherLibrary(l) /\ l \notin Recordings
        /\ UNCHANGED <<owner, home, deleted>>
    BY <1>6, TrashAssumption DEF TrashLibrary
  <2>2. WriterSound'
    BY <2>1 DEF WriterSound, LiveLibrary, AnotherLibrary, HasLibrary
  <2> QED
    BY <2>1, <2>2 DEF KeepsALibrary, NothingAdrift, BlankRows, HasLibrary, HasAudio
<1>7. ASSUME Commit PROVE Goal
  <2>1. /\ writer \in Things \X (1..MaxTime) /\ writer' = NoWrite
        /\ deleted' = [deleted EXCEPT ![writer[1]] = writer[2]]
        /\ UNCHANGED <<owner, home>>
    BY <1>7 DEF Commit, Free
  <2>2. writer[1] \in Things /\ ~Free
    BY <2>1, <1>7 DEF Commit
  <2>3. \A t \in Things \ {writer[1]} : deleted'[t] = deleted[t]
    BY <2>1
  <2>4. KeepsALibrary'
    <3>1. ASSUME NEW u \in Users
          PROVE  \E l \in Libraries : owner[l] = u /\ deleted'[l] = 0
      <4>1. PICK l \in Libraries : owner[l] = u /\ deleted[l] = 0
        BY DEF KeepsALibrary
      <4>2. CASE l # writer[1]
        BY <4>1, <4>2, <2>3 DEF Things
      <4>3. CASE l = writer[1]
        <5>1. PICK m \in Libraries \ {l} : owner[m] = owner[l] /\ deleted[m] = 0
          BY <4>3, <2>2 DEF WriterSound, AnotherLibrary
        <5> QED
          BY <4>1, <4>3, <5>1, <2>3 DEF Things
      <4> QED
        BY <4>2, <4>3
    <3> QED
      BY <3>1, <2>1 DEF KeepsALibrary
  <2>5. NothingAdrift'
    BY <2>1 DEF NothingAdrift, HasLibrary, HasAudio
  <2>6. BlankRows'
    <3>1. \A l \in Libraries : ~HasLibrary(l) => l # writer[1]
      BY <2>2 DEF WriterSound, LiveLibrary
    <3>2. \A r \in Recordings : ~HasAudio(r) => r # writer[1]
      BY <2>2 DEF WriterSound, LiveAudio
    <3> QED
      BY <3>1, <3>2, <2>1, <2>3 DEF BlankRows, Things, HasLibrary, HasAudio
  <2> QED
    BY <2>1, <2>4, <2>5, <2>6 DEF WriterSound, Free
<1>8. ASSUME Rollback PROVE Goal
  BY <1>8 DEF Rollback, KeepsALibrary, NothingAdrift, WriterSound, BlankRows, HasLibrary,
              HasAudio, Free
<1>9. ASSUME NEW t \in Things, Free, deleted' = [deleted EXCEPT ![t] = 0],
             UNCHANGED <<owner, home, writer>>
      PROVE  Goal
  <2>1. \A x \in Things : deleted[x] = 0 => deleted'[x] = 0
    BY <1>9
  <2> QED
    BY <1>9, <2>1 DEF KeepsALibrary, NothingAdrift, WriterSound, BlankRows, HasLibrary,
                      HasAudio, Free, Things
<1>10. ASSUME NEW u \in Users, NEW r \in Recordings, RestoreAudio(u, r) PROVE Goal
  BY <1>9, <1>10 DEF RestoreAudio, Things
<1>11. ASSUME NEW u \in Users, NEW l \in Libraries, RestoreLibrary(u, l) PROVE Goal
  BY <1>9, <1>11 DEF RestoreLibrary, Things
<1>12. ASSUME NEW ls \in SUBSET Libraries, NEW rs \in SUBSET Recordings, Purges(ls, rs)
       PROVE  Goal
  BY <1>12, PurgesInv
<1>13. ASSUME NEW u \in Users, NEW v \in Users, NEW l \in Libraries, NEW g \in Grantable,
              ShareLibrary(u, l, v, g)
       PROVE  Goal
  BY <1>1, <1>13 DEF ShareLibrary
<1>14. ASSUME NEW u \in Users, NEW v \in Users, NEW l \in Libraries, UnshareLibrary(u, l, v)
       PROVE  Goal
  BY <1>1, <1>14 DEF UnshareLibrary
<1>15. ASSUME NEW u \in Users, NEW v \in Users, NEW r \in Recordings, NEW g \in Grantable,
              ShareAudio(u, r, v, g)
       PROVE  Goal
  BY <1>1, <1>15 DEF ShareAudio
<1>16. ASSUME NEW u \in Users, NEW v \in Users, NEW r \in Recordings, UnshareAudio(u, r, v)
       PROVE  Goal
  BY <1>1, <1>16 DEF UnshareAudio
<1>17. ASSUME NEW u \in Users, AskSummary(u) \/ CountLibraries(u) \/ CountRecordings(u)
       PROVE  Goal
  BY <1>1, <1>17 DEF AskSummary, CountLibraries, CountRecordings
<1>18. ASSUME Tick PROVE Goal
  BY <1>1, <1>18 DEF Tick
<1>19. TypeOK
  BY DEF TrashInv
<1> HIDE DEF Goal, TrashInv, TypeOK
<1>20. ASSUME NEW u \in Users, NEW r \in Recordings, NEW l \in Libraries, Upload(u, r, l)
       PROVE  Goal
  BY <1>4, <1>20
<1>21. ASSUME NEW u \in Users, NEW r \in Recordings, NEW l \in Libraries, MoveAudio(u, r, l)
       PROVE  Goal
  BY <1>4, <1>21
<1>22. ASSUME NEW u \in Users, AskSummary(u) PROVE Goal
  BY <1>17, <1>22
<1>23. ASSUME NEW u \in Users, CountLibraries(u) PROVE Goal
  BY <1>17, <1>23
<1>24. ASSUME NEW u \in Users, CountRecordings(u) PROVE Goal
  BY <1>17, <1>24
<1>25. ASSUME Next PROVE Goal
  BY <1>3, <1>5, <1>6, <1>7, <1>8, <1>10, <1>11, <1>12, <1>13, <1>14, <1>15, <1>16, <1>18,
     <1>19, <1>20, <1>21, <1>22, <1>23, <1>24, <1>25, NextCases
<1> QED
  BY <1>2, <1>25 DEF Goal

\* The whole of it, always.
THEOREM TrashInvariant == Spec => []TrashInv
BY InvariantInit, InvariantNext, PTL DEF Spec

\* An account keeps at least one library outside the trash, whatever anybody
\* who manages its libraries does and whatever the purges take (DAT-9).
THEOREM AccountsKeepALibrary == Spec => []KeepsALibrary
<1>1. TrashInv => KeepsALibrary
  BY DEF TrashInv
<1> QED
  BY <1>1, TrashInvariant, PTL

-----------------------------------------------------------------------------
(* Deleting is a trash first *)

\* What a step makes of one recording, as Bin sees it.
Moved(r) == Status(r) = Status(r)' \/ <<Status(r), Status(r)'>> \in B!Moves

LEMMA PurgesMove ==
  ASSUME TrashInv, NEW ls \in SUBSET Libraries, NEW rs \in SUBSET Recordings, Purges(ls, rs),
         NEW r \in Recordings
  PROVE  Moved(r)
<1> USE DEF TrashInv, TypeOK, Purges, Destroy, Things
<1>1. CASE r \in rs
  <2>1. Status(r) = "trashed"
    BY <1>1 DEF Status, LiveAudio
  <2>2. Status(r)' = "gone"
    BY <1>1 DEF Status, HasAudio
  <2> QED
    BY <2>1, <2>2 DEF Moved, B!Moves
<1>2. CASE r \notin rs
  <2>1. home'[r] = home[r] /\ deleted'[r] = deleted[r] /\ (r \in gone' <=> r \in gone)
    BY <1>2, TrashAssumption
  <2>2. home[r] # Nowhere => home[r] \in Libraries \ ls
    BY <1>2
  <2>3. home[r] # Nowhere => deleted'[home[r]] = deleted[home[r]]
    BY <2>2, TrashAssumption
  <2> QED
    BY <2>1, <2>3 DEF Moved, Status, LiveAudio, HasAudio
<1> QED
  BY <1>1, <1>2

LEMMA StepsMove ==
  ASSUME TrashInv, [Next]_vars, NEW r \in Recordings
  PROVE  Moved(r)
<1> USE DEF TrashInv, TypeOK
\* A step that leaves the rows alone.
<1>1. ASSUME UNCHANGED <<home, deleted, gone>> PROVE Moved(r)
  BY <1>1 DEF Moved, Status, LiveAudio, HasAudio
<1>2. ASSUME UNCHANGED vars PROVE Moved(r)
  BY <1>1, <1>2 DEF vars
<1>3. ASSUME NEW u \in Users, NEW l \in Libraries, CreateLibrary(u, l) PROVE Moved(r)
  BY <1>1, <1>3 DEF CreateLibrary
<1>4. ASSUME NEW u \in Users, NEW q \in Recordings, NEW l \in Libraries, Upload(u, q, l)
      PROVE  Moved(r)
  <2>1. CASE q # r
    <3>1. home'[r] = home[r] /\ UNCHANGED <<deleted, gone>>
      BY <1>4, <2>1 DEF Upload
    <3> QED
      BY <3>1 DEF Moved, Status, LiveAudio, HasAudio
  <2>2. CASE q = r
    <3>1. /\ home[r] = Nowhere /\ r \notin gone /\ deleted[r] = 0 /\ deleted[l] = 0
          /\ home'[r] = l /\ l # Nowhere /\ deleted' = deleted
      BY <1>4, <2>2, TrashAssumption DEF Upload, BlankRows, HasAudio, LiveLibrary
    <3>2. Status(r) = "unborn" /\ Status(r)' = "live"
      BY <3>1 DEF Status, LiveAudio, HasAudio
    <3> QED
      BY <3>2 DEF Moved, B!Moves
  <2> QED
    BY <2>1, <2>2
<1>5. ASSUME NEW u \in Users, NEW q \in Recordings, NEW l \in Libraries, MoveAudio(u, q, l)
      PROVE  Moved(r)
  <2>1. CASE q # r
    <3>1. home'[r] = home[r] /\ UNCHANGED <<deleted, gone>>
      BY <1>5, <2>1 DEF MoveAudio
    <3> QED
      BY <3>1 DEF Moved, Status, LiveAudio, HasAudio
  <2>2. CASE q = r
    <3>1. LiveAudio(r) /\ home'[r] = l /\ l # Nowhere /\ deleted[l] = 0 /\ deleted' = deleted
      BY <1>5, <2>2, TrashAssumption DEF MoveAudio, LiveLibrary
    <3>2. Status(r) = "live" /\ Status(r)' = "live"
      BY <3>1 DEF Status, LiveAudio, HasAudio
    <3> QED
      BY <3>2 DEF Moved
  <2> QED
    BY <2>1, <2>2
<1>6. ASSUME NEW u \in Users, NEW q \in Recordings, TrashAudio(u, q) PROVE Moved(r)
  BY <1>1, <1>6 DEF TrashAudio
<1>7. ASSUME NEW u \in Users, NEW l \in Libraries, TrashLibrary(u, l) PROVE Moved(r)
  BY <1>1, <1>7 DEF TrashLibrary
<1>8. ASSUME Commit PROVE Moved(r)
  <2>1. /\ writer \in Things \X (1..MaxTime)
        /\ deleted' = [deleted EXCEPT ![writer[1]] = writer[2]]
        /\ UNCHANGED <<home, gone>>
    BY <1>8 DEF Commit, Free
  <2>2. \A t \in Things : deleted'[t] = 0 => deleted[t] = 0
    BY <2>1
  <2>3. home'[r] = home[r] /\ gone' = gone /\ home[r] \in Libraries \cup {Nowhere}
    BY <2>1
  <2>4. LiveAudio(r)' => LiveAudio(r)
    BY <2>2, <2>3 DEF LiveAudio, HasAudio, Things
  <2> QED
    BY <2>3, <2>4 DEF Moved, Status, HasAudio, B!Moves
<1>9. ASSUME Rollback PROVE Moved(r)
  BY <1>1, <1>9 DEF Rollback
<1>10. ASSUME NEW t \in Things, deleted' = [deleted EXCEPT ![t] = 0],
              UNCHANGED <<home, gone>>
       PROVE  Moved(r)
  <2>1. home'[r] = home[r] /\ gone' = gone /\ home[r] \in Libraries \cup {Nowhere}
    BY <1>10
  <2>2. LiveAudio(r) => LiveAudio(r)'
    BY <1>10, <2>1 DEF LiveAudio, HasAudio, Things
  <2> QED
    BY <2>1, <2>2 DEF Moved, Status, HasAudio, B!Moves
<1>11. ASSUME NEW u \in Users, NEW q \in Recordings, RestoreAudio(u, q) PROVE Moved(r)
  BY <1>10, <1>11 DEF RestoreAudio, Things
<1>12. ASSUME NEW u \in Users, NEW l \in Libraries, RestoreLibrary(u, l) PROVE Moved(r)
  BY <1>10, <1>12 DEF RestoreLibrary, Things
<1>13. ASSUME NEW ls \in SUBSET Libraries, NEW rs \in SUBSET Recordings, Purges(ls, rs)
       PROVE  Moved(r)
  BY <1>13, PurgesMove
<1>14. ASSUME NEW u \in Users, NEW v \in Users, NEW l \in Libraries, NEW g \in Grantable,
              ShareLibrary(u, l, v, g)
       PROVE  Moved(r)
  BY <1>1, <1>14 DEF ShareLibrary
<1>15. ASSUME NEW u \in Users, NEW v \in Users, NEW l \in Libraries, UnshareLibrary(u, l, v)
       PROVE  Moved(r)
  BY <1>1, <1>15 DEF UnshareLibrary
<1>16. ASSUME NEW u \in Users, NEW v \in Users, NEW q \in Recordings, NEW g \in Grantable,
              ShareAudio(u, q, v, g)
       PROVE  Moved(r)
  BY <1>1, <1>16 DEF ShareAudio
<1>17. ASSUME NEW u \in Users, NEW v \in Users, NEW q \in Recordings, UnshareAudio(u, q, v)
       PROVE  Moved(r)
  BY <1>1, <1>17 DEF UnshareAudio
<1>18. ASSUME NEW u \in Users, AskSummary(u) PROVE Moved(r)
  BY <1>1, <1>18 DEF AskSummary
<1>19. ASSUME NEW u \in Users, CountLibraries(u) PROVE Moved(r)
  BY <1>1, <1>19 DEF CountLibraries
<1>20. ASSUME NEW u \in Users, CountRecordings(u) PROVE Moved(r)
  BY <1>1, <1>20 DEF CountRecordings
<1>21. ASSUME Tick PROVE Moved(r)
  BY <1>1, <1>21 DEF Tick
<1>22. TypeOK
  BY DEF TrashInv
<1> HIDE DEF TrashInv, TypeOK
<1>23. ASSUME Next PROVE Moved(r)
  BY <1>3, <1>4, <1>5, <1>6, <1>7, <1>8, <1>9, <1>11, <1>12, <1>13, <1>14, <1>15, <1>16,
     <1>17, <1>18, <1>19, <1>20, <1>21, <1>22, <1>23, NextCases
<1> QED
  BY <1>2, <1>23

\* Whatever anybody does, a recording is destroyed only out of the trash, and
\* does not come back: the code implements Bin.
THEOREM BinImplemented == Spec => ImplementsBin
<1> DEFINE view == [r \in Recordings |-> Status(r)]
<1>1. Init => B!Init
  <2> SUFFICES ASSUME Init PROVE \A r \in Recordings : Status(r) = "unborn"
    BY DEF B!Init
  <2> QED
    BY DEF Init, Status, HasAudio
<1>2. TrashInv /\ [Next]_vars => B!Next \/ UNCHANGED view
  <2> SUFFICES ASSUME TrashInv, [Next]_vars PROVE B!Next
    OBVIOUS
  <2>1. \A r \in Recordings : Moved(r)
    BY StepsMove
  <2>2. view' = [r \in Recordings |-> Status(r)']
    OBVIOUS
  <2>3. \A r \in Recordings : Status(r)' \in B!Statuses
    BY DEF Status, B!Statuses
  <2> QED
    BY <2>1, <2>2, <2>3 DEF B!Next, Moved
<1> QED
  BY <1>1, <1>2, TrashInvariant, PTL DEF Spec, ImplementsBin, B!Spec

-----------------------------------------------------------------------------
(* What is due goes *)

\* The retention purge leaves nothing behind that is due: a recording in an
\* expired library has expired, so no library is held back by what is in it.
THEOREM DueThingsGo == Spec => NothingDueStays
<1>1. ASSUME TrashInv, RetentionPurge
      PROVE  \A t \in Things : ~Due(t)'
  <2> SUFFICES ASSUME NEW t \in Things, Due(t)'
               PROVE  FALSE
    OBVIOUS
  <2>1. /\ deleted' = [x \in Things |-> IF x \in ExpiredLibraries \cup ExpiredRecordings
                                        THEN 0 ELSE deleted[x]]
        /\ now' = now
    BY <1>1 DEF RetentionPurge, Destroy
  <2>2. t \notin ExpiredLibraries /\ t \notin ExpiredRecordings /\ Due(t)
    BY <2>1 DEF Due
  <2>3. CASE t \in Recordings
    <3>1. HasAudio(t)
      BY <1>1, <2>2, <2>3 DEF TrashInv, BlankRows, Due
    <3> QED
      BY <2>2, <2>3, <3>1 DEF ExpiredRecordings
  <2>4. CASE t \in Libraries
    <3>1. HasLibrary(t)
      BY <1>1, <2>2, <2>4 DEF TrashInv, BlankRows, Due
    <3>2. Contents(t) \subseteq ExpiredRecordings
      BY <2>2, <2>4, TrashAssumption DEF Contents, ExpiredRecordings, HasAudio
    <3> QED
      BY <2>2, <2>4, <3>1, <3>2 DEF ExpiredLibraries
  <2> QED
    BY <2>3, <2>4 DEF Things
<1>2. TrashInv /\ [Next]_vars => (RetentionPurge => \A t \in Things : ~Due(t)')
  BY <1>1
<1> QED
  BY <1>2, TrashInvariant, PTL DEF Spec, NothingDueStays

-----------------------------------------------------------------------------
(* What an empty takes was counted *)

\* What an empty at the instant of the look would take: the libraries, and the
\* recordings that are in the trash on their own.
Binned(u) == UpTo(TrashedLibraries(u), summary[u].at)
Loose(u) == UpTo(TrashedAudio(u), summary[u].at)

\* A look that nobody granted anything during has each of them, or it was being
\* sent to the trash meanwhile.
Counted(u) ==
    ~summary[u].given =>
      /\ summary[u].step \in {"half", "counted"} =>
           Binned(u) \subseteq summary[u].libraries \cup summary[u].missed
      /\ summary[u].step = "counted" =>
           /\ Loose(u) \subseteq summary[u].recordings \cup summary[u].missed
           /\ \A r \in Recordings : home[r] \in Binned(u) =>
                r \in Within(summary[u].missed,
                             summary[u].recordings \cup summary[u].missed)

\* The look stays as it is but for what it has missed.
SameLook(u) ==
    /\ summary'[u].at = summary[u].at /\ summary'[u].step = summary[u].step
    /\ summary'[u].libraries = summary[u].libraries
    /\ summary'[u].recordings = summary[u].recordings
    /\ summary'[u].given = summary[u].given
    /\ summary[u].missed \subseteq summary'[u].missed

\* Such a look stays good while whatever comes to be in its user's trash, up
\* to its instant, is something it has missed.
LEMMA CountedKept ==
  ASSUME NEW u \in Users, Counted(u), SameLook(u),
         Binned(u)' \subseteq Binned(u) \cup summary'[u].missed,
         Loose(u)' \subseteq Loose(u) \cup summary'[u].missed,
         \A r \in Recordings : home'[r] # home[r] => home'[r] \notin Binned(u)'
  PROVE  Counted(u)'
<1> SUFFICES ASSUME ~summary'[u].given
             PROVE  /\ summary'[u].step \in {"half", "counted"} =>
                         Binned(u)' \subseteq summary'[u].libraries \cup summary'[u].missed
                    /\ summary'[u].step = "counted" =>
                         /\ Loose(u)' \subseteq summary'[u].recordings \cup summary'[u].missed
                         /\ \A r \in Recordings : home'[r] \in Binned(u)' =>
                              \/ r \in summary'[u].recordings \cup summary'[u].missed
                              \/ home'[r] \in summary'[u].missed
  BY DEF Counted, Within
<1>1. \A r \in Recordings : summary[u].step = "counted" /\ home[r] \in Binned(u) =>
         \/ r \in summary[u].recordings \cup summary[u].missed
         \/ home[r] \in summary[u].missed
  BY DEF Counted, Within, SameLook
<1>2. summary[u].step \in {"half", "counted"} =>
        Binned(u) \subseteq summary[u].libraries \cup summary[u].missed
  BY DEF Counted, SameLook
<1>3. summary[u].step = "counted" =>
        Loose(u) \subseteq summary[u].recordings \cup summary[u].missed
  BY DEF Counted, SameLook
<1> HIDE DEF Counted
<1> QED
  BY <1>1, <1>2, <1>3 DEF SameLook

\* Membership, spelled out.
LEMMA BinnedFacts ==
  ASSUME NEW u \in Users, NEW x
  PROVE  /\ x \in Binned(u) <=> /\ x \in Libraries /\ HasLibrary(x)
                                /\ deleted[x] # 0 /\ deleted[x] <= summary[u].at
                                /\ LibraryLevel(u, x) >= MANAGE
         /\ x \in Loose(u) <=> /\ x \in Recordings /\ HasAudio(x)
                               /\ deleted[x] # 0 /\ deleted[x] <= summary[u].at
                               /\ AudioLevel(u, x) >= MANAGE
BY DEF Binned, Loose, UpTo, TrashedLibraries, TrashedAudio

\* Nobody's rights grow: whatever u may manage afterwards, it might before.
RightsFall(u) ==
    /\ \A l \in Libraries : LibraryLevel(u, l)' >= MANAGE => LibraryLevel(u, l) >= MANAGE
    /\ \A r \in Recordings : HasAudio(r)' /\ home'[r] = home[r]
          => (AudioLevel(u, r)' >= MANAGE => AudioLevel(u, r) >= MANAGE)

LEMMA LevelTypes ==
  ASSUME TypeOK, NEW u \in Users
  PROVE  /\ \A l \in Libraries : LibraryLevel(u, l) \in Nat
         /\ \A r \in Recordings : grant[r][u] \in Nat
         /\ \A r \in Recordings : home[r] \in Libraries =>
              (AudioLevel(u, r) >= MANAGE
                 <=> LibraryLevel(u, home[r]) >= MANAGE \/ grant[r][u] >= MANAGE)
<1>1. \A x \in Things : grant[x][u] \in Nat
  BY DEF TypeOK, NO_ACCESS, EDIT, MANAGE
<1>2. \A l \in Libraries : LibraryLevel(u, l) \in Nat
  BY <1>1 DEF LibraryLevel, OWNER, Things
<1>3. \A r \in Recordings : grant[r][u] \in Nat
  BY <1>1 DEF Things
<1> QED
  BY <1>2, <1>3 DEF AudioLevel, MANAGE

\* Where rights only fall and nothing enters the trash, nothing new is binned.
LEMMA NothingEnters ==
  ASSUME TypeOK, NEW u \in Users, SameLook(u), Counted(u), RightsFall(u),
         \A l \in Libraries : /\ HasLibrary(l)' /\ deleted'[l] # 0
                              => HasLibrary(l) /\ deleted'[l] = deleted[l],
         \A r \in Recordings : /\ HasAudio(r)' /\ deleted'[r] # 0
                               => /\ HasAudio(r) /\ deleted'[r] = deleted[r]
                                  /\ home'[r] = home[r],
         \A r \in Recordings : home'[r] # home[r] =>
                                 home'[r] = Nowhere \/ deleted'[home'[r]] = 0
  PROVE  Counted(u)'
<1>1. Binned(u)' \subseteq Binned(u)
  <2> SUFFICES ASSUME NEW x \in Binned(u)' PROVE x \in Binned(u)
    OBVIOUS
  <2>1. /\ x \in Libraries /\ HasLibrary(x)' /\ deleted'[x] # 0
        /\ deleted'[x] <= summary'[u].at /\ LibraryLevel(u, x)' >= MANAGE
    BY DEF Binned, UpTo, TrashedLibraries
  <2> QED
    BY <2>1, BinnedFacts DEF RightsFall, SameLook
<1>2. Loose(u)' \subseteq Loose(u)
  <2> SUFFICES ASSUME NEW x \in Loose(u)' PROVE x \in Loose(u)
    OBVIOUS
  <2>1. /\ x \in Recordings /\ HasAudio(x)' /\ deleted'[x] # 0
        /\ deleted'[x] <= summary'[u].at /\ AudioLevel(u, x)' >= MANAGE
    BY DEF Loose, UpTo, TrashedAudio
  <2> QED
    BY <2>1, BinnedFacts DEF RightsFall, SameLook
<1>3. \A r \in Recordings : home'[r] # home[r] => home'[r] \notin Binned(u)'
  BY TrashAssumption DEF Binned, UpTo, TrashedLibraries
<1> QED
  BY <1>1, <1>2, <1>3, CountedKept

\* Where neither rows nor grants change, rights are as they were.
LEMMA RightsSame ==
  ASSUME NEW u \in Users, UNCHANGED <<owner, grant, home>>
  PROVE  RightsFall(u)
BY DEF RightsFall, LibraryLevel, AudioLevel

LEMMA LookSame ==
  ASSUME NEW u \in Users, UNCHANGED summary
  PROVE  SameLook(u)
BY DEF SameLook

\* A new library is nobody's recording's, and an upload or a move goes where
\* nothing is in the trash.
LEMMA ArrivalsKeepCount ==
  ASSUME TrashInv, NEW u \in Users, Counted(u), NEW w \in Users, NEW l \in Libraries,
         \/ CreateLibrary(w, l)
         \/ \E r \in Recordings : Upload(w, r, l) \/ MoveAudio(w, r, l)
  PROVE  Counted(u)'
<1>0. TypeOK /\ NothingAdrift /\ BlankRows
  BY DEF TrashInv
<1>1. CASE CreateLibrary(w, l)
  <2>1. /\ ~HasLibrary(l) /\ UNCHANGED <<home, deleted, grant, summary>>
        /\ \A m \in Libraries : m # l => owner'[m] = owner[m]
    BY <1>0, <1>1 DEF CreateLibrary, TypeOK
  <2>2. deleted[l] = 0
    BY <1>0, <2>1 DEF BlankRows
  <2>3. \A r \in Recordings : home[r] # l
    BY <1>0, <2>1, TrashAssumption DEF NothingAdrift, HasAudio
  <2>4. \A m \in Libraries : HasLibrary(m)' /\ deleted'[m] # 0 => m # l
    BY <2>1, <2>2
  <2>5. Binned(u)' \subseteq Binned(u)
    <3> SUFFICES ASSUME NEW x \in Binned(u)' PROVE x \in Binned(u)
      OBVIOUS
    <3>1. /\ x \in Libraries /\ HasLibrary(x)' /\ deleted'[x] # 0
          /\ deleted'[x] <= summary'[u].at /\ LibraryLevel(u, x)' >= MANAGE
      BY DEF Binned, UpTo, TrashedLibraries
    <3> QED
      BY <2>1, <2>4, <3>1, BinnedFacts DEF HasLibrary, LibraryLevel
  <2>6. Loose(u)' \subseteq Loose(u)
    <3> SUFFICES ASSUME NEW x \in Loose(u)' PROVE x \in Loose(u)
      OBVIOUS
    <3>1. /\ x \in Recordings /\ HasAudio(x)' /\ deleted'[x] # 0
          /\ deleted'[x] <= summary'[u].at /\ AudioLevel(u, x)' >= MANAGE
      BY DEF Loose, UpTo, TrashedAudio
    <3>2. home[x] \in Libraries \ {l}
      BY <1>0, <2>1, <2>3, <3>1 DEF TypeOK, HasAudio
    <3>3. AudioLevel(u, x)' = AudioLevel(u, x)
      BY <2>1, <3>2 DEF AudioLevel, LibraryLevel
    <3> QED
      BY <2>1, <3>1, <3>3, BinnedFacts DEF HasAudio
  <2> QED
    BY <2>1, <2>5, <2>6, LookSame, CountedKept
<1>2. ASSUME NEW r \in Recordings, Upload(w, r, l) \/ MoveAudio(w, r, l)
      PROVE  Counted(u)'
  <2>1. /\ home' = [home EXCEPT ![r] = l] /\ deleted[l] = 0 /\ deleted[r] = 0
        /\ UNCHANGED <<owner, deleted, grant, summary>>
    BY <1>0, <1>2 DEF Upload, MoveAudio, LiveLibrary, LiveAudio, BlankRows
  <2>2. \A q \in Recordings : q # r => home'[q] = home[q]
    BY <1>0, <2>1 DEF TypeOK
  <2>3. home'[r] = l
    BY <1>0, <2>1 DEF TypeOK
  <2>4. Binned(u)' \subseteq Binned(u)
    BY <2>1 DEF Binned, UpTo, TrashedLibraries, LibraryLevel, HasLibrary
  <2>5. Loose(u)' \subseteq Loose(u)
    <3> SUFFICES ASSUME NEW x \in Loose(u)' PROVE x \in Loose(u)
      OBVIOUS
    <3>1. /\ x \in Recordings /\ HasAudio(x)' /\ deleted'[x] # 0
          /\ deleted'[x] <= summary'[u].at /\ AudioLevel(u, x)' >= MANAGE
      BY DEF Loose, UpTo, TrashedAudio
    <3>2. x # r
      BY <2>1, <3>1
    <3>3. AudioLevel(u, x)' = AudioLevel(u, x)
      BY <2>1, <2>2, <3>1, <3>2 DEF AudioLevel, LibraryLevel
    <3> QED
      BY <2>1, <2>2, <3>1, <3>2, <3>3, BinnedFacts DEF HasAudio
  <2>6. \A q \in Recordings : home'[q] # home[q] => home'[q] \notin Binned(u)'
    BY <2>1, <2>2, <2>3 DEF Binned, UpTo, TrashedLibraries
  <2> QED
    BY <2>1, <2>4, <2>5, <2>6, LookSame, CountedKept
<1> QED
  BY <1>1, <1>2

\* What the commit adds to the trash, up to the instant of a look, is what the
\* look has missed.
LEMMA CommitKeepsCount ==
  ASSUME TrashInv, NEW u \in Users, Counted(u), Commit
  PROVE  Counted(u)'
<1> DEFINE t == writer[1]
           when == writer[2]
           told == summary[u].step # "none" /\ when <= summary[u].at
<1>0. TypeOK
  BY DEF TrashInv
<1>1. /\ t \in Things /\ when \in 1..MaxTime
      /\ deleted' = [deleted EXCEPT ![t] = when]
      /\ UNCHANGED <<owner, home, grant>>
  BY <1>0 DEF Commit, Free, TypeOK
<1>2. deleted'[t] = when /\ \A x \in Things : x # t => deleted'[x] = deleted[x]
  BY <1>0, <1>1 DEF TypeOK
<1>3. summary'[u] = IF told THEN [summary[u] EXCEPT !.missed = @ \cup {t}] ELSE summary[u]
  BY DEF Commit
<1>4. summary[u] \in Summaries
  BY <1>0 DEF TypeOK
<1>5. SameLook(u) /\ (told => t \in summary'[u].missed)
  BY <1>3, <1>4 DEF SameLook, Summaries
<1> HIDE DEF t, when
<1>6. CASE summary[u].step = "none"
  BY <1>5, <1>6 DEF Counted, SameLook
<1>7. CASE summary[u].step # "none"
  <2>1. when <= summary[u].at => t \in summary'[u].missed
    BY <1>5, <1>7
  <2>2. \A x : x \in Binned(u)' => x \in Binned(u) \/ x \in summary'[u].missed
    <3> SUFFICES ASSUME NEW x \in Binned(u)', x # t PROVE x \in Binned(u)
      BY <1>2, <1>5, <2>1 DEF Binned, UpTo, SameLook
    <3>1. /\ x \in Libraries /\ HasLibrary(x)' /\ deleted'[x] # 0
          /\ deleted'[x] <= summary'[u].at /\ LibraryLevel(u, x)' >= MANAGE
      BY DEF Binned, UpTo, TrashedLibraries
    <3> QED
      BY <1>1, <1>2, <1>5, <3>1, BinnedFacts DEF Things, HasLibrary, LibraryLevel, SameLook
  <2>3. \A x : x \in Loose(u)' => x \in Loose(u) \/ x \in summary'[u].missed
    <3> SUFFICES ASSUME NEW x \in Loose(u)', x # t PROVE x \in Loose(u)
      BY <1>2, <1>5, <2>1 DEF Loose, UpTo, SameLook
    <3>1. /\ x \in Recordings /\ HasAudio(x)' /\ deleted'[x] # 0
          /\ deleted'[x] <= summary'[u].at /\ AudioLevel(u, x)' >= MANAGE
      BY DEF Loose, UpTo, TrashedAudio
    <3> QED
      BY <1>1, <1>2, <1>5, <3>1, BinnedFacts
         DEF Things, HasAudio, AudioLevel, LibraryLevel, SameLook
  <2> QED
    BY <1>1, <1>5, <2>2, <2>3, CountedKept
<1> QED
  BY <1>6, <1>7

\* A purge takes rows, and nobody's rights on the others grow.
LEMMA PurgesKeepCount ==
  ASSUME TrashInv, NEW u \in Users, Counted(u),
         NEW ls \in SUBSET Libraries, NEW rs \in SUBSET Recordings, Purges(ls, rs)
  PROVE  Counted(u)'
<1>0. TypeOK
  BY DEF TrashInv
<1>1. /\ {r \in Recordings : home[r] \in ls} \subseteq rs
      /\ owner' = [l \in Libraries |-> IF l \in ls THEN NoUser ELSE owner[l]]
      /\ home' = [r \in Recordings |-> IF r \in rs THEN Nowhere ELSE home[r]]
      /\ deleted' = [t \in Things |-> IF t \in ls \cup rs THEN 0 ELSE deleted[t]]
      /\ grant' = [t \in Things |-> IF t \in ls \cup rs
                                    THEN [w \in Users |-> NO_ACCESS] ELSE grant[t]]
      /\ UNCHANGED summary
  BY DEF Purges, Destroy
<1>2. \A l \in Libraries : HasLibrary(l)' =>
        /\ l \notin ls /\ owner'[l] = owner[l] /\ HasLibrary(l)
        /\ deleted'[l] = deleted[l] /\ grant'[l] = grant[l]
  BY <1>1, TrashAssumption DEF HasLibrary, Things
<1>3. \A r \in Recordings : HasAudio(r)' =>
        /\ r \notin rs /\ home'[r] = home[r] /\ HasAudio(r)
        /\ deleted'[r] = deleted[r] /\ grant'[r] = grant[r]
  BY <1>1, TrashAssumption DEF HasAudio, Things
<1>4. \A l \in Libraries : ~HasLibrary(l)' => owner'[l] = NoUser /\ (l \in ls \/ owner[l] = NoUser)
  BY <1>1 DEF HasLibrary
<1>5. \A l \in Libraries : LibraryLevel(u, l)' >= MANAGE => LibraryLevel(u, l) >= MANAGE
  <2> SUFFICES ASSUME NEW l \in Libraries, LibraryLevel(u, l)' >= MANAGE
               PROVE  LibraryLevel(u, l) >= MANAGE
    OBVIOUS
  <2>1. l \notin ls
    BY <1>1, TrashAssumption DEF LibraryLevel, NO_ACCESS, MANAGE, Things
  <2>2. owner'[l] = owner[l] /\ grant'[l] = grant[l]
    BY <1>1, <2>1, TrashAssumption DEF Things
  <2> QED
    BY <2>2 DEF LibraryLevel
<1>6. ASSUME NEW r \in Recordings, HasAudio(r)'
      PROVE  AudioLevel(u, r)' = AudioLevel(u, r)
  <2>1. home[r] \in Libraries \ ls
    BY <1>0, <1>1, <1>3, <1>6 DEF TypeOK, HasAudio
  <2>2. owner'[home[r]] = owner[home[r]] /\ grant'[home[r]] = grant[home[r]]
    BY <1>1, <2>1, TrashAssumption DEF Things
  <2> QED
    BY <1>3, <1>6, <2>2 DEF AudioLevel, LibraryLevel
<1>7. RightsFall(u)
  BY <1>5, <1>6 DEF RightsFall
<1>8. \A r \in Recordings : home'[r] # home[r] => home'[r] = Nowhere
  BY <1>1
<1> QED
  BY <1>0, <1>1, <1>2, <1>3, <1>7, <1>8, LookSame, NothingEnters

\* A grant to the user of a look is remembered with it; one to somebody else
\* does not touch what the look counts; one taken back only makes it fewer.
LEMMA GrantsKeepCount ==
  ASSUME TrashInv, NEW u \in Users, Counted(u), NEW v \in Users,
         NEW t \in Things, NEW g \in {NO_ACCESS, EDIT, MANAGE},
         grant' = [grant EXCEPT ![t][v] = g],
         UNCHANGED <<owner, home, deleted>>,
         summary' = Told(v) \/ (UNCHANGED summary /\ g = NO_ACCESS)
  PROVE  Counted(u)'
<1>0. TypeOK
  BY DEF TrashInv
<1>1. summary[u] \in Summaries
  BY <1>0 DEF TypeOK
<1>2. CASE summary' = Told(v) /\ u = v
  <2>1. summary'[u] = [summary[u] EXCEPT !.given = summary[u].step # "none"]
    BY <1>0, <1>2 DEF Told, TypeOK
  <2>2. summary'[u].given = (summary[u].step # "none") /\ summary'[u].step = summary[u].step
    BY <1>1, <2>1 DEF Summaries
  <2> QED
    BY <2>2 DEF Counted
<1>3. CASE u # v \/ g = NO_ACCESS
  <2>1. SameLook(u) \/ (summary' = Told(v) /\ u = v)
    <3>1. CASE UNCHANGED summary
      BY <3>1, LookSame
    <3>2. CASE summary' = Told(v) /\ u # v
      <4>1. summary'[u] = summary[u]
        BY <1>0, <3>2 DEF Told, TypeOK
      <4> QED
        BY <4>1 DEF SameLook
    <3> QED
      BY <3>1, <3>2
  <2>2. \A x \in Things : grant'[x][u] = grant[x][u] \/ grant'[x][u] = NO_ACCESS
    BY <1>0, <1>3 DEF TypeOK
  <2>3. \A x \in Things : grant'[x][u] >= MANAGE => grant[x][u] >= MANAGE
    BY <2>2 DEF NO_ACCESS, MANAGE
  <2>4. \A l \in Libraries : LibraryLevel(u, l)' >= MANAGE => LibraryLevel(u, l) >= MANAGE
    BY <2>3 DEF LibraryLevel, Things
  <2>5. \A r \in Recordings : HasAudio(r)' /\ home'[r] = home[r]
          => (AudioLevel(u, r)' >= MANAGE => AudioLevel(u, r) >= MANAGE)
    <3> SUFFICES ASSUME NEW r \in Recordings, HasAudio(r)', AudioLevel(u, r)' >= MANAGE
                 PROVE  AudioLevel(u, r) >= MANAGE
      OBVIOUS
    <3>1. home[r] \in Libraries
      BY <1>0 DEF TypeOK, HasAudio
    <3>2. LibraryLevel(u, home[r])' >= MANAGE \/ grant'[r][u] >= MANAGE
      BY DEF AudioLevel
    <3>3. LibraryLevel(u, home[r]) >= MANAGE \/ grant[r][u] >= MANAGE
      BY <2>3, <2>4, <3>1, <3>2 DEF Things
    <3> QED
      BY <1>0, <3>1, <3>3, LevelTypes
  <2>6. RightsFall(u)
    BY <2>4, <2>5 DEF RightsFall
  <2> QED
    BY <1>0, <1>2, <2>1, <2>6, NothingEnters DEF HasLibrary, HasAudio
<1> QED
  BY <1>2, <1>3

\* The look itself: it starts over, has counted the libraries, then all of it.
LEMMA LooksCount ==
  ASSUME TrashInv, NEW u \in Users, Counted(u), NEW w \in Users,
         AskSummary(w) \/ CountLibraries(w) \/ CountRecordings(w)
  PROVE  Counted(u)'
<1>0. /\ TypeOK /\ UNCHANGED <<owner, home, deleted, grant>>
      /\ summary[u] \in Summaries
  BY DEF TrashInv, TypeOK, AskSummary, CountLibraries, CountRecordings
<1>1. CASE u # w
  <2>1. summary'[u] = summary[u]
    BY <1>0, <1>1 DEF AskSummary, CountLibraries, CountRecordings, TypeOK
  <2>2. SameLook(u)
    BY <2>1 DEF SameLook
  <2> QED
    BY <1>0, <2>2, RightsSame, NothingEnters DEF HasLibrary, HasAudio
<1>2. CASE u = w /\ AskSummary(u)
  <2>1. summary'[u].step = "asked"
    BY <1>0, <1>2 DEF AskSummary, TypeOK, Unasked
  <2> QED
    BY <2>1 DEF Counted
<1>3. CASE u = w /\ CountLibraries(u)
  <2> DEFINE look == [summary[u] EXCEPT !.step = "half", !.libraries = Binned(u)]
  <2>1. summary'[u] = look
    BY <1>0, <1>3 DEF CountLibraries, Binned, TypeOK
  <2>2. look.step = "half" /\ look.libraries = Binned(u) /\ look.at = summary[u].at
    BY <1>0 DEF Summaries
  <2> HIDE DEF look
  <2>3. Binned(u)' = Binned(u)
    BY <1>0, <2>1, <2>2 DEF Binned, UpTo, TrashedLibraries, LibraryLevel, HasLibrary
  <2> QED
    BY <2>1, <2>2, <2>3 DEF Counted
<1>4. CASE u = w /\ CountRecordings(u)
  <2> DEFINE all == Within(summary[u].libraries, Loose(u))
             look == [summary[u] EXCEPT !.step = "counted", !.recordings = all]
  <2>1. summary'[u] = look /\ summary[u].step = "half"
    BY <1>0, <1>4 DEF CountRecordings, Loose, TypeOK
  <2>2. /\ look.step = "counted" /\ look.recordings = all /\ look.at = summary[u].at
        /\ look.libraries = summary[u].libraries /\ look.missed = summary[u].missed
        /\ look.given = summary[u].given
    BY <1>0 DEF Summaries
  <2> HIDE DEF look
  <2>3. Binned(u)' = Binned(u) /\ Loose(u)' = Loose(u)
    BY <1>0, <2>1, <2>2 DEF Binned, Loose, UpTo, TrashedLibraries, TrashedAudio,
       LibraryLevel, AudioLevel, HasLibrary, HasAudio
  <2>4. ~summary[u].given =>
          Binned(u) \subseteq summary[u].libraries \cup summary[u].missed
    BY <2>1 DEF Counted
  <2>5. Loose(u) \subseteq all
    BY DEF Within
  <2>6. \A r \in Recordings : home[r] \in summary[u].libraries => r \in all
    BY DEF Within
  <2> HIDE DEF all
  <2> QED
    BY <1>0, <2>1, <2>2, <2>3, <2>4, <2>5, <2>6 DEF Counted, Within
<1> QED
  BY <1>1, <1>2, <1>3, <1>4

LEMMA CountedNext ==
  ASSUME TrashInv, NEW u \in Users, Counted(u), [Next]_vars
  PROVE  Counted(u)'
<1>0. TypeOK
  BY DEF TrashInv
<1>1. ASSUME UNCHANGED <<owner, home, deleted, grant, summary>>
      PROVE  Counted(u)'
  BY <1>0, <1>1, LookSame, RightsSame, NothingEnters DEF HasLibrary, HasAudio
<1>2. ASSUME NEW t \in Things, deleted' = [deleted EXCEPT ![t] = 0],
             UNCHANGED <<owner, home, grant, summary>>
      PROVE  Counted(u)'
  <2>1. \A x \in Things : deleted'[x] # 0 => deleted'[x] = deleted[x]
    BY <1>0, <1>2 DEF TypeOK
  <2> QED
    BY <1>0, <1>2, <2>1, LookSame, RightsSame, NothingEnters DEF HasLibrary, HasAudio, Things
<1>3. ASSUME NEW w \in Users, NEW l \in Libraries, CreateLibrary(w, l)
      PROVE  Counted(u)'
  BY <1>3, ArrivalsKeepCount
<1>4. ASSUME NEW w \in Users, NEW r \in Recordings, NEW l \in Libraries,
             Upload(w, r, l) \/ MoveAudio(w, r, l)
      PROVE  Counted(u)'
  BY <1>4, ArrivalsKeepCount
<1>5. ASSUME NEW w \in Users, NEW r \in Recordings, TrashAudio(w, r)
      PROVE  Counted(u)'
  BY <1>1, <1>5 DEF TrashAudio
<1>6. ASSUME NEW w \in Users, NEW l \in Libraries, TrashLibrary(w, l)
      PROVE  Counted(u)'
  BY <1>1, <1>6 DEF TrashLibrary
<1>7. CASE Commit
  BY <1>7, CommitKeepsCount
<1>8. CASE Rollback \/ Tick \/ UNCHANGED vars
  BY <1>1, <1>8 DEF Rollback, Tick, vars
<1>9. ASSUME NEW w \in Users, NEW r \in Recordings, RestoreAudio(w, r)
      PROVE  Counted(u)'
  BY <1>2, <1>9 DEF RestoreAudio, Things
<1>10. ASSUME NEW w \in Users, NEW l \in Libraries, RestoreLibrary(w, l)
       PROVE  Counted(u)'
  BY <1>2, <1>10 DEF RestoreLibrary, Things
<1>11. ASSUME NEW ls \in SUBSET Libraries, NEW rs \in SUBSET Recordings, Purges(ls, rs)
       PROVE  Counted(u)'
  BY <1>11, PurgesKeepCount
<1>12. ASSUME NEW w \in Users, NEW v \in Users, NEW l \in Libraries, NEW g \in Grantable,
              ShareLibrary(w, l, v, g)
       PROVE  Counted(u)'
  BY <1>12, GrantsKeepCount DEF ShareLibrary, Grantable, Things
<1>13. ASSUME NEW w \in Users, NEW v \in Users, NEW l \in Libraries, UnshareLibrary(w, l, v)
       PROVE  Counted(u)'
  BY <1>13, GrantsKeepCount DEF UnshareLibrary, Things
<1>14. ASSUME NEW w \in Users, NEW v \in Users, NEW r \in Recordings, NEW g \in Grantable,
              ShareAudio(w, r, v, g)
       PROVE  Counted(u)'
  BY <1>14, GrantsKeepCount DEF ShareAudio, Grantable, Things
<1>15. ASSUME NEW w \in Users, NEW v \in Users, NEW r \in Recordings, UnshareAudio(w, r, v)
       PROVE  Counted(u)'
  BY <1>15, GrantsKeepCount DEF UnshareAudio, Things
<1>16. ASSUME NEW w \in Users, AskSummary(w) \/ CountLibraries(w) \/ CountRecordings(w)
       PROVE  Counted(u)'
  BY <1>16, LooksCount
<1> QED
  BY <1>0, <1>3, <1>4, <1>5, <1>6, <1>7, <1>8, <1>9, <1>10, <1>11, <1>12, <1>13, <1>14,
     <1>15, <1>16, NextCases

Counts == \A u \in Users : Counted(u)

\* A look nobody granted anything during has each library and recording that an
\* empty at its instant would take, or has missed it on its way into the trash.
THEOREM LooksHold == Spec => []Counts
<1>1. Init => Counts
  BY DEF Init, Counts, Counted, Unasked
<1>2. TrashInv /\ Counts /\ [Next]_vars => Counts'
  BY CountedNext DEF Counts
<1> QED
  BY <1>1, <1>2, TrashInvariant, PTL DEF Spec

\* What an empty destroys and its summary did not count was being sent to the
\* trash while the summary was counted, or its user has been granted something
\* since: restoring, moving, uploading, trashing later and other purges between
\* the two add nothing to it.
THEOREM EmptyTakesWhatWasCounted == Spec => UncountedHasACause
<1>1. ASSUME TrashInv, Counts, NEW u \in Users, Empty(u), ~summary[u].given
      PROVE  Destroyed \subseteq
               Within(summary[u].missed, summary[u].recordings \cup summary[u].missed)
  <2> SUFFICES ASSUME NEW r \in Destroyed
               PROVE  r \in Within(summary[u].missed,
                                   summary[u].recordings \cup summary[u].missed)
    OBVIOUS
  <2>1. /\ r \in Recordings /\ HasAudio(r) /\ home'[r] = Nowhere
        /\ home' = [q \in Recordings |-> IF q \in Within(Binned(u), Loose(u))
                                         THEN Nowhere ELSE home[q]]
        /\ summary[u].step = "counted"
    BY <1>1 DEF Destroyed, Empty, Destroy, Binned, Loose
  <2>2. r \in Within(Binned(u), Loose(u))
    BY <2>1 DEF HasAudio
  <2>3. /\ Loose(u) \subseteq summary[u].recordings \cup summary[u].missed
        /\ \A q \in Recordings : home[q] \in Binned(u) =>
             q \in Within(summary[u].missed, summary[u].recordings \cup summary[u].missed)
    BY <1>1, <2>1 DEF Counts, Counted
  <2> QED
    BY <2>1, <2>2, <2>3 DEF Within
<1>2. ASSUME TrashInv, Counts, [Next]_vars
      PROVE  \A u \in Users : Empty(u) =>
               \/ summary[u].given
               \/ Destroyed \subseteq
                    Within(summary[u].missed, summary[u].recordings \cup summary[u].missed)
  BY <1>1, <1>2
<1> QED
  BY <1>2, TrashInvariant, LooksHold, PTL DEF Spec, UncountedHasACause
=============================================================================
